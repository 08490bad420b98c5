----------------------------- MODULE ShellProofs ------------------------------
(* The model of the windows: see WindowModel.                               *)
EXTENDS MCShell, RowsProofs, SequenceTheorems

LEMMA SameRows ==
  /\ \A s : Model!ToSet(s) = ToSet(s) /\ Model!Stacking!ToSet(s) = ToSet(s)
  /\ \A s : (Model!IsInjective(s) <=> IsInjective(s)) /\ (Model!Stacking!IsInjective(s) <=> IsInjective(s))
  /\ \A s, S : Model!Kept(s, S) = Kept(s, S) /\ Model!Stacking!Kept(s, S) = Kept(s, S)
  /\ \A s, S : Model!Without(s, S) = Without(s, S) /\ Model!Stacking!Without(s, S) = Without(s, S)
<1>1. \A s : Model!ToSet(s) = ToSet(s) /\ Model!Stacking!ToSet(s) = ToSet(s)
  BY DEF Model!ToSet, ToSet, Model!Stacking!ToSet
<1>2. \A s : (Model!IsInjective(s) <=> IsInjective(s)) /\ (Model!Stacking!IsInjective(s) <=> IsInjective(s))
  BY DEF Model!IsInjective, IsInjective, Model!Stacking!IsInjective
<1>3. \A s, S : Model!Kept(s, S) = Kept(s, S) /\ Model!Stacking!Kept(s, S) = Kept(s, S)
  BY DEF Model!Kept, Kept, Model!Stacking!Kept
<1>4. \A s, S : Model!Without(s, S) = Without(s, S) /\ Model!Stacking!Without(s, S) = Without(s, S)
  BY <1>1, <1>3 DEF Model!Without, Without, Model!Stacking!Without
<1> QED
  BY <1>1, <1>2, <1>3, <1>4

LEMMA SameCardinality == \A S : Model!Cardinality(S) = Cardinality(S)
BY DEF Model!Cardinality, Cardinality

LEMMA IndexIs ==
  ASSUME NEW A, NEW s \in Seq(A), NEW w
  PROVE  /\ Model!IndexIn(s, w) \in 0 .. Len(s)
         /\ Model!IndexIn(s, w) = 0 <=> w \notin ToSet(s)
         /\ w \in ToSet(s) => s[Model!IndexIn(s, w)] = w
<1>0. Len(s) \in Nat /\ DOMAIN s = 1 .. Len(s)
  OBVIOUS
<1>1. PICK I : I = { i \in 1 .. Len(s) : s[i] = w }
  OBVIOUS
<1>2. Model!IndexIn(s, w) = IF I # {} THEN Model!Min(I) ELSE 0
  BY <1>1 DEF Model!IndexIn, Model!SelectInSeq
<1>3. CASE I = {}
  <2>1. w \notin ToSet(s)
    BY <1>0, <1>1, <1>3 DEF ToSet
  <2> QED
    BY <1>0, <1>2, <1>3, <2>1
<1>4. CASE I # {}
  <2>1. PICK j \in I : \A i \in I : j <= i
    <3>1. I \subseteq Nat
      BY <1>1
    <3> QED
      BY <1>4, <3>1, Least
  <2>2. Model!Min(I) \in I
    BY <2>1 DEF Model!Min
  <2>3. w \in ToSet(s)
    BY <1>0, <1>1, <1>4 DEF ToSet
  <2>4. Model!IndexIn(s, w) \in I
    BY <1>2, <1>4, <2>2
  <2> QED
    BY <1>0, <1>1, <2>3, <2>4
<1> QED
  BY <1>3, <1>4

------------------------------------------------------------------------------
(* onWindowsRaised(): what is there once the k highest of t are moved.      *)

Top(t, k) == { t[i] : i \in Len(t) - k + 1 .. Len(t) }

(* Those of them that x of s was above.                                     *)
Under(s, t, k, x) ==
  { j \in Len(t) - k + 1 .. Len(t) : Model!IndexIn(s, t[j]) < Model!IndexIn(s, x) }

Halfway(s, t, k, r) ==
  /\ k <= Len(s) /\ Len(r) = Len(s) /\ IsInjective(r) /\ ToSet(r) = ToSet(s)
  /\ \A p \in 1 .. Len(s) - k :
       r[p] \notin Top(t, k) /\ p = Model!IndexIn(s, r[p]) - Cardinality(Under(s, t, k, r[p]))
  /\ \A i \in Len(t) - k + 1 .. Len(t) : r[Len(s) - Len(t) + i] = t[i]
  /\ \A p, q \in 1 .. Len(s) - k : p < q => Model!IndexIn(s, r[p]) < Model!IndexIn(s, r[q])

(* A row that moves up, and where each row then comes from.                 *)
From(f, g, p) == IF p < f THEN p ELSE IF p < g THEN p + 1 ELSE IF p = g THEN f ELSE p

MovesTo(A, r, f, g, q) ==
  /\ q \in Seq(A) /\ Len(q) = Len(r)
  /\ \A p \in 1 .. Len(r) : From(f, g, p) \in 1 .. Len(r) /\ q[p] = r[From(f, g, p)]

LEMMA RowMoves ==
  ASSUME NEW A, NEW r \in Seq(A), NEW f \in 1 .. Len(r), NEW g \in f .. Len(r)
  PROVE  MovesTo(A, r, f, g, Model!MoveRow(r, << f, g >>))
<1>0. Len(r) \in Nat /\ f \in Nat /\ g \in Nat /\ f <= g /\ g <= Len(r) /\ 1 <= f
  OBVIOUS
<1>1. CASE f = g
  <2>1. Model!MoveRow(r, << f, g >>) = r
    BY <1>1 DEF Model!MoveRow
  <2>2. \A p \in 1 .. Len(r) : From(f, g, p) = p
    BY <1>0, <1>1 DEF From
  <2> QED
    BY <2>1, <2>2 DEF MovesTo
<1>2. CASE f # g
  <2> DEFINE c == SubSeq(r, 1, f - 1)
             d == SubSeq(r, f + 1, Len(r))
             a == c \o d
             h == SubSeq(a, 1, g - 1)
             l == SubSeq(a, g, Len(a))
             m == << r[f] >>
             o == h \o m
             b == o \o l
  <2>1. Model!MoveRow(r, << f, g >>) = b
    BY <1>2 DEF Model!MoveRow, Model!RemoveAt, Model!InsertAt
  <2> HIDE DEF a, b, c, d, h, l, m, o
  <2>2. /\ c \in Seq(A) /\ Len(c) = f - 1
        /\ \A p \in 1 .. f - 1 : c[p] = r[p]
    <3>1. 1 \in 1 .. Len(r) + 1 /\ f - 1 \in 1 - 1 .. Len(r)
      BY <1>0
    <3>2. /\ c \in Seq(A) /\ Len(c) = (f - 1) - 1 + 1
          /\ \A p \in 1 .. (f - 1) - 1 + 1 : c[p] = r[p + 1 - 1]
      BY <3>1, SubRow DEF c
    <3> QED
      BY <1>0, <3>2
  <2>3. /\ d \in Seq(A) /\ Len(d) = Len(r) - f
        /\ \A p \in 1 .. Len(r) - f : d[p] = r[p + f]
    <3>1. f + 1 \in 1 .. Len(r) + 1 /\ Len(r) \in (f + 1) - 1 .. Len(r)
      BY <1>0
    <3>2. /\ d \in Seq(A) /\ Len(d) = Len(r) - (f + 1) + 1
          /\ \A p \in 1 .. Len(r) - (f + 1) + 1 : d[p] = r[p + (f + 1) - 1]
      BY <3>1, SubRow DEF d
    <3>3. Len(r) - (f + 1) + 1 = Len(r) - f /\ \A p \in Int : p + (f + 1) - 1 = p + f
      BY <1>0
    <3>4. \A p \in 1 .. Len(r) - f : p \in Int
      BY <1>0
    <3> QED
      BY <3>2, <3>3, <3>4
  <2>4. /\ a \in Seq(A) /\ Len(a) = Len(c) + Len(d)
        /\ \A p \in 1 .. Len(c) : a[p] = c[p]
        /\ \A p \in Len(c) + 1 .. Len(c) + Len(d) : a[p] = d[p - Len(c)]
    BY <2>2, <2>3, JoinedAt DEF a
  <2>5. Len(a) = Len(r) - 1
    BY <1>0, <2>2, <2>3, <2>4
  <2>6. /\ h \in Seq(A) /\ Len(h) = g - 1
        /\ \A p \in 1 .. g - 1 : h[p] = a[p]
    <3>1. 1 \in 1 .. Len(a) + 1 /\ g - 1 \in 1 - 1 .. Len(a)
      BY <1>0, <1>2, <2>5
    <3>2. /\ h \in Seq(A) /\ Len(h) = (g - 1) - 1 + 1
          /\ \A p \in 1 .. (g - 1) - 1 + 1 : h[p] = a[p + 1 - 1]
      BY <2>4, <3>1, SubRow DEF h
    <3> QED
      BY <1>0, <3>2
  <2>7. /\ l \in Seq(A) /\ Len(l) = Len(r) - g
        /\ \A p \in 1 .. Len(r) - g : l[p] = a[p + g - 1]
    <3>1. g \in 1 .. Len(a) + 1 /\ Len(a) \in g - 1 .. Len(a)
      BY <1>0, <2>5
    <3>2. /\ l \in Seq(A) /\ Len(l) = Len(a) - g + 1
          /\ \A p \in 1 .. Len(a) - g + 1 : l[p] = a[p + g - 1]
      BY <2>4, <3>1, SubRow DEF l
    <3> QED
      BY <1>0, <2>5, <3>2
  <2>8. m \in Seq(A) /\ Len(m) = 1 /\ m[1] = r[f]
    BY <1>0 DEF m
  <2>9. /\ o \in Seq(A) /\ Len(o) = Len(h) + Len(m)
        /\ \A p \in 1 .. Len(h) : o[p] = h[p]
        /\ \A p \in Len(h) + 1 .. Len(h) + Len(m) : o[p] = m[p - Len(h)]
    BY <2>6, <2>8, JoinedAt DEF o
  <2>10. /\ b \in Seq(A) /\ Len(b) = Len(o) + Len(l)
         /\ \A p \in 1 .. Len(o) : b[p] = o[p]
         /\ \A p \in Len(o) + 1 .. Len(o) + Len(l) : b[p] = l[p - Len(o)]
    <3>1. o \in Seq(A) /\ l \in Seq(A)
      BY <2>7, <2>9
    <3> QED
      BY <3>1, JoinedAt DEF b
  <2>11. ASSUME NEW p \in 1 .. Len(r) - 1 PROVE a[p] = IF p < f THEN r[p] ELSE r[p + 1]
    <3>1. CASE p < f
      <4>1. p \in 1 .. f - 1
        BY <1>0, <3>1
      <4> QED
        BY <2>2, <2>4, <3>1, <4>1
    <3>2. CASE ~ (p < f)
      <4>1. p \in (f - 1) + 1 .. (f - 1) + (Len(r) - f) /\ p - (f - 1) \in 1 .. Len(r) - f
            /\ (p - (f - 1)) + f = p + 1
        BY <1>0, <3>2
      <4>2. a[p] = d[p - (f - 1)]
        BY <2>2, <2>3, <2>4, <4>1
      <4>3. d[p - (f - 1)] = r[(p - (f - 1)) + f]
        BY <2>3, <4>1
      <4> QED
        BY <3>2, <4>1, <4>2, <4>3
    <3> QED
      BY <3>1, <3>2
  <2>12. Len(o) = g
    BY <1>0, <2>6, <2>8, <2>9
  <2>13. Len(b) = Len(r)
    BY <1>0, <2>7, <2>10, <2>12
  <2>14. /\ \A p \in 1 .. g - 1 : b[p] = a[p]
         /\ b[g] = r[f]
         /\ \A p \in g + 1 .. Len(r) : b[p] = l[p - g]
    <3>1. ASSUME NEW p \in 1 .. g - 1 PROVE b[p] = a[p]
      BY <1>0, <2>6, <2>9, <2>10, <2>12
    <3>2. b[g] = r[f]
      <4>1. g \in 1 .. Len(o) /\ g \in Len(h) + 1 .. Len(h) + Len(m) /\ g - Len(h) = 1
        BY <1>0, <2>6, <2>8, <2>12
      <4> QED
        BY <2>8, <2>9, <2>10, <4>1
    <3>3. ASSUME NEW p \in g + 1 .. Len(r) PROVE b[p] = l[p - g]
      BY <1>0, <2>7, <2>10, <2>12
    <3> QED
      BY <3>1, <3>2, <3>3
  <2>15. ASSUME NEW p \in 1 .. Len(r)
         PROVE  From(f, g, p) \in 1 .. Len(r) /\ b[p] = r[From(f, g, p)]
    <3>1. CASE p < g
      <4>1. p \in 1 .. g - 1 /\ p \in 1 .. Len(r) - 1 /\ b[p] = a[p]
        BY <1>0, <2>14, <3>1
      <4>2. b[p] = IF p < f THEN r[p] ELSE r[p + 1]
        BY <2>11, <4>1
      <4> QED
        BY <1>0, <3>1, <4>2 DEF From
    <3>2. CASE p = g
      BY <1>0, <2>14, <3>2 DEF From
    <3>3. CASE p > g
      <4>1. p \in g + 1 .. Len(r) /\ p - g \in 1 .. Len(r) - g /\ (p - g) + g - 1 = p - 1
        BY <1>0, <3>3
      <4>2. b[p] = a[p - 1]
        BY <2>7, <2>14, <4>1
      <4>3. p - 1 \in 1 .. Len(r) - 1 /\ ~ (p - 1 < f) /\ (p - 1) + 1 = p
        BY <1>0, <3>3
      <4>4. a[p - 1] = r[p]
        BY <2>11, <4>3
      <4> QED
        BY <1>0, <3>3, <4>2, <4>4 DEF From
    <3> QED
      BY <1>0, <3>1, <3>2, <3>3
  <2> QED
    BY <2>1, <2>10, <2>13, <2>15 DEF MovesTo
<1> QED
  BY <1>1, <1>2

(* It changes no more than the order.                                       *)
LEMMA MovePermutes ==
  ASSUME NEW A, NEW r \in Seq(A), NEW q \in Seq(A), NEW f \in 1 .. Len(r), NEW g \in f .. Len(r),
         Len(q) = Len(r),
         \A p \in 1 .. Len(r) : From(f, g, p) \in 1 .. Len(r) /\ q[p] = r[From(f, g, p)]
  PROVE  ToSet(q) = ToSet(r) /\ (IsInjective(r) => IsInjective(q))
<1>0. /\ Len(r) \in Nat /\ f \in Nat /\ g \in Nat /\ f <= g /\ g <= Len(r) /\ 1 <= f
      /\ DOMAIN r = 1 .. Len(r) /\ DOMAIN q = 1 .. Len(r)
  OBVIOUS
<1>1. ASSUME NEW x \in ToSet(q) PROVE x \in ToSet(r)
  <2>1. PICK p \in 1 .. Len(r) : q[p] = x
    BY <1>0 DEF ToSet
  <2> QED
    BY <1>0, <2>1 DEF ToSet
<1>2. ASSUME NEW x \in ToSet(r) PROVE x \in ToSet(q)
  <2>1. PICK i \in 1 .. Len(r) : r[i] = x
    BY <1>0 DEF ToSet
  <2>2. PICK p \in 1 .. Len(r) : From(f, g, p) = i
    <3>1. CASE i < f \/ i > g
      <4>1. From(f, g, i) = i
        BY <1>0, <3>1 DEF From
      <4> QED
        BY <4>1
    <3>2. CASE i = f
      <4>1. g \in 1 .. Len(r) /\ From(f, g, g) = i
        BY <1>0, <3>2 DEF From
      <4> QED
        BY <4>1
    <3>3. CASE i > f /\ i <= g
      <4>1. i - 1 \in 1 .. Len(r) /\ From(f, g, i - 1) = i
        BY <1>0, <3>3 DEF From
      <4> QED
        BY <4>1
    <3> QED
      BY <1>0, <3>1, <3>2, <3>3
  <2>3. q[p] = x
    BY <2>1, <2>2
  <2> QED
    BY <1>0, <2>3 DEF ToSet
<1>3. ASSUME IsInjective(r), NEW i \in 1 .. Len(r), NEW j \in 1 .. Len(r), q[i] = q[j]
      PROVE  i = j
  <2>1. r[From(f, g, i)] = r[From(f, g, j)] /\ From(f, g, i) \in 1 .. Len(r) /\ From(f, g, j) \in 1 .. Len(r)
    BY <1>3
  <2>2. From(f, g, i) = From(f, g, j)
    BY <1>0, <1>3, <2>1 DEF IsInjective
  <2> QED
    BY <1>0, <2>2 DEF From
<1>4. ASSUME IsInjective(r) PROVE IsInjective(q)
  BY <1>0, <1>3, <1>4 DEF IsInjective
<1> QED
  BY <1>1, <1>2, <1>4

LEMMA HalfwayStarts ==
  ASSUME NEW A, NEW s \in Seq(A), NEW t \in Seq(A), IsInjective(s)
  PROVE  Halfway(s, t, 0, s)
<1>0. Len(s) \in Nat /\ Len(t) \in Nat /\ DOMAIN s = 1 .. Len(s)
  OBVIOUS
<1>1. Len(t) - 0 + 1 .. Len(t) = {}
  BY <1>0
<1>2. Top(t, 0) = {} /\ \A x : Under(s, t, 0, x) = {}
  BY <1>1 DEF Top, Under
<1>3. Cardinality({}) = 0
  BY FS_EmptySet
<1>4. ASSUME NEW p \in 1 .. Len(s) PROVE Model!IndexIn(s, s[p]) = p
  <2>1. s[p] \in ToSet(s)
    BY <1>0 DEF ToSet
  <2>2. Model!IndexIn(s, s[p]) \in 1 .. Len(s) /\ s[Model!IndexIn(s, s[p])] = s[p]
    BY <1>0, <2>1, IndexIs
  <2> QED
    BY <1>0, <2>2 DEF IsInjective
<1>5. \A p \in 1 .. Len(s) - 0 : p \in 1 .. Len(s) /\ p = p - 0
  BY <1>0
<1>6. \A p \in 1 .. Len(s) - 0 :
        s[p] \notin Top(t, 0) /\ p = Model!IndexIn(s, s[p]) - Cardinality(Under(s, t, 0, s[p]))
  BY <1>2, <1>3, <1>4, <1>5
<1>7. \A p, q \in 1 .. Len(s) - 0 : p < q => Model!IndexIn(s, s[p]) < Model!IndexIn(s, s[q])
  BY <1>4, <1>5
<1> QED
  BY <1>0, <1>1, <1>2, <1>6, <1>7 DEF Halfway

(* One more row moves.                                                      *)
LEMMA HalfwayGoesOn ==
  ASSUME NEW A, NEW s \in Seq(A), NEW t \in Seq(A), IsInjective(s), IsInjective(t),
         ToSet(t) \subseteq ToSet(s), NEW k \in 0 .. Len(t) - 1, NEW r \in Seq(A),
         Halfway(s, t, k, r)
  PROVE  /\ Model!MoveRow(r, Model!MoveOf(s, t, Len(t) - k)) \in Seq(A)
         /\ Halfway(s, t, k + 1, Model!MoveRow(r, Model!MoveOf(s, t, Len(t) - k)))
<1> DEFINE n == Len(s)
           m == Len(t)
           w == t[m - k]
           X(x) == Model!IndexIn(s, x)
<1>0. /\ n \in Nat /\ m \in Nat /\ DOMAIN s = 1 .. n /\ DOMAIN t = 1 .. m
      /\ k \in Nat /\ k + 1 <= m /\ m - k \in 1 .. m
  OBVIOUS
<1>1. /\ k <= n /\ Len(r) = n /\ IsInjective(r) /\ ToSet(r) = ToSet(s) /\ DOMAIN r = 1 .. n
      /\ \A p \in 1 .. n - k :
           r[p] \notin Top(t, k) /\ p = X(r[p]) - Cardinality(Under(s, t, k, r[p]))
      /\ \A i \in m - k + 1 .. m : r[n - m + i] = t[i]
      /\ \A p, q \in 1 .. n - k : p < q => X(r[p]) < X(r[q])
  BY DEF Halfway
<1>a. w \in ToSet(t) /\ w = t[m - k]
  BY <1>0 DEF ToSet
<1>b. \A x : Under(s, t, k, x) = { j \in m - k + 1 .. m : X(t[j]) < X(x) }
  BY DEF Under
<1>c. \A x : Under(s, t, k + 1, x) = { j \in m - (k + 1) + 1 .. m : X(t[j]) < X(x) }
  BY DEF Under
<1>d. Top(t, k) = { t[i] : i \in m - k + 1 .. m } /\ Top(t, k + 1) = { t[i] : i \in m - (k + 1) + 1 .. m }
  BY DEF Top
<1>e. n = Len(s)
  OBVIOUS
<1>f. \A x : X(x) = Model!IndexIn(s, x)
  OBVIOUS
<1>g. Model!MoveOf(s, t, m - k) = << X(w) - Cardinality({ j \in (m - k) + 1 .. m : X(t[j]) < X(w) }), n - m + (m - k) >>
  BY SameCardinality DEF Model!MoveOf
<1> HIDE DEF n, m, w, X
<1>2. ASSUME NEW x PROVE X(x) \in Nat /\ IsFiniteSet(Under(s, t, k, x)) /\ Cardinality(Under(s, t, k, x)) \in Nat
  <2>1. X(x) \in Nat
    BY <1>0, <1>e, <1>f, IndexIs
  <2>2. IsFiniteSet(m - k + 1 .. m)
    BY <1>0, FS_Interval
  <2>3. Under(s, t, k, x) \subseteq m - k + 1 .. m
    BY <1>b
  <2>4. IsFiniteSet(Under(s, t, k, x))
    BY <2>2, <2>3, FS_Subset
  <2> QED
    BY <2>1, <2>4, FS_CardinalityType
<1>3. w \in ToSet(r)
  BY <1>1, <1>a
<1>4. PICK f \in 1 .. n : r[f] = w
  BY <1>1, <1>3 DEF ToSet
<1>5. f \in 1 .. n - k
  <2>1. SUFFICES ASSUME f > n - k PROVE FALSE
    BY <1>0, <1>1, <1>4
  <2>2. f - n + m \in Int
    BY <1>0, <1>4
  <2>i. PICK i \in Int : i = f - n + m
    BY <2>2
  <2>3. i \in m - k + 1 .. m /\ n - m + i = f
    BY <1>0, <1>4, <2>1, <2>i
  <2>4. t[i] = t[m - k]
    BY <1>1, <1>4, <1>a, <2>3
  <2>5. i \in 1 .. m /\ i # m - k
    BY <1>0, <2>3
  <2> QED
    BY <1>0, <2>4, <2>5 DEF IsInjective
<1>6. k + 1 <= n /\ n - k \in 1 .. n /\ n - k \in f .. n
  BY <1>0, <1>1, <1>5
<1>7. Model!MoveOf(s, t, m - k) = << f, n - k >>
  <2>1. { j \in (m - k) + 1 .. m : X(t[j]) < X(w) } = Under(s, t, k, w)
    BY <1>b
  <2>2. f = X(w) - Cardinality(Under(s, t, k, w))
    BY <1>1, <1>4, <1>5
  <2>3. n - m + (m - k) = n - k
    BY <1>0
  <2> QED
    BY <1>g, <2>1, <2>2, <2>3
<1>8. PICK q : q = Model!MoveRow(r, << f, n - k >>)
  OBVIOUS
<1>9. /\ q \in Seq(A) /\ Len(q) = n
      /\ \A p \in 1 .. n : From(f, n - k, p) \in 1 .. n /\ q[p] = r[From(f, n - k, p)]
  <2>1. f \in 1 .. Len(r) /\ n - k \in f .. Len(r)
    BY <1>1, <1>6
  <2>2. PICK g \in f .. Len(r) : g = n - k
    BY <2>1
  <2>3. MovesTo(A, r, f, g, Model!MoveRow(r, << f, g >>))
    <3>1. f \in 1 .. Len(r) /\ g \in f .. Len(r)
      BY <2>1, <2>2
    <3> QED
      BY <3>1, RowMoves
  <2>4. q = Model!MoveRow(r, << f, g >>)
    BY <1>8, <2>2
  <2>5. /\ q \in Seq(A) /\ Len(q) = Len(r)
        /\ \A p \in 1 .. Len(r) : From(f, g, p) \in 1 .. Len(r) /\ q[p] = r[From(f, g, p)]
    BY <2>3, <2>4 DEF MovesTo
  <2> QED
    BY <1>1, <2>2, <2>5
<1>10. ToSet(q) = ToSet(r) /\ IsInjective(q)
  <2>1. f \in 1 .. Len(r) /\ n - k \in f .. Len(r)
    BY <1>1, <1>6
  <2> QED
    BY <1>1, <1>9, <2>1, MovePermutes
<1>11. ASSUME NEW x PROVE Under(s, t, k + 1, x) = IF X(w) < X(x) THEN Under(s, t, k, x) \cup { m - k } ELSE Under(s, t, k, x)
  <2>1. m - (k + 1) + 1 = m - k
    BY <1>0
  <2>2. \A j : j \in m - k .. m <=> (j \in m - k + 1 .. m \/ j = m - k)
    BY <1>0
  <2> QED
    BY <1>a, <1>b, <1>c, <2>1, <2>2
<1>12. ASSUME NEW x
       PROVE  Cardinality(Under(s, t, k + 1, x))
                = IF X(w) < X(x) THEN Cardinality(Under(s, t, k, x)) + 1
                  ELSE Cardinality(Under(s, t, k, x))
  <2>1. m - k \notin Under(s, t, k, x)
    BY <1>0, <1>b
  <2>2. Cardinality(Under(s, t, k, x) \cup { m - k }) = Cardinality(Under(s, t, k, x)) + 1
    BY <1>2, <2>1, FS_AddElement
  <2> QED
    BY <1>11, <2>2
<1>13. \A x : x \in Top(t, k + 1) <=> x \in Top(t, k) \/ x = w
  <2>1. m - (k + 1) + 1 = m - k
    BY <1>0
  <2>2. \A j : j \in m - k .. m <=> (j \in m - k + 1 .. m \/ j = m - k)
    BY <1>0
  <2> QED
    BY <1>a, <1>d, <2>1, <2>2
(* Where the rows that are not yet moved were.                              *)
<1>14. ASSUME NEW p \in 1 .. n - (k + 1)
       PROVE  \E o \in 1 .. n - k :
                /\ q[p] = r[o] /\ r[o] # w
                /\ \/ p < f /\ o = p /\ X(r[o]) < X(w)
                   \/ ~ (p < f) /\ o = p + 1 /\ X(w) < X(r[o])
  <2>1. CASE p < f
    <3>1. p \in 1 .. n - k /\ From(f, n - k, p) = p /\ p \in 1 .. n
      BY <1>0, <1>1, <2>1 DEF From
    <3>2. X(r[p]) < X(r[f])
      BY <1>1, <1>5, <2>1, <3>1
    <3>3. r[p] # w
      BY <1>2, <1>4, <3>2
    <3> QED
      BY <1>4, <1>9, <2>1, <3>1, <3>2, <3>3
  <2>2. CASE ~ (p < f)
    <3>1. p + 1 \in 1 .. n - k /\ From(f, n - k, p) = p + 1 /\ p \in 1 .. n /\ f < p + 1
      BY <1>0, <1>1, <2>2 DEF From
    <3>2. X(r[f]) < X(r[p + 1])
      BY <1>1, <1>5, <3>1
    <3>3. r[p + 1] # w
      BY <1>2, <1>4, <3>2
    <3> QED
      BY <1>4, <1>9, <2>2, <3>1, <3>2, <3>3
  <2> QED
    BY <2>1, <2>2
<1>15. ASSUME NEW p \in 1 .. n - (k + 1)
       PROVE  q[p] \notin Top(t, k + 1) /\ p = X(q[p]) - Cardinality(Under(s, t, k + 1, q[p]))
  <2>1. PICK o \in 1 .. n - k :
                /\ q[p] = r[o] /\ r[o] # w
                /\ \/ p < f /\ o = p /\ X(r[o]) < X(w)
                   \/ ~ (p < f) /\ o = p + 1 /\ X(w) < X(r[o])
    BY <1>14
  <2>2. r[o] \notin Top(t, k) /\ o = X(r[o]) - Cardinality(Under(s, t, k, r[o]))
    BY <1>1
  <2>3. q[p] \notin Top(t, k + 1)
    BY <1>13, <2>1, <2>2
  <2>4. p = X(r[o]) - Cardinality(Under(s, t, k + 1, r[o]))
    <3>1. /\ X(r[o]) \in Nat /\ X(w) \in Nat /\ Cardinality(Under(s, t, k, r[o])) \in Nat
          /\ p \in Nat /\ o \in Nat
      BY <1>2
    <3>2. Cardinality(Under(s, t, k + 1, r[o])) = IF X(w) < X(r[o]) THEN Cardinality(Under(s, t, k, r[o])) + 1
                  ELSE Cardinality(Under(s, t, k, r[o]))
      BY <1>12
    <3> QED
      BY <2>1, <2>2, <3>1, <3>2
  <2> QED
    BY <2>1, <2>3, <2>4
<1>16. ASSUME NEW i \in m - (k + 1) + 1 .. m PROVE q[n - m + i] = t[i]
  <2>1. CASE i = m - k
    <3>1. n - m + i = n - k /\ n - k \in 1 .. n /\ From(f, n - k, n - k) = f
      BY <1>0, <1>5, <1>6, <2>1 DEF From
    <3> QED
      BY <1>4, <1>9, <1>a, <2>1, <3>1
  <2>2. CASE i # m - k
    <3>1. /\ i \in m - k + 1 .. m /\ n - m + i \in 1 .. n
          /\ From(f, n - k, n - m + i) = n - m + i
      BY <1>0, <1>5, <1>6, <2>2 DEF From
    <3> QED
      BY <1>1, <1>9, <3>1
  <2> QED
    BY <2>1, <2>2
<1>17. ASSUME NEW p \in 1 .. n - (k + 1), NEW o \in 1 .. n - (k + 1), p < o
       PROVE  X(q[p]) < X(q[o])
  <2>1. PICK a \in 1 .. n - k :
                /\ q[p] = r[a]
                /\ \/ p < f /\ a = p
                   \/ ~ (p < f) /\ a = p + 1
    BY <1>14
  <2>2. PICK b \in 1 .. n - k :
                /\ q[o] = r[b]
                /\ \/ o < f /\ b = o
                   \/ ~ (o < f) /\ b = o + 1
    BY <1>14
  <2>3. a < b
    BY <1>0, <1>17, <2>1, <2>2
  <2> QED
    BY <1>1, <2>1, <2>2, <2>3
<1>18. Halfway(s, t, k + 1, q)
  BY <1>1, <1>6, <1>9, <1>10, <1>15, <1>16, <1>17 DEF Halfway, n, m, X
<1> QED
  BY <1>7, <1>8, <1>9, <1>18 DEF m

(* The rows after each move, one by one.                                    *)
Step(s, t, k, r) == Model!MoveRow(r, Model!MoveOf(s, t, Len(t) + 1 - k))

Moving(A, s, t, n, f) ==
  /\ f \in [ 0 .. n -> Seq(A) ] /\ f[0] = s
  /\ \A k \in 1 .. n : f[k] = Step(s, t, k, f[k - 1])
  /\ \A k \in 0 .. n : Halfway(s, t, k, f[k])

LEMMA MovesOnce ==
  ASSUME NEW A, NEW s \in Seq(A), NEW t \in Seq(A), IsInjective(s), IsInjective(t),
         ToSet(t) \subseteq ToSet(s), NEW n \in 0 .. Len(t) - 1, NEW f, Moving(A, s, t, n, f)
  PROVE  \E g : Moving(A, s, t, n + 1, g)
<1>0. n \in Nat /\ n + 1 \in Nat /\ Len(t) \in Nat /\ Len(t) + 1 - (n + 1) = Len(t) - n
  OBVIOUS
<1>1. /\ f \in [ 0 .. n -> Seq(A) ] /\ f[0] = s
      /\ \A k \in 1 .. n : f[k] = Step(s, t, k, f[k - 1])
      /\ \A k \in 0 .. n : Halfway(s, t, k, f[k])
  BY DEF Moving
<1>2. n \in 0 .. n
  BY <1>0
<1>3. PICK r \in Seq(A) : r = f[n]
  BY <1>1, <1>2
<1>4. Halfway(s, t, n, r)
  BY <1>1, <1>2, <1>3
<1>5. /\ Model!MoveRow(r, Model!MoveOf(s, t, Len(t) - n)) \in Seq(A)
      /\ Halfway(s, t, n + 1, Model!MoveRow(r, Model!MoveOf(s, t, Len(t) - n)))
  BY <1>4, HalfwayGoesOn
<1>6. PICK q : q = Step(s, t, n + 1, r)
  OBVIOUS
<1>7. q \in Seq(A) /\ Halfway(s, t, n + 1, q)
  BY <1>0, <1>5, <1>6 DEF Step
<1> DEFINE g == [ k \in 0 .. n + 1 |-> IF k = n + 1 THEN q ELSE f[k] ]
<1>8. g \in [ 0 .. n + 1 -> Seq(A) ]
  BY <1>0, <1>1, <1>7
<1>9. g[n + 1] = q /\ \A k \in 0 .. n : g[k] = f[k]
  BY <1>0
<1> HIDE DEF g
<1>10. g[0] = s
  BY <1>0, <1>1, <1>9
<1>11. ASSUME NEW k \in 1 .. n + 1 PROVE g[k] = Step(s, t, k, g[k - 1])
  <2>1. CASE k = n + 1
    <3>1. k - 1 = n /\ g[k - 1] = r
      BY <1>0, <1>2, <1>3, <1>9, <2>1
    <3> QED
      BY <1>6, <1>9, <2>1, <3>1
  <2>2. CASE k # n + 1
    <3>1. k \in 1 .. n /\ k \in 0 .. n /\ k - 1 \in 0 .. n
      BY <1>0, <2>2
    <3> QED
      BY <1>1, <1>9, <3>1
  <2> QED
    BY <2>1, <2>2
<1>12. ASSUME NEW k \in 0 .. n + 1 PROVE Halfway(s, t, k, g[k])
  <2>1. CASE k = n + 1
    BY <1>7, <1>9, <2>1
  <2>2. CASE k # n + 1
    <3>1. k \in 0 .. n
      BY <1>0, <2>2
    <3> QED
      BY <1>1, <1>9, <3>1
  <2> QED
    BY <2>1, <2>2
<1> QED
  BY <1>8, <1>10, <1>11, <1>12 DEF Moving

LEMMA MovesAll ==
  ASSUME NEW A, NEW s \in Seq(A), NEW t \in Seq(A), IsInjective(s), IsInjective(t),
         ToSet(t) \subseteq ToSet(s)
  PROVE  \E f : Moving(A, s, t, Len(t), f)
<1>0. Len(t) \in Nat
  OBVIOUS
<1> DEFINE T == { n \in 0 .. Len(t) : \E f : Moving(A, s, t, n, f) }
<1>1. 0 \in T
  <2>0. PICK f : f = [ k \in 0 .. 0 |-> s ]
    OBVIOUS
  <2>1. f \in [ 0 .. 0 -> Seq(A) ] /\ f[0] = s
    BY <2>0
  <2>2. 0 .. 0 = { 0 } /\ 1 .. 0 = {}
    OBVIOUS
  <2>3. Halfway(s, t, 0, s)
    BY HalfwayStarts
  <2>4. Moving(A, s, t, 0, f)
    BY <2>1, <2>2, <2>3 DEF Moving
  <2> QED
    BY <1>0, <2>4
<1>2. ASSUME NEW n \in 0 .. Len(t) - 1, n \in T PROVE n + 1 \in T
  <2>1. PICK f : Moving(A, s, t, n, f)
    BY <1>2
  <2>2. \E g : Moving(A, s, t, n + 1, g)
    BY <2>1, MovesOnce
  <2> QED
    BY <1>0, <2>2
<1> HIDE DEF T
<1>3. \A n \in 0 .. Len(t) : n \in T
  BY <1>0, <1>1, <1>2, UpTo
<1>4. Len(t) \in T
  BY <1>0, <1>3
<1> QED
  BY <1>4 DEF T

LEMMA MovedIsHalfway ==
  ASSUME NEW A, NEW s \in Seq(A), NEW t \in Seq(A), IsInjective(s), IsInjective(t),
         ToSet(t) \subseteq ToSet(s)
  PROVE  Model!Moved(s, t) \in Seq(A) /\ Halfway(s, t, Len(t), Model!Moved(s, t))
<1> DEFINE after == CHOOSE f : f = [ k \in 0 .. Len(t) |->
             IF k = 0 THEN s
             ELSE Model!MoveRow(f[k - 1], Model!MoveOf(s, t, Len(t) + 1 - k)) ]
<1>0. Len(t) \in Nat /\ Len(t) \in 0 .. Len(t)
  OBVIOUS
<1>1. PICK f : Moving(A, s, t, Len(t), f)
  BY MovesAll
<1>2. /\ f \in [ 0 .. Len(t) -> Seq(A) ] /\ f[0] = s
      /\ \A k \in 1 .. Len(t) : f[k] = Step(s, t, k, f[k - 1])
      /\ \A k \in 0 .. Len(t) : Halfway(s, t, k, f[k])
  BY <1>1 DEF Moving
<1>3. f = [ k \in 0 .. Len(t) |->
             IF k = 0 THEN s
             ELSE Model!MoveRow(f[k - 1], Model!MoveOf(s, t, Len(t) + 1 - k)) ]
  BY <1>0, <1>2 DEF Step
<1>4. after = [ k \in 0 .. Len(t) |->
             IF k = 0 THEN s
             ELSE Model!MoveRow(after[k - 1], Model!MoveOf(s, t, Len(t) + 1 - k)) ]
  BY <1>3
<1>5. Model!Moved(s, t) = after[Len(t)]
  BY DEF Model!Moved
<1> HIDE DEF after
<1>6. after[0] = s /\ \A k \in 1 .. Len(t) : after[k] = Step(s, t, k, after[k - 1])
  BY <1>0, <1>4 DEF Step
<1>7. \A k \in 0 .. Len(t) : after[k] = f[k]
  <2> DEFINE T == { k \in 0 .. Len(t) : after[k] = f[k] }
  <2>1. 0 \in T
    BY <1>0, <1>2, <1>6
  <2>2. ASSUME NEW k \in 0 .. Len(t) - 1, k \in T PROVE k + 1 \in T
    <3>1. k + 1 \in 1 .. Len(t) /\ (k + 1) - 1 = k /\ k + 1 \in 0 .. Len(t)
      BY <1>0
    <3>2. after[k + 1] = Step(s, t, k + 1, after[k]) /\ f[k + 1] = Step(s, t, k + 1, f[k])
      BY <1>2, <1>6, <3>1
    <3> QED
      BY <2>2, <3>1, <3>2
  <2> HIDE DEF T
  <2>3. \A k \in 0 .. Len(t) : k \in T
    BY <1>0, <2>1, <2>2, UpTo
  <2> QED
    BY <2>3 DEF T
<1> QED
  BY <1>0, <1>2, <1>5, <1>7

(* What OnTop() does to the elements and their order.                       *)
LEMMA OnTopIs ==
  ASSUME NEW A, NEW s \in Seq(A), NEW t \in Seq(A), IsInjective(s), IsInjective(t)
  PROVE  /\ Model!OnTop(s, t) \in Seq(A) /\ IsInjective(Model!OnTop(s, t))
         /\ ToSet(Model!OnTop(s, t)) = ToSet(s)
         /\ \A x, y : Before(Model!OnTop(s, t), x, y) <=>
              \/ Before(s, x, y) /\ x \notin ToSet(t) /\ y \notin ToSet(t)
              \/ Before(t, x, y) /\ x \in ToSet(s) /\ y \in ToSet(s)
              \/ x \in ToSet(s) \ ToSet(t) /\ y \in ToSet(s) \cap ToSet(t)
<1>1. Model!OnTop(s, t) = Without(s, ToSet(t)) \o Kept(t, ToSet(s))
  BY SameRows DEF Model!OnTop
<1>2. PICK a : a = Without(s, ToSet(t))
  OBVIOUS
<1>3. PICK b : b = Kept(t, ToSet(s))
  OBVIOUS
<1>4. /\ a \in Seq(A) /\ ToSet(a) = ToSet(s) \ ToSet(t) /\ IsInjective(a)
      /\ \A x, y : Before(a, x, y) <=> (Before(s, x, y) /\ x \notin ToSet(t) /\ y \notin ToSet(t))
  BY <1>2, Without_
<1>5. /\ b \in Seq(A) /\ ToSet(b) = ToSet(t) \cap ToSet(s) /\ IsInjective(b)
      /\ \A x, y : Before(b, x, y) <=> (Before(t, x, y) /\ x \in ToSet(s) /\ y \in ToSet(s))
  BY <1>3, KeptRow
<1>6. /\ a \o b \in Seq(A)
      /\ ToSet(a \o b) = ToSet(a) \cup ToSet(b)
      /\ IsInjective(a) /\ IsInjective(b) /\ ToSet(a) \cap ToSet(b) = {} => IsInjective(a \o b)
      /\ \A x, y : Before(a \o b, x, y) <=>
           (Before(a, x, y) \/ Before(b, x, y) \/ (x \in ToSet(a) /\ y \in ToSet(b)))
  BY <1>4, <1>5, Joined
<1>7. PICK u : u = a \o b
  OBVIOUS
<1>8. Model!OnTop(s, t) = u
  BY <1>1, <1>2, <1>3, <1>7
<1>9. u \in Seq(A) /\ IsInjective(u) /\ ToSet(u) = ToSet(s)
  BY <1>4, <1>5, <1>6, <1>7
<1>10. ASSUME NEW x, NEW y
       PROVE  Before(u, x, y) <=>
              \/ Before(s, x, y) /\ x \notin ToSet(t) /\ y \notin ToSet(t)
              \/ Before(t, x, y) /\ x \in ToSet(s) /\ y \in ToSet(s)
              \/ x \in ToSet(s) \ ToSet(t) /\ y \in ToSet(s) \cap ToSet(t)
  <2>1. Before(u, x, y) <=> (Before(a, x, y) \/ Before(b, x, y) \/ (x \in ToSet(a) /\ y \in ToSet(b)))
    BY <1>6, <1>7
  <2> QED
    BY <1>4, <1>5, <2>1
<1> QED
  BY <1>8, <1>9, <1>10

(* The moves are a raise.                                                   *)
LEMMA MovedIsOnTop ==
  ASSUME NEW A, NEW s \in Seq(A), NEW t \in Seq(A), IsInjective(s), IsInjective(t),
         ToSet(t) \subseteq ToSet(s)
  PROVE  Model!Moved(s, t) = Model!OnTop(s, t) /\ Len(t) <= Len(s)
<1>1. PICK r : r = Model!Moved(s, t)
  OBVIOUS
<1>2. r \in Seq(A) /\ Halfway(s, t, Len(t), r)
  BY <1>1, MovedIsHalfway
<1>0. /\ Len(s) \in Nat /\ Len(t) \in Nat /\ DOMAIN s = 1 .. Len(s) /\ DOMAIN t = 1 .. Len(t)
      /\ Len(t) - Len(t) + 1 = 1
  OBVIOUS
<1>3. /\ Len(t) <= Len(s) /\ Len(r) = Len(s) /\ IsInjective(r) /\ ToSet(r) = ToSet(s)
      /\ DOMAIN r = 1 .. Len(s)
  BY <1>2 DEF Halfway
<1>4. Top(t, Len(t)) = ToSet(t)
  BY <1>0 DEF Top, ToSet
<1>5. /\ \A p \in 1 .. Len(s) - Len(t) : r[p] \notin ToSet(t)
      /\ \A i \in 1 .. Len(t) : r[Len(s) - Len(t) + i] = t[i]
      /\ \A p, q \in 1 .. Len(s) - Len(t) : p < q => Model!IndexIn(s, r[p]) < Model!IndexIn(s, r[q])
  BY <1>0, <1>2, <1>4 DEF Halfway
<1>6. PICK u : u = Model!OnTop(s, t)
  OBVIOUS
<1>7. /\ u \in Seq(A) /\ IsInjective(u) /\ ToSet(u) = ToSet(s)
      /\ \A x, y : Before(u, x, y) <=>
              \/ Before(s, x, y) /\ x \notin ToSet(t) /\ y \notin ToSet(t)
              \/ Before(t, x, y) /\ x \in ToSet(s) /\ y \in ToSet(s)
              \/ x \in ToSet(s) \ ToSet(t) /\ y \in ToSet(s) \cap ToSet(t)
  BY <1>6, OnTopIs
<1>8. ASSUME NEW p \in 1 .. Len(s), ~ (p \in 1 .. Len(s) - Len(t))
      PROVE  \E i \in 1 .. Len(t) : r[p] = t[i] /\ p = Len(s) - Len(t) + i
  <2>1. p - (Len(s) - Len(t)) \in 1 .. Len(t) /\ p = Len(s) - Len(t) + (p - (Len(s) - Len(t)))
    BY <1>0, <1>3, <1>8
  <2> QED
    BY <1>5, <2>1
<1>9. ASSUME NEW x, NEW y, Before(r, x, y) PROVE Before(u, x, y)
  <2>1. PICK p \in 1 .. Len(s), q \in 1 .. Len(s) : p < q /\ r[p] = x /\ r[q] = y
    BY <1>3, <1>9 DEF Before
  <2>2. x \in ToSet(s) /\ y \in ToSet(s)
    BY <1>3, <2>1 DEF ToSet
  <2>3. CASE p \in 1 .. Len(s) - Len(t) /\ q \in 1 .. Len(s) - Len(t)
    <3>1. x \notin ToSet(t) /\ y \notin ToSet(t) /\ Model!IndexIn(s, x) < Model!IndexIn(s, y)
      BY <1>5, <2>1, <2>3
    <3>2. /\ Model!IndexIn(s, x) \in 1 .. Len(s) /\ s[Model!IndexIn(s, x)] = x
          /\ Model!IndexIn(s, y) \in 1 .. Len(s) /\ s[Model!IndexIn(s, y)] = y
      BY <1>0, <2>2, IndexIs
    <3>3. Before(s, x, y)
      BY <1>0, <3>1, <3>2 DEF Before
    <3> QED
      BY <1>7, <3>1, <3>3
  <2>4. CASE p \in 1 .. Len(s) - Len(t) /\ ~ (q \in 1 .. Len(s) - Len(t))
    <3>1. x \notin ToSet(t)
      BY <1>5, <2>1, <2>4
    <3>2. y \in ToSet(t)
      BY <1>0, <1>8, <2>1, <2>4 DEF ToSet
    <3> QED
      BY <1>7, <2>2, <3>1, <3>2
  <2>5. CASE ~ (p \in 1 .. Len(s) - Len(t))
    <3>1. ~ (q \in 1 .. Len(s) - Len(t))
      BY <1>0, <1>3, <2>1, <2>5
    <3>2. PICK i \in 1 .. Len(t) : r[p] = t[i] /\ p = Len(s) - Len(t) + i
      BY <1>8, <2>5
    <3>3. PICK j \in 1 .. Len(t) : r[q] = t[j] /\ q = Len(s) - Len(t) + j
      BY <1>8, <3>1
    <3>4. i < j
      BY <1>0, <2>1, <3>2, <3>3
    <3>5. Before(t, x, y)
      BY <1>0, <2>1, <3>2, <3>3, <3>4 DEF Before
    <3> QED
      BY <1>7, <2>2, <3>5
  <2> QED
    BY <2>3, <2>4, <2>5
<1>10. r = u
  BY <1>2, <1>3, <1>7, <1>9, SameOrder
<1> QED
  BY <1>1, <1>3, <1>6, <1>10

(* A row that is removed.                                                   *)
LEMMA RowRemoved ==
  ASSUME NEW A, NEW s \in Seq(A), IsInjective(s), NEW w \in ToSet(s)
  PROVE  Model!RemoveAt(s, Model!IndexIn(s, w)) = Without(s, { w })
<1>0. Len(s) \in Nat /\ DOMAIN s = 1 .. Len(s)
  OBVIOUS
<1>1. PICK i \in 1 .. Len(s) : i = Model!IndexIn(s, w) /\ s[i] = w
  BY <1>0, IndexIs
<1> DEFINE c == SubSeq(s, 1, i - 1)
           d == SubSeq(s, i + 1, Len(s))
           a == c \o d
<1>2. Model!RemoveAt(s, i) = a
  BY DEF Model!RemoveAt
<1> HIDE DEF a, c, d
<1>3. /\ c \in Seq(A) /\ Len(c) = i - 1
      /\ \A p \in 1 .. i - 1 : c[p] = s[p]
  <2>1. 1 \in 1 .. Len(s) + 1 /\ i - 1 \in 1 - 1 .. Len(s)
    BY <1>0, <1>1
  <2>2. /\ c \in Seq(A) /\ Len(c) = (i - 1) - 1 + 1
        /\ \A p \in 1 .. (i - 1) - 1 + 1 : c[p] = s[p + 1 - 1]
    BY <2>1, SubRow DEF c
  <2> QED
    BY <1>0, <1>1, <2>2
<1>4. /\ d \in Seq(A) /\ Len(d) = Len(s) - i
      /\ \A p \in 1 .. Len(s) - i : d[p] = s[p + i]
  <2>1. i + 1 \in 1 .. Len(s) + 1 /\ Len(s) \in (i + 1) - 1 .. Len(s)
    BY <1>0, <1>1
  <2>2. /\ d \in Seq(A) /\ Len(d) = Len(s) - (i + 1) + 1
        /\ \A p \in 1 .. Len(s) - (i + 1) + 1 : d[p] = s[p + (i + 1) - 1]
    BY <2>1, SubRow DEF d
  <2>3. Len(s) - (i + 1) + 1 = Len(s) - i /\ \A p \in Int : p + (i + 1) - 1 = p + i
    BY <1>0, <1>1
  <2>4. \A p \in 1 .. Len(s) - i : p \in Int
    OBVIOUS
  <2> QED
    BY <2>2, <2>3, <2>4
<1>5. /\ a \in Seq(A)
      /\ ToSet(a) = ToSet(c) \cup ToSet(d)
      /\ IsInjective(c) /\ IsInjective(d) /\ ToSet(c) \cap ToSet(d) = {} => IsInjective(a)
      /\ \A x, y : Before(a, x, y) <=>
           (Before(c, x, y) \/ Before(d, x, y) \/ (x \in ToSet(c) /\ y \in ToSet(d)))
  BY <1>3, <1>4, Joined DEF a
<1>6. DOMAIN c = 1 .. i - 1 /\ DOMAIN d = 1 .. Len(s) - i
  BY <1>0, <1>3, <1>4
<1>7. ASSUME NEW p \in DOMAIN c PROVE p \in 1 .. Len(s) /\ p < i /\ c[p] = s[p]
  BY <1>0, <1>3, <1>6
<1>8. ASSUME NEW p \in DOMAIN d PROVE p + i \in 1 .. Len(s) /\ p + i > i /\ d[p] = s[p + i] /\ p \in Nat
  BY <1>0, <1>4, <1>6
<1>9. ASSUME NEW x PROVE x \in ToSet(c) <=> \E p \in 1 .. i - 1 : s[p] = x
  BY <1>3, <1>6 DEF ToSet
<1>10. ASSUME NEW x PROVE x \in ToSet(d) <=> \E p \in 1 .. Len(s) : p > i /\ s[p] = x
  <2>1. ASSUME x \in ToSet(d) PROVE \E p \in 1 .. Len(s) : p > i /\ s[p] = x
    <3>1. PICK p \in DOMAIN d : d[p] = x
      BY <2>1 DEF ToSet
    <3> QED
      BY <1>8, <3>1
  <2>2. ASSUME NEW p \in 1 .. Len(s), p > i, s[p] = x PROVE x \in ToSet(d)
    <3>1. p - i \in DOMAIN d /\ (p - i) + i = p
      BY <1>0, <1>6, <2>2
    <3>2. d[p - i] = x
      BY <1>8, <2>2, <3>1
    <3> QED
      BY <3>1, <3>2 DEF ToSet
  <2> QED
    BY <2>1, <2>2
<1>11. ToSet(a) = ToSet(s) \ { w }
  <2>1. ASSUME NEW x \in ToSet(s), x # w PROVE x \in ToSet(a)
    <3>1. PICK p \in 1 .. Len(s) : s[p] = x
      BY <1>0 DEF ToSet
    <3>2. p \in 1 .. i - 1 \/ p > i
      BY <1>0, <1>1, <2>1, <3>1
    <3> QED
      BY <1>5, <1>9, <1>10, <3>1, <3>2
  <2>2. ASSUME NEW x \in ToSet(a) PROVE x \in ToSet(s) /\ x # w
    <3>1. PICK p \in 1 .. Len(s) : p # i /\ s[p] = x
      BY <1>0, <1>5, <1>9, <1>10, <2>2
    <3> QED
      BY <1>0, <1>1, <3>1 DEF ToSet, IsInjective
  <2> QED
    BY <2>1, <2>2
<1>12. IsInjective(a)
  <2>1. IsInjective(c)
    BY <1>0, <1>7 DEF IsInjective
  <2>2. IsInjective(d)
    <3> SUFFICES ASSUME NEW p \in DOMAIN d, NEW q \in DOMAIN d, d[p] = d[q] PROVE p = q
      BY DEF IsInjective
    <3>1. p + i = q + i
      BY <1>0, <1>8 DEF IsInjective
    <3> QED
      BY <1>8, <3>1
  <2>3. ToSet(c) \cap ToSet(d) = {}
    <3> SUFFICES ASSUME NEW x \in ToSet(c), x \in ToSet(d) PROVE FALSE
      OBVIOUS
    <3>1. PICK p \in 1 .. i - 1 : s[p] = x
      BY <1>9
    <3>2. PICK q \in 1 .. Len(s) : q > i /\ s[q] = x
      BY <1>10
    <3> QED
      BY <1>0, <3>1, <3>2 DEF IsInjective
  <2> QED
    BY <1>5, <2>1, <2>2, <2>3
<1>13. ASSUME NEW x, NEW y, Before(a, x, y) PROVE Before(s, x, y)
  <2>1. CASE Before(c, x, y)
    <3>1. PICK p \in DOMAIN c, q \in DOMAIN c : p < q /\ c[p] = x /\ c[q] = y
      BY <2>1 DEF Before
    <3> QED
      BY <1>0, <1>7, <3>1 DEF Before
  <2>2. CASE Before(d, x, y)
    <3>1. PICK p \in DOMAIN d, q \in DOMAIN d : p < q /\ d[p] = x /\ d[q] = y
      BY <2>2 DEF Before
    <3>2. p + i < q + i
      BY <1>8, <3>1
    <3> QED
      BY <1>0, <1>8, <3>1, <3>2 DEF Before
  <2>3. CASE x \in ToSet(c) /\ y \in ToSet(d)
    <3>1. PICK p \in 1 .. i - 1 : s[p] = x
      BY <1>9, <2>3
    <3>2. PICK q \in 1 .. Len(s) : q > i /\ s[q] = y
      BY <1>10, <2>3
    <3>3. p < q /\ p \in 1 .. Len(s)
      BY <1>0, <3>1, <3>2
    <3> QED
      BY <1>0, <3>1, <3>2, <3>3 DEF Before
  <2> QED
    BY <1>5, <1>13, <2>1, <2>2, <2>3
<1>14. PICK b : b = Without(s, { w })
  OBVIOUS
<1>15. /\ b \in Seq(A) /\ ToSet(b) = ToSet(s) \ { w } /\ IsInjective(b)
       /\ \A x, y : Before(b, x, y) <=> (Before(s, x, y) /\ x \notin { w } /\ y \notin { w })
  BY <1>14, Without_
<1>16. ASSUME NEW x, NEW y, Before(a, x, y) PROVE Before(b, x, y)
  <2>1. x \in ToSet(a) /\ y \in ToSet(a)
    BY <1>16, BeforeElements
  <2>2. Before(s, x, y)
    BY <1>13, <1>16
  <2> QED
    BY <1>11, <1>15, <2>1, <2>2
<1>17. a = b
  BY <1>5, <1>11, <1>12, <1>15, <1>16, SameOrder
<1> QED
  BY <1>1, <1>2, <1>14, <1>17

------------------------------------------------------------------------------
(* What the notices on their way mean, one after the other.                 *)

SeenViews ==
  [ stack : Seq(Windows), ready : SUBSET Windows, focused : SUBSET Windows,
    state : [ Windows -> Model!States ], inputMethod : InputMethods \cup { NoWindow } ]

(* A notice that says something of what is seen.                            *)
Applies(v, n) ==
  /\ n[1] = "added" /\ n[2] \in Windows => n[2] \notin ToSet(v.stack)
  /\ n[1] = "removed" /\ n[2] \in Windows => n[2] \in ToSet(v.stack)
  /\ n[1] = "raised" => n[2] # << >> /\ ToSet(n[2]) \subseteq ToSet(v.stack)

Hearing(v, q, f) ==
  /\ f \in [ 0 .. Len(q) -> SeenViews ] /\ f[0] = v
  /\ \A i \in 1 .. Len(q) : f[i] = Model!Meant(f[i - 1], q[i]) /\ Applies(f[i - 1], q[i])

Reaches(v, q, u) == \E f : Hearing(v, q, f) /\ f[Len(q)] = u

LEMMA MeantTyped ==
  ASSUME Model!WindowsAssumption, NEW v \in SeenViews, NEW n \in Model!Notices
  PROVE  Model!Meant(v, n) \in SeenViews
<1>1. /\ v.stack \in Seq(Windows) /\ v.ready \subseteq Windows /\ v.focused \subseteq Windows
      /\ v.state \in [ Windows -> Model!States ] /\ v.inputMethod \in InputMethods \cup { NoWindow }
  BY DEF SeenViews
<1>2. "Restored" \in Model!States
  BY DEF Model!States
<1>3. CASE n \in { "added", "removed", "ready" } \X (Windows \cup InputMethods)
  <2>1. PICK k \in { "added", "removed", "ready" }, w \in Windows \cup InputMethods : n = << k, w >>
    BY <1>3
  <2>2. Without(v.stack, { w }) \in Seq(Windows)
    BY <1>1, Without_
  <2>3. CASE k = "added" /\ w \in Windows
    <3>1. Append(v.stack, w) \in Seq(Windows)
      BY <1>1, <2>3
    <3> QED
      BY <1>1, <1>2, <2>1, <2>3, <3>1 DEF Model!Meant, SeenViews
  <2>4. CASE k = "removed" /\ w \in Windows
    BY <1>1, <1>2, <2>1, <2>2, <2>4, SameRows DEF Model!Meant, SeenViews
  <2>5. CASE k = "added" /\ w \in InputMethods /\ w \notin Windows
    BY <1>1, <1>2, <2>1, <2>5 DEF Model!Meant, SeenViews
  <2>6. CASE k = "removed" /\ w \in InputMethods /\ w \notin Windows
    BY <1>1, <1>2, <2>1, <2>6 DEF Model!Meant, SeenViews
  <2>7. CASE k = "ready" /\ w \in Windows
    BY <1>1, <1>2, <2>1, <2>7 DEF Model!Meant, SeenViews
  <2>8. CASE k = "ready" /\ w \notin Windows
    <3>1. ~ Model!Contains(v.stack, w)
      BY <1>1, <2>8 DEF Model!Contains
    <3> QED
      BY <2>1, <2>8, <3>1 DEF Model!Meant
  <2> QED
    BY <2>1, <2>3, <2>4, <2>5, <2>6, <2>7, <2>8
<1>4. CASE n \in { "focus" } \X Windows \X BOOLEAN
  <2>1. PICK w \in Windows, b \in BOOLEAN : n = << "focus", w, b >>
    BY <1>4
  <2> QED
    BY <1>1, <2>1 DEF Model!Meant, SeenViews
<1>5. CASE n \in { "state" } \X Windows \X Model!States
  <2>1. PICK w \in Windows, b \in Model!States : n = << "state", w, b >>
    BY <1>5
  <2> QED
    BY <1>1, <2>1 DEF Model!Meant, SeenViews
<1>6. CASE n \in { "raised" } \X Model!Orders
  <2>1. PICK t \in Model!Orders : n = << "raised", t >>
    BY <1>6
  <2>2. t \in Seq(Windows)
    BY DEF Model!Orders
  <2>3. Without(v.stack, ToSet(t)) \in Seq(Windows) /\ Kept(t, ToSet(v.stack)) \in Seq(Windows)
    BY <1>1, <2>2, Without_, KeptRow
  <2>4. Model!OnTop(v.stack, t) \in Seq(Windows)
    BY <2>3, SameRows DEF Model!OnTop
  <2> QED
    BY <1>1, <2>1, <2>4 DEF Model!Meant, SeenViews
<1> QED
  BY <1>3, <1>4, <1>5, <1>6 DEF Model!Notices

LEMMA ReachesNone ==
  ASSUME NEW v \in SeenViews
  PROVE  Reaches(v, << >>, v)
<1>1. PICK f : f = [ i \in 0 .. 0 |-> v ]
  OBVIOUS
<1>2. f \in [ 0 .. 0 -> SeenViews ] /\ f[0] = v /\ 1 .. 0 = {} /\ Len(<< >>) = 0
  BY <1>1
<1>3. Hearing(v, << >>, f)
  BY <1>2 DEF Hearing
<1> QED
  BY <1>2, <1>3 DEF Reaches

LEMMA ReachesOne ==
  ASSUME Model!WindowsAssumption, NEW v \in SeenViews, NEW n \in Model!Notices, Applies(v, n)
  PROVE  Reaches(v, << n >>, Model!Meant(v, n))
<1>1. PICK m \in SeenViews : m = Model!Meant(v, n)
  BY MeantTyped
<1>2. PICK f : f = [ i \in 0 .. 1 |-> IF i = 0 THEN v ELSE m ]
  OBVIOUS
<1>3. f \in [ 0 .. 1 -> SeenViews ] /\ f[0] = v /\ f[1] = m
  BY <1>2
<1>4. PICK q : q = << n >>
  OBVIOUS
<1>5. Len(q) = 1 /\ q[1] = n
  BY <1>4
<1>6. Hearing(v, q, f)
  <2>1. ASSUME NEW i \in 1 .. Len(q) PROVE f[i] = Model!Meant(f[i - 1], q[i]) /\ Applies(f[i - 1], q[i])
    <3>1. i = 1 /\ i - 1 = 0
      BY <1>5
    <3> QED
      BY <1>1, <1>3, <1>5, <3>1
  <2> QED
    BY <1>3, <1>5, <2>1 DEF Hearing
<1> QED
  BY <1>1, <1>3, <1>4, <1>5, <1>6 DEF Reaches

LEMMA ReachesJoined ==
  ASSUME NEW v, NEW u, NEW x, NEW p \in Seq(Model!Notices), NEW q \in Seq(Model!Notices),
         Reaches(v, p, u), Reaches(u, q, x)
  PROVE  Reaches(v, p \o q, x)
<1>0. Len(p) \in Nat /\ Len(q) \in Nat
  OBVIOUS
<1>1. PICK f : Hearing(v, p, f) /\ f[Len(p)] = u
  BY DEF Reaches
<1>2. PICK g : Hearing(u, q, g) /\ g[Len(q)] = x
  BY DEF Reaches
<1>3. /\ f \in [ 0 .. Len(p) -> SeenViews ] /\ f[0] = v
      /\ \A i \in 1 .. Len(p) : f[i] = Model!Meant(f[i - 1], p[i]) /\ Applies(f[i - 1], p[i])
  BY <1>1 DEF Hearing
<1>4. /\ g \in [ 0 .. Len(q) -> SeenViews ] /\ g[0] = u
      /\ \A i \in 1 .. Len(q) : g[i] = Model!Meant(g[i - 1], q[i]) /\ Applies(g[i - 1], q[i])
  BY <1>2 DEF Hearing
<1> DEFINE r == p \o q
           h == [ i \in 0 .. Len(p) + Len(q) |-> IF i <= Len(p) THEN f[i] ELSE g[i - Len(p)] ]
<1>5. /\ Len(r) = Len(p) + Len(q)
      /\ \A i \in 1 .. Len(p) : r[i] = p[i]
      /\ \A i \in Len(p) + 1 .. Len(p) + Len(q) : r[i] = q[i - Len(p)]
  BY JoinedAt
<1>6. \A i \in 0 .. Len(p) : h[i] = f[i]
  BY <1>0
<1>7. \A i \in Len(p) .. Len(p) + Len(q) : h[i] = g[i - Len(p)]
  <2>1. f[Len(p)] = g[0]
    BY <1>1, <1>4
  <2>2. ASSUME NEW i \in Len(p) .. Len(p) + Len(q) PROVE h[i] = g[i - Len(p)]
    <3>1. CASE i = Len(p)
      <4>1. i - Len(p) = 0
        BY <1>0, <3>1
      <4> QED
        BY <1>0, <2>1, <3>1, <4>1
    <3>2. CASE i # Len(p)
      BY <1>0, <3>2
    <3> QED
      BY <3>1, <3>2
  <2> QED
    BY <2>2
<1>8. h \in [ 0 .. Len(p) + Len(q) -> SeenViews ]
  <2>1. ASSUME NEW i \in 0 .. Len(p) + Len(q) PROVE (IF i <= Len(p) THEN f[i] ELSE g[i - Len(p)]) \in SeenViews
    <3>1. CASE i <= Len(p)
      BY <1>0, <1>3, <3>1
    <3>2. CASE ~ (i <= Len(p))
      <4>1. i - Len(p) \in 0 .. Len(q)
        BY <1>0, <3>2
      <4> QED
        BY <1>4, <3>2, <4>1
    <3> QED
      BY <3>1, <3>2
  <2> QED
    BY <2>1
<1> HIDE DEF h, r
<1>9. ASSUME NEW i \in 1 .. Len(r)
      PROVE  h[i] = Model!Meant(h[i - 1], r[i]) /\ Applies(h[i - 1], r[i])
  <2>1. CASE i \in 1 .. Len(p)
    <3>1. i \in 0 .. Len(p) /\ i - 1 \in 0 .. Len(p)
      BY <1>0, <2>1
    <3>2. h[i] = f[i] /\ h[i - 1] = f[i - 1] /\ r[i] = p[i]
      BY <1>5, <1>6, <2>1, <3>1
    <3> QED
      BY <1>3, <2>1, <3>2
  <2>2. CASE ~ (i \in 1 .. Len(p))
    <3>1. /\ i \in Len(p) + 1 .. Len(p) + Len(q) /\ i \in Len(p) .. Len(p) + Len(q)
          /\ i - 1 \in Len(p) .. Len(p) + Len(q) /\ (i - 1) - Len(p) = (i - Len(p)) - 1
          /\ i - Len(p) \in 1 .. Len(q)
      BY <1>0, <1>5, <2>2
    <3>2. h[i] = g[i - Len(p)] /\ h[i - 1] = g[(i - Len(p)) - 1] /\ r[i] = q[i - Len(p)]
      BY <1>5, <1>7, <3>1
    <3> QED
      BY <1>4, <3>1, <3>2
  <2> QED
    BY <2>1, <2>2
<1>10. h[0] = v
  BY <1>0, <1>3, <1>6
<1>11. h[Len(r)] = x
  <2>1. Len(r) \in Len(p) .. Len(p) + Len(q) /\ Len(r) - Len(p) = Len(q)
    BY <1>0, <1>5
  <2> QED
    BY <1>2, <1>7, <2>1
<1>12. Hearing(v, r, h)
  BY <1>5, <1>8, <1>9, <1>10 DEF Hearing
<1> QED
  BY <1>11, <1>12 DEF Reaches, r

LEMMA ReachesTail ==
  ASSUME NEW v, NEW u, NEW q \in Seq(Model!Notices), q # << >>, Reaches(v, q, u)
  PROVE  /\ Applies(v, Head(q)) /\ Head(q) \in Model!Notices
         /\ Reaches(Model!Meant(v, Head(q)), Tail(q), u)
<1>0. Len(q) \in Nat /\ Len(q) >= 1
  OBVIOUS
<1>1. PICK f : Hearing(v, q, f) /\ f[Len(q)] = u
  BY DEF Reaches
<1>2. /\ f \in [ 0 .. Len(q) -> SeenViews ] /\ f[0] = v
      /\ \A i \in 1 .. Len(q) : f[i] = Model!Meant(f[i - 1], q[i]) /\ Applies(f[i - 1], q[i])
  BY <1>1 DEF Hearing
<1> DEFINE r == Tail(q)
           g == [ i \in 0 .. Len(q) - 1 |-> f[i + 1] ]
<1>3. Len(r) = Len(q) - 1 /\ \A i \in 1 .. Len(q) - 1 : r[i] = q[i + 1]
  BY <1>0
<1>4. Head(q) = q[1] /\ q[1] \in Model!Notices
  BY <1>0
<1>5. f[1] = Model!Meant(v, q[1]) /\ Applies(v, q[1])
  <2>1. 1 \in 1 .. Len(q) /\ 1 - 1 = 0
    BY <1>0
  <2> QED
    BY <1>2, <2>1
<1>6. g \in [ 0 .. Len(q) - 1 -> SeenViews ] /\ \A i \in 0 .. Len(q) - 1 : g[i] = f[i + 1]
  BY <1>0, <1>2
<1> HIDE DEF g, r
<1>7. ASSUME NEW i \in 1 .. Len(r)
      PROVE  g[i] = Model!Meant(g[i - 1], r[i]) /\ Applies(g[i - 1], r[i])
  <2>1. /\ i \in 0 .. Len(q) - 1 /\ i - 1 \in 0 .. Len(q) - 1 /\ (i - 1) + 1 = (i + 1) - 1
        /\ i + 1 \in 1 .. Len(q) /\ i \in 1 .. Len(q) - 1
    BY <1>0, <1>3
  <2>2. g[i] = f[i + 1] /\ g[i - 1] = f[(i + 1) - 1] /\ r[i] = q[i + 1]
    BY <1>3, <1>6, <2>1
  <2> QED
    BY <1>2, <2>1, <2>2
<1>8. g[0] = Model!Meant(v, q[1]) /\ g[Len(r)] = u
  <2>1. 0 \in 0 .. Len(q) - 1 /\ 0 + 1 = 1 /\ Len(r) \in 0 .. Len(q) - 1 /\ Len(r) + 1 = Len(q)
    BY <1>0, <1>3
  <2> QED
    BY <1>1, <1>5, <1>6, <2>1
<1>9. Hearing(Model!Meant(v, q[1]), r, g)
  BY <1>3, <1>6, <1>7, <1>8 DEF Hearing
<1>10. Reaches(Model!Meant(v, q[1]), r, u)
  BY <1>8, <1>9 DEF Reaches
<1> QED
  BY <1>4, <1>5, <1>10 DEF r

LEMMA ReachesForeseen ==
  ASSUME NEW u, Reaches(Model!Seen, notices, u), notices \in Seq(Model!Notices)
  PROVE  Model!Foreseen = u
<1> DEFINE after == CHOOSE f : f = [ n \in 0 .. Len(notices) |->
             IF n = 0 THEN Model!Seen ELSE Model!Meant(f[n - 1], notices[n]) ]
<1>0. Len(notices) \in Nat /\ Len(notices) \in 0 .. Len(notices)
  OBVIOUS
<1>1. PICK f : Hearing(Model!Seen, notices, f) /\ f[Len(notices)] = u
  BY DEF Reaches
<1>2. /\ f \in [ 0 .. Len(notices) -> SeenViews ] /\ f[0] = Model!Seen
      /\ \A i \in 1 .. Len(notices) : f[i] = Model!Meant(f[i - 1], notices[i])
  BY <1>1 DEF Hearing
<1>3. f = [ n \in 0 .. Len(notices) |->
             IF n = 0 THEN Model!Seen ELSE Model!Meant(f[n - 1], notices[n]) ]
  BY <1>0, <1>2
<1>4. after = [ n \in 0 .. Len(notices) |->
             IF n = 0 THEN Model!Seen ELSE Model!Meant(after[n - 1], notices[n]) ]
  BY <1>3
<1>5. Model!Foreseen = after[Len(notices)]
  BY DEF Model!Foreseen
<1> HIDE DEF after
<1>6. after[0] = Model!Seen /\ \A n \in 1 .. Len(notices) : after[n] = Model!Meant(after[n - 1], notices[n])
  BY <1>0, <1>4
<1>7. \A n \in 0 .. Len(notices) : after[n] = f[n]
  <2> DEFINE T == { n \in 0 .. Len(notices) : after[n] = f[n] }
  <2>1. 0 \in T
    BY <1>0, <1>2, <1>6
  <2>2. ASSUME NEW n \in 0 .. Len(notices) - 1, n \in T PROVE n + 1 \in T
    <3>1. n + 1 \in 1 .. Len(notices) /\ (n + 1) - 1 = n /\ n + 1 \in 0 .. Len(notices)
      BY <1>0
    <3>2. after[n + 1] = Model!Meant(after[n], notices[n + 1]) /\ f[n + 1] = Model!Meant(f[n], notices[n + 1])
      BY <1>2, <1>6, <3>1
    <3> QED
      BY <2>2, <3>1, <3>2
  <2> HIDE DEF T
  <2>3. \A n \in 0 .. Len(notices) : n \in T
    BY <1>0, <2>1, <2>2, UpTo
  <2> QED
    BY <2>3 DEF T
<1> QED
  BY <1>0, <1>1, <1>5, <1>7

ViewOf(v, s, r, f, d, k) ==
  v.stack = s /\ v.ready = r /\ v.focused = f /\ v.state = d /\ v.inputMethod = k

LEMMA ContainsIs == ASSUME NEW s \in Seq(Windows), NEW w PROVE Model!Contains(s, w) <=> w \in ToSet(s)
BY DEF Model!Contains, ToSet

LEMMA MeantAdded ==
  ASSUME Model!WindowsAssumption, NEW v \in SeenViews, NEW w \in Windows
  PROVE  ViewOf(Model!Meant(v, << "added", w >>), Append(v.stack, w), v.ready \ { w },
                v.focused \ { w }, [ v.state EXCEPT ![w] = "Restored" ], v.inputMethod)
BY DEF Model!Meant, SeenViews, ViewOf, Model!WindowsAssumption

LEMMA MeantRemoved ==
  ASSUME Model!WindowsAssumption, NEW v \in SeenViews, NEW w \in Windows
  PROVE  ViewOf(Model!Meant(v, << "removed", w >>), Without(v.stack, { w }), v.ready \ { w },
                v.focused \ { w }, [ v.state EXCEPT ![w] = "Restored" ], v.inputMethod)
BY SameRows DEF Model!Meant, SeenViews, ViewOf, Model!WindowsAssumption

LEMMA MeantInput ==
  ASSUME Model!WindowsAssumption, NEW v \in SeenViews, NEW w \in InputMethods
  PROVE  /\ ViewOf(Model!Meant(v, << "added", w >>), v.stack, v.ready, v.focused, v.state, w)
         /\ ViewOf(Model!Meant(v, << "removed", w >>), v.stack, v.ready, v.focused, v.state, NoWindow)
<1>1. w \notin Windows
  BY DEF Model!WindowsAssumption
<1> QED
  BY <1>1 DEF Model!Meant, SeenViews, ViewOf

LEMMA MeantReady ==
  ASSUME NEW v \in SeenViews, NEW w
  PROVE  ViewOf(Model!Meant(v, << "ready", w >>), v.stack,
                IF w \in ToSet(v.stack) THEN v.ready \cup { w } ELSE v.ready, v.focused, v.state, v.inputMethod)
<1>1. Model!Contains(v.stack, w) <=> w \in ToSet(v.stack)
  BY ContainsIs DEF SeenViews
<1> QED
  BY <1>1 DEF Model!Meant, SeenViews, ViewOf

LEMMA MeantFocus ==
  ASSUME NEW v \in SeenViews, NEW w, NEW b \in BOOLEAN
  PROVE  ViewOf(Model!Meant(v, << "focus", w, b >>), v.stack, v.ready,
                IF w \notin ToSet(v.stack) THEN v.focused
                ELSE IF b THEN v.focused \cup { w } ELSE v.focused \ { w }, v.state, v.inputMethod)
<1>1. Model!Contains(v.stack, w) <=> w \in ToSet(v.stack)
  BY ContainsIs DEF SeenViews
<1> QED
  BY <1>1 DEF Model!Meant, SeenViews, ViewOf

LEMMA MeantState ==
  ASSUME NEW v \in SeenViews, NEW w \in Windows, NEW d
  PROVE  ViewOf(Model!Meant(v, << "state", w, d >>), v.stack, v.ready, v.focused,
                IF w \in ToSet(v.stack) THEN [ v.state EXCEPT ![w] = d ] ELSE v.state, v.inputMethod)
<1>1. Model!Contains(v.stack, w) <=> w \in ToSet(v.stack)
  BY ContainsIs DEF SeenViews
<1> QED
  BY <1>1 DEF Model!Meant, SeenViews, ViewOf

LEMMA MeantRaised ==
  ASSUME NEW v \in SeenViews, NEW t
  PROVE  ViewOf(Model!Meant(v, << "raised", t >>), Model!OnTop(v.stack, t), v.ready, v.focused,
                v.state, v.inputMethod)
BY DEF Model!Meant, SeenViews, ViewOf

LEMMA SameView ==
  ASSUME NEW u \in SeenViews, NEW v \in SeenViews,
         ViewOf(u, v.stack, v.ready, v.focused, v.state, v.inputMethod)
  PROVE  u = v
BY DEF SeenViews, ViewOf

------------------------------------------------------------------------------
(* The invariant: what the notices on their way lead to is MirAL's windows. *)

Synced(u) ==
  /\ u \in SeenViews /\ u.stack = stack /\ u.ready = readyWindows /\ u.focused = { active } \ { NoWindow }
  /\ \A w \in ToSet(stack) \ overtaken : Model!ToMirState[u.state[w]] = mirState[w]
  /\ u.inputMethod \in inputWindows \cup { NoWindow }

(* Each notice says something of what is seen once those before it are      *)
(* heard.                                                                   *)
NoticesLead == \E u : Reaches(Model!Seen, notices, u) /\ Synced(u)

(* requestState() goes on by what it has read, unless that was overtaken.   *)
RequestIsRight ==
  request # Model!NoRequest /\ request.window \in ToSet(stack) \ overtaken =>
    (request.same <=> Model!ToMirState[request.state] = mirState[request.window])

ModelInv ==
  /\ Model!TypeOK /\ readyWindows \subseteq ToSet(stack) /\ active \in ToSet(stack) \cup { NoWindow }
  /\ RequestIsRight /\ NoticesLead

LEMMA SeenTyped == ASSUME Model!TypeOK PROVE Model!Seen \in SeenViews
BY DEF Model!TypeOK, Model!Seen, SeenViews, Model!SurfaceRecord, Model!Orders

LEMMA ModelStarts == Model!WindowsAssumption /\ Model!Init => ModelInv
<1> SUFFICES ASSUME Model!WindowsAssumption, Model!Init PROVE ModelInv
  OBVIOUS
<1>0. << >> \in Model!Orders /\ ToSet(<< >>) = {}
  BY DEF Model!Orders, IsInjective, Model!IsInjective, ToSet
<1>1. Model!TypeOK
  BY <1>0 DEF Model!Init, Model!TypeOK, Model!MirStates, Model!States, Model!NoRequest, Model!RequestRecord,
     Model!SurfaceRecord, Model!NewSurface
<1>2. PICK v \in SeenViews : v = Model!Seen
  BY <1>1, SeenTyped
<1>3. Synced(v)
  BY <1>0, <1>2 DEF Synced, Model!Init, Model!Seen, Model!NewSurface
<1>4. Reaches(v, << >>, v)
  BY ReachesNone
<1>5. NoticesLead
  BY <1>2, <1>3, <1>4 DEF NoticesLead, Model!Init
<1> QED
  BY <1>0, <1>1, <1>5 DEF ModelInv, RequestIsRight, Model!Init

LEMMA TreesAre ==
  ASSUME Model!TypeOK, NEW w, NEW t \in Model!Trees(w)
  PROVE  t \in Model!Orders /\ t \in Seq(Windows) /\ IsInjective(t) /\ ToSet(t) \subseteq ToSet(stack)
         /\ t # << >>
<1>1. stack \in Seq(Windows)
  BY DEF Model!TypeOK, Model!Orders
<1>2. ToSet(stack) \subseteq Windows
  BY <1>1 DEF ToSet
<1>3. IsInjective(t) /\ t # << >> /\ t \in Model!SeqOf(ToSet(stack), Len(stack))
  BY SameRows DEF Model!Trees
<1>4. PICK m \in 0 .. Len(stack) : t \in [ 1 .. m -> ToSet(stack) ]
  BY <1>3 DEF Model!SeqOf
<1>5. m \in Nat
  BY <1>1, <1>4
<1>6. t \in Seq(ToSet(stack))
  BY <1>4, <1>5
<1>7. t \in Seq(Windows) /\ ToSet(t) \subseteq ToSet(stack)
  BY <1>2, <1>6 DEF ToSet
<1> QED
  BY <1>3, <1>7, SameRows DEF Model!Orders

(* A new notice, when nothing that is seen changes.                         *)
LEMMA PostKeeps ==
  ASSUME Model!TypeOK, NEW u, NEW x, NEW new \in Seq(Model!Notices),
         Reaches(Model!Seen, notices, u), Reaches(u, new, x), Model!Post(new), UNCHANGED Model!modelVars
  PROVE  Reaches(Model!Seen', notices', x) /\ notices' \in Seq(Model!Notices)
<1>1. Model!Seen' = Model!Seen
  BY DEF Model!Seen, Model!modelVars
<1>2. notices \in Seq(Model!Notices)
  BY DEF Model!TypeOK
<1>3. Reaches(Model!Seen, notices \o new, x)
  BY <1>2, ReachesJoined
<1>4. notices' = notices \o new
  BY DEF Model!Post
<1>5. notices \o new \in Seq(Model!Notices)
  BY <1>2
<1> QED
  BY <1>1, <1>3, <1>4, <1>5

(* select_active_window().                                                  *)
LEMMA Selected ==
  ASSUME Model!WindowsAssumption, Model!TypeOK, NEW v \in SeenViews, v.stack = stack,
         v.focused = { active } \ { NoWindow }, active \in ToSet(stack) \cup { NoWindow },
         NEW w \in ToSet(stack), NEW t \in Model!Trees(w), NEW new,
         new = (IF active \in { w, NoWindow } THEN << >> ELSE << << "focus", active, FALSE >> >>)
                 \o << << "focus", w, TRUE >>, << "raised", t >> >>
  PROVE  /\ new \in Seq(Model!Notices)
         /\ \E y \in SeenViews : Reaches(v, new, y) /\
              ViewOf(y, Model!OnTop(stack, t), v.ready, { w }, v.state, v.inputMethod)
<1>0. w \in Windows /\ w # NoWindow
  BY DEF Model!TypeOK, Model!Orders, ToSet, Model!WindowsAssumption
<1>1. /\ t \in Model!Orders /\ t \in Seq(Windows) /\ ToSet(t) \subseteq ToSet(stack) /\ t # << >>
  BY TreesAre
<1>2. PICK a : a = << "focus", active, FALSE >>
  OBVIOUS
<1>3. PICK b : b = << "focus", w, TRUE >>
  OBVIOUS
<1>4. PICK c : c = << "raised", t >>
  OBVIOUS
<1>5. b \in Model!Notices /\ c \in Model!Notices /\ (active # NoWindow => a \in Model!Notices)
  BY <1>0, <1>1, <1>2, <1>3, <1>4 DEF Model!Notices, Model!TypeOK
<1>6. PICK first : first = IF active \in { w, NoWindow } THEN << >> ELSE << a >>
  OBVIOUS
<1>7. first \in Seq(Model!Notices)
  BY <1>5, <1>6
<1>8. \E x \in SeenViews : Reaches(v, first, x) /\
        ViewOf(x, v.stack, v.ready, v.focused \cap { w }, v.state, v.inputMethod)
  <2>1. CASE active \in { w, NoWindow }
    <3>1. Reaches(v, first, v)
      BY <1>6, <2>1, ReachesNone
    <3>2. v.focused \cap { w } = v.focused
      BY <2>1
    <3> QED
      BY <3>1, <3>2 DEF ViewOf
  <2>2. CASE active \notin { w, NoWindow }
    <3>1. active \in ToSet(stack)
      BY <2>2
    <3>2. Applies(v, a)
      BY <1>2 DEF Applies
    <3>3. Model!Meant(v, a) \in SeenViews /\ Reaches(v, << a >>, Model!Meant(v, a))
      BY <1>5, <2>2, <3>2, MeantTyped, ReachesOne
    <3>4. FALSE \in BOOLEAN
      OBVIOUS
    <3>5. ViewOf(Model!Meant(v, a), v.stack, v.ready,
                IF active \notin ToSet(v.stack) THEN v.focused
                ELSE IF FALSE THEN v.focused \cup { active } ELSE v.focused \ { active }, v.state, v.inputMethod)
      BY <1>2, <3>4, MeantFocus
    <3>6. v.focused \ { active } = v.focused \cap { w }
      BY <2>2
    <3> QED
      BY <1>6, <2>2, <3>1, <3>3, <3>5, <3>6
  <2> QED
    BY <2>1, <2>2
<1>9. PICK x \in SeenViews : /\ Reaches(v, first, x)
                         /\ ViewOf(x, v.stack, v.ready, v.focused \cap { w }, v.state, v.inputMethod)
  BY <1>8
<1>10. x.stack = stack /\ x.ready = v.ready /\ x.state = v.state /\ x.inputMethod = v.inputMethod /\ x.focused \subseteq { w }
  BY <1>9 DEF ViewOf
<1>11. Applies(x, b)
  BY <1>3 DEF Applies
<1>12. PICK z \in SeenViews : z = Model!Meant(x, b)
  BY <1>5, MeantTyped
<1>13. Reaches(x, << b >>, z)
  BY <1>5, <1>11, <1>12, ReachesOne
<1>14. ViewOf(z, stack, v.ready, { w }, v.state, v.inputMethod)
  <2>1. ViewOf(Model!Meant(x, b), x.stack, x.ready,
                IF w \notin ToSet(x.stack) THEN x.focused
                ELSE IF TRUE THEN x.focused \cup { w } ELSE x.focused \ { w }, x.state, x.inputMethod)
    BY <1>3, MeantFocus
  <2>2. x.focused \cup { w } = { w }
    BY <1>10
  <2> QED
    BY <1>10, <1>12, <2>1, <2>2 DEF ViewOf
<1>15. Applies(z, c)
  BY <1>1, <1>4, <1>14 DEF Applies, ViewOf
<1>16. PICK y \in SeenViews : y = Model!Meant(z, c)
  BY <1>5, MeantTyped
<1>17. Reaches(z, << c >>, y)
  BY <1>5, <1>15, <1>16, ReachesOne
<1>18. ViewOf(y, Model!OnTop(stack, t), v.ready, { w }, v.state, v.inputMethod)
  <2>1. ViewOf(Model!Meant(z, c), Model!OnTop(z.stack, t), z.ready, z.focused, z.state, z.inputMethod)
    BY <1>4, MeantRaised
  <2> QED
    BY <1>14, <1>16, <2>1 DEF ViewOf
<1>19. << b >> \in Seq(Model!Notices) /\ << c >> \in Seq(Model!Notices)
  BY <1>5
<1>a. PICK p : p \in Seq(Model!Notices) /\ p = << b >>
  BY <1>19, Zenon
<1>b. PICK q : q \in Seq(Model!Notices) /\ q = << c >>
  BY <1>19, Zenon
<1>c. Reaches(x, p, z) /\ Reaches(z, q, y)
  BY <1>13, <1>17, <1>a, <1>b, Zenon
<1>20. PICK second : second = p \o q
  OBVIOUS
<1>21. second \in Seq(Model!Notices) /\ Reaches(x, second, y)
  <2>1. p \o q \in Seq(Model!Notices)
    BY <1>a, <1>b, JoinedAt
  <2>2. Reaches(x, p \o q, y)
    BY <1>a, <1>b, <1>c, ReachesJoined
  <2> QED
    BY <1>20, <2>1, <2>2, Zenon
<1>22. Reaches(v, first \o second, y) /\ first \o second \in Seq(Model!Notices)
  BY <1>7, <1>9, <1>21, ReachesJoined
<1>23. new = first \o second
  <2>1. second = << b, c >>
    <3>1. second = << b >> \o << c >>
      BY <1>20, <1>a, <1>b, Zenon
    <3>2. << b >> \o << c >> = << b, c >>
      BY <1>5, TwoJoined
    <3> QED
      BY <3>1, <3>2, Zenon
  <2> QED
    BY <1>2, <1>3, <1>4, <1>6, <2>1
<1> QED
  BY <1>18, <1>22, <1>23

LEMMA OneKeeps ==
  ASSUME Model!WindowsAssumption, Model!TypeOK, NEW u \in SeenViews, NEW n \in Model!Notices, Applies(u, n),
         Reaches(Model!Seen, notices, u), Model!Post(<< n >>), UNCHANGED Model!modelVars
  PROVE  /\ Reaches(Model!Seen', notices', Model!Meant(u, n)) /\ notices' \in Seq(Model!Notices)
         /\ Model!Meant(u, n) \in SeenViews
<1>0. << n >> \in Seq(Model!Notices)
  OBVIOUS
<1>1. PICK new : new = << n >> /\ new \in Seq(Model!Notices)
  BY <1>0, Zenon
<1>2. Reaches(u, new, Model!Meant(u, n))
  BY <1>1, ReachesOne
<1>3. Model!Post(new)
  BY <1>1
<1>4. Reaches(Model!Seen', notices', Model!Meant(u, n)) /\ notices' \in Seq(Model!Notices)
  BY <1>1, <1>2, <1>3, PostKeeps
<1> QED
  BY <1>4, MeantTyped

LEMMA NewWindowKeeps ==
  ASSUME Model!WindowsAssumption, ModelInv, NEW w \in Windows \cup InputMethods, Model!AdviseNewWindow(w)
  PROVE  ModelInv'
<1>0. Model!TypeOK /\ RequestIsRight /\ readyWindows \subseteq ToSet(stack) /\ active \in ToSet(stack) \cup { NoWindow }
  BY DEF ModelInv
<1>1. PICK u : Reaches(Model!Seen, notices, u) /\ Synced(u)
  BY DEF ModelInv, NoticesLead
<1>2. u \in SeenViews /\ u.stack = stack
  BY <1>1 DEF Synced
<1>3. PICK n : n = << "added", w >>
  OBVIOUS
<1>4. n \in Model!Notices
  BY <1>3 DEF Model!Notices
<1>5. /\ w \notin ToSet(stack) /\ w \notin inputWindows /\ request.window # w
      /\ Model!Post(<< n >>) /\ overtaken' = overtaken \ { w }
      /\ UNCHANGED << readyWindows, active, request, Model!modelVars >>
  BY <1>3, SameRows DEF Model!AdviseNewWindow, Model!Existing
<1>6. Applies(u, n)
  BY <1>2, <1>3, <1>5 DEF Applies
<1>7. PICK x : x = Model!Meant(u, n)
  OBVIOUS
<1>8. Reaches(Model!Seen', notices', x) /\ notices' \in Seq(Model!Notices) /\ x \in SeenViews
  BY <1>0, <1>1, <1>2, <1>4, <1>5, <1>6, <1>7, OneKeeps
<1>9. CASE w \in Windows
  <2>0. w \notin InputMethods /\ w # NoWindow
    BY <1>9 DEF Model!WindowsAssumption
  <2>1. /\ stack' = Append(stack, w)
        /\ mirState' = [ mirState EXCEPT ![w] = "restored" ]
        /\ extraState' = [ extraState EXCEPT ![w] = "Restored" ]
        /\ previousState' = [ previousState EXCEPT ![w] = "Unknown" ]
        /\ UNCHANGED inputWindows
    BY <2>0 DEF Model!AdviseNewWindow
  <2>2. /\ Append(stack, w) \in Seq(Windows)
        /\ ToSet(Append(stack, w)) = ToSet(stack) \cup { w }
        /\ IsInjective(Append(stack, w))
    <3>1. stack \in Seq(Windows) /\ IsInjective(stack)
      BY <1>0, SameRows DEF Model!TypeOK, Model!Orders
    <3> QED
      BY <1>5, <1>9, <3>1, Appended
  <2>3. stack' \in Model!Orders /\ ToSet(stack') = ToSet(stack) \cup { w }
    BY <2>1, <2>2, SameRows DEF Model!Orders
  <2>4. Model!TypeOK'
    BY <1>0, <1>5, <1>8, <2>1, <2>3 DEF Model!TypeOK, Model!MirStates, Model!States, Model!modelVars
  <2>5. ViewOf(x, Append(u.stack, w), u.ready \ { w }, u.focused \ { w }, [ u.state EXCEPT ![w] = "Restored" ], u.inputMethod)
    BY <1>2, <1>3, <1>7, <1>9, MeantAdded
  <2>6. Synced(x)'
    <3>1. u.ready \ { w } = readyWindows /\ u.focused \ { w } = { active } \ { NoWindow }
      BY <1>0, <1>1, <1>5 DEF Synced
    <3>2. x.stack = stack' /\ x.ready = readyWindows' /\ x.focused = { active' } \ { NoWindow }
          /\ x.inputMethod \in inputWindows' \cup { NoWindow }
      BY <1>1, <1>2, <1>5, <2>1, <2>5, <3>1 DEF Synced, ViewOf
    <3>3. ASSUME NEW y \in ToSet(stack') \ overtaken' PROVE Model!ToMirState[x.state[y]] = mirState'[y]
      <4>1. y \in Windows
        BY <1>0, <2>3, <1>9 DEF Model!TypeOK, Model!Orders, ToSet
      <4>2. u.state \in [ Windows -> Model!States ] /\ mirState \in [ Windows -> Model!MirStates ]
        BY <1>0, <1>2 DEF SeenViews, Model!TypeOK
      <4>3. CASE y = w
        BY <2>1, <2>5, <4>1, <4>2, <4>3 DEF ViewOf, Model!ToMirState
      <4>4. CASE y # w
        <5>1. y \in ToSet(stack) \ overtaken
          BY <1>5, <2>3, <4>4
        <5>2. Model!ToMirState[u.state[y]] = mirState[y]
          BY <1>1, <5>1 DEF Synced
        <5> QED
          BY <2>1, <2>5, <4>1, <4>2, <4>4, <5>2 DEF ViewOf
      <4> QED
        BY <4>3, <4>4
    <3> QED
      BY <1>8, <3>2, <3>3 DEF Synced
  <2>7. RequestIsRight'
    BY <1>0, <1>5, <2>1, <2>3 DEF RequestIsRight, Model!TypeOK, Model!RequestRecord
  <2>8. NoticesLead'
    BY <1>8, <2>6 DEF NoticesLead
  <2> QED
    BY <1>0, <1>5, <2>3, <2>4, <2>7, <2>8 DEF ModelInv
<1>10. CASE w \in InputMethods
  <2>0. w \notin Windows
    BY <1>10 DEF Model!WindowsAssumption
  <2>1. inputWindows' = inputWindows \cup { w } /\ UNCHANGED << stack, mirState, extraState, previousState >>
    BY <2>0 DEF Model!AdviseNewWindow
  <2>2. overtaken' = overtaken
    BY <1>0, <1>5, <2>0 DEF Model!TypeOK
  <2>3. Model!TypeOK'
    BY <1>0, <1>5, <1>8, <1>10, <2>1, <2>2 DEF Model!TypeOK, Model!modelVars
  <2>4. ViewOf(x, u.stack, u.ready, u.focused, u.state, w)
    BY <1>2, <1>3, <1>7, <1>10, MeantInput
  <2>5. Synced(x)'
    BY <1>1, <1>5, <1>8, <1>10, <2>1, <2>2, <2>4 DEF Synced, ViewOf
  <2>6. RequestIsRight'
    BY <1>0, <1>5, <2>1, <2>2 DEF RequestIsRight
  <2>7. NoticesLead'
    BY <1>8, <2>5 DEF NoticesLead
  <2> QED
    BY <1>0, <1>5, <2>1, <2>3, <2>6, <2>7 DEF ModelInv
<1> QED
  BY <1>9, <1>10

LEMMA ReadyKeeps ==
  ASSUME Model!WindowsAssumption, ModelInv, NEW w, Model!HandleWindowReady(w)
  PROVE  ModelInv'
<1>0. Model!TypeOK /\ RequestIsRight /\ readyWindows \subseteq ToSet(stack) /\ active \in ToSet(stack) \cup { NoWindow }
  BY DEF ModelInv
<1>1. PICK u : Reaches(Model!Seen, notices, u) /\ Synced(u)
  BY DEF ModelInv, NoticesLead
<1>2. u \in SeenViews /\ u.stack = stack /\ u.ready = readyWindows
  BY <1>1 DEF Synced
<1>3. PICK n : n = << "ready", w >>
  OBVIOUS
<1>4. /\ w \in ToSet(stack) /\ Model!Post(<< n >>) /\ readyWindows' = readyWindows \cup { w }
      /\ UNCHANGED << stack, inputWindows, active, Model!stateVars, request, Model!modelVars >>
  BY <1>3, SameRows DEF Model!HandleWindowReady
<1>5. w \in Windows
  BY <1>0, <1>4 DEF Model!TypeOK, Model!Orders, ToSet
<1>6. n \in Model!Notices /\ Applies(u, n)
  BY <1>3, <1>5 DEF Model!Notices, Applies
<1>7. PICK x : x = Model!Meant(u, n)
  OBVIOUS
<1>8. Reaches(Model!Seen', notices', x) /\ notices' \in Seq(Model!Notices) /\ x \in SeenViews
  BY <1>0, <1>1, <1>2, <1>4, <1>6, <1>7, OneKeeps
<1>9. ViewOf(x, u.stack, IF w \in ToSet(u.stack) THEN u.ready \cup { w } ELSE u.ready, u.focused, u.state, u.inputMethod)
  BY <1>2, <1>3, <1>7, MeantReady
<1>10. Synced(x)'
  BY <1>1, <1>2, <1>4, <1>8, <1>9 DEF Synced, ViewOf, Model!stateVars
<1>11. Model!TypeOK'
  BY <1>0, <1>4, <1>5, <1>8 DEF Model!TypeOK, Model!modelVars, Model!stateVars
<1>12. RequestIsRight' /\ NoticesLead'
  BY <1>0, <1>4, <1>8, <1>10 DEF RequestIsRight, NoticesLead, Model!stateVars
<1> QED
  BY <1>0, <1>4, <1>11, <1>12 DEF ModelInv

LEMMA WithoutNone ==
  ASSUME NEW A, NEW s \in Seq(A), IsInjective(s), NEW w, w \notin ToSet(s)
  PROVE  Without(s, { w }) = s
<1>1. PICK b : b = Without(s, { w })
  OBVIOUS
<1>2. /\ b \in Seq(A) /\ ToSet(b) = ToSet(s) \ { w } /\ IsInjective(b)
      /\ \A x, y : Before(b, x, y) <=> (Before(s, x, y) /\ x \notin { w } /\ y \notin { w })
  BY <1>1, Without_
<1>3. ToSet(b) = ToSet(s)
  BY <1>2
<1>4. b = s
  BY <1>2, <1>3, SameOrder
<1> QED
  BY <1>1, <1>4

LEMMA DeletedKeeps ==
  ASSUME Model!WindowsAssumption, ModelInv, NEW w \in Windows \cup InputMethods, Model!AdviseDeleteWindow(w)
  PROVE  ModelInv'
<1>0. Model!TypeOK /\ RequestIsRight /\ readyWindows \subseteq ToSet(stack) /\ active \in ToSet(stack) \cup { NoWindow }
  BY DEF ModelInv
<1>1. PICK u : Reaches(Model!Seen, notices, u) /\ Synced(u)
  BY DEF ModelInv, NoticesLead
<1>2. u \in SeenViews /\ u.stack = stack
  BY <1>1 DEF Synced
<1>3. PICK n : n = << "removed", w >>
  OBVIOUS
<1>4. n \in Model!Notices
  BY <1>3 DEF Model!Notices
<1>5. /\ w \in ToSet(stack) \cup inputWindows
      /\ Model!Post(<< n >>) /\ overtaken' = overtaken \ { w }
      /\ stack' = Without(stack, { w }) /\ inputWindows' = inputWindows \ { w }
      /\ readyWindows' = readyWindows \ { w }
      /\ active' = (IF active = w THEN NoWindow ELSE active)
      /\ UNCHANGED << request, Model!modelVars >>
  BY <1>3, SameRows DEF Model!AdviseDeleteWindow, Model!Existing, Model!Forget
<1>a. stack \in Seq(Windows) /\ IsInjective(stack) /\ ToSet(stack) \subseteq Windows
  BY <1>0, SameRows DEF Model!TypeOK, Model!Orders, ToSet
<1>6. Applies(u, n)
  BY <1>0, <1>2, <1>3, <1>5 DEF Applies, Model!TypeOK, Model!WindowsAssumption
<1>7. PICK x : x = Model!Meant(u, n)
  OBVIOUS
<1>8. Reaches(Model!Seen', notices', x) /\ notices' \in Seq(Model!Notices) /\ x \in SeenViews
  BY <1>0, <1>1, <1>2, <1>4, <1>5, <1>6, <1>7, OneKeeps
<1>b. /\ Without(stack, { w }) \in Seq(Windows) /\ IsInjective(Without(stack, { w }))
      /\ ToSet(Without(stack, { w })) = ToSet(stack) \ { w }
  BY <1>a, Without_
<1>c. stack' \in Model!Orders /\ ToSet(stack') = ToSet(stack) \ { w }
  BY <1>5, <1>b, SameRows DEF Model!Orders
<1>9. CASE w \in Windows
  <2>1. /\ mirState' = [ mirState EXCEPT ![w] = "restored" ]
        /\ extraState' = [ extraState EXCEPT ![w] = "Unknown" ]
        /\ previousState' = [ previousState EXCEPT ![w] = "Unknown" ]
    BY <1>9 DEF Model!AdviseDeleteWindow, Model!Forget
  <2>2. w # NoWindow
    BY <1>9 DEF Model!WindowsAssumption
  <2>4. Model!TypeOK'
    BY <1>0, <1>5, <1>8, <1>c, <2>1 DEF Model!TypeOK, Model!MirStates, Model!States, Model!modelVars
  <2>5. ViewOf(x, Without(u.stack, { w }), u.ready \ { w }, u.focused \ { w }, [ u.state EXCEPT ![w] = "Restored" ], u.inputMethod)
    BY <1>2, <1>3, <1>7, <1>9, MeantRemoved
  <2>6. Synced(x)'
    <3>0. w \notin inputWindows /\ inputWindows' = inputWindows
      BY <1>0, <1>5, <1>9 DEF Model!TypeOK, Model!WindowsAssumption
    <3>1. u.ready \ { w } = readyWindows' /\ u.focused \ { w } = { active' } \ { NoWindow }
      BY <1>0, <1>1, <1>5, <2>2 DEF Synced
    <3>2. x.stack = stack' /\ x.ready = readyWindows' /\ x.focused = { active' } \ { NoWindow }
          /\ x.inputMethod \in inputWindows' \cup { NoWindow }
      BY <1>1, <1>2, <1>5, <2>5, <3>0, <3>1 DEF Synced, ViewOf
    <3>3. ASSUME NEW y \in ToSet(stack') \ overtaken' PROVE Model!ToMirState[x.state[y]] = mirState'[y]
      <4>1. y \in Windows /\ y # w /\ y \in ToSet(stack) \ overtaken
        BY <1>5, <1>a, <1>c
      <4>2. u.state \in [ Windows -> Model!States ] /\ mirState \in [ Windows -> Model!MirStates ]
        BY <1>0, <1>2 DEF SeenViews, Model!TypeOK
      <4>3. Model!ToMirState[u.state[y]] = mirState[y]
        BY <1>1, <4>1 DEF Synced
      <4> QED
        BY <2>1, <2>5, <4>1, <4>2, <4>3 DEF ViewOf
    <3> QED
      BY <1>8, <3>2, <3>3 DEF Synced
  <2>7. RequestIsRight'
    <3>1. SUFFICES ASSUME request # Model!NoRequest, request.window \in ToSet(stack') \ overtaken'
                   PROVE  request.same <=> Model!ToMirState[request.state] = mirState'[request.window]
      BY <1>5 DEF RequestIsRight
    <3>2. request.window # w /\ request.window \in ToSet(stack) \ overtaken /\ request.window \in Windows
      BY <1>5, <1>a, <1>c, <3>1
    <3>3. mirState'[request.window] = mirState[request.window]
      BY <1>0, <2>1, <3>2 DEF Model!TypeOK
    <3> QED
      BY <1>0, <3>1, <3>2, <3>3 DEF RequestIsRight
  <2>8. NoticesLead'
    BY <1>8, <2>6 DEF NoticesLead
  <2> QED
    BY <1>0, <1>5, <1>c, <2>4, <2>7, <2>8 DEF ModelInv
<1>10. CASE w \in InputMethods
  <2>0. w \notin Windows /\ w # NoWindow
    BY <1>10 DEF Model!WindowsAssumption
  <2>1. UNCHANGED << mirState, extraState, previousState >>
    BY <2>0 DEF Model!AdviseDeleteWindow, Model!Forget
  <2>2. overtaken' = overtaken /\ readyWindows' = readyWindows /\ active' = active
    BY <1>0, <1>5, <2>0 DEF Model!TypeOK
  <2>3. stack' = stack
    BY <1>5, <1>a, <2>0, WithoutNone
  <2>4. Model!TypeOK'
    BY <1>0, <1>5, <1>8, <2>1, <2>2, <2>3 DEF Model!TypeOK, Model!modelVars
  <2>5. ViewOf(x, u.stack, u.ready, u.focused, u.state, NoWindow)
    BY <1>2, <1>3, <1>7, <1>10, MeantInput
  <2>6. Synced(x)'
    BY <1>1, <1>8, <2>1, <2>2, <2>3, <2>5 DEF Synced, ViewOf
  <2>7. RequestIsRight'
    BY <1>0, <1>5, <2>1, <2>2, <2>3 DEF RequestIsRight
  <2>8. NoticesLead'
    BY <1>8, <2>6 DEF NoticesLead
  <2> QED
    BY <1>0, <2>2, <2>3, <2>4, <2>7, <2>8 DEF ModelInv
<1> QED
  BY <1>9, <1>10

LEMMA Advised ==
  ASSUME Model!TypeOK, NEW w \in Windows, NEW s \in Model!MirStates
  PROVE  Model!AdvisedState(w, s) \in Model!States /\ Model!ToMirState[Model!AdvisedState(w, s)] = s
BY DEF Model!TypeOK, Model!MirStates, Model!States, Model!AdvisedState, Model!ToMirState, Model!ToQtState

LEMMA ModifyKeeps ==
  ASSUME Model!WindowsAssumption, ModelInv, NEW w \in Windows, NEW s \in Model!MirStates,
         Model!HandleModifyWindow(w, s)
  PROVE  ModelInv'
<1>0. Model!TypeOK /\ RequestIsRight /\ readyWindows \subseteq ToSet(stack) /\ active \in ToSet(stack) \cup { NoWindow }
  BY DEF ModelInv
<1>1. PICK u : Reaches(Model!Seen, notices, u) /\ Synced(u)
  BY DEF ModelInv, NoticesLead
<1>2. u \in SeenViews /\ u.stack = stack
  BY <1>1 DEF Synced
<1>3. PICK d : d = Model!AdvisedState(w, s) /\ d \in Model!States /\ Model!ToMirState[d] = s
  BY <1>0, Advised
<1>4. PICK n : n = << "state", w, d >>
  OBVIOUS
<1>5. /\ w \in ToSet(stack) /\ Model!Post(<< n >>)
      /\ mirState' = [ mirState EXCEPT ![w] = s ]
      /\ extraState' = [ extraState EXCEPT ![w] = d ]
      /\ overtaken' = (IF request.window = w THEN overtaken \cup { w } ELSE overtaken \ { w })
      /\ UNCHANGED << stack, inputWindows, readyWindows, active, previousState, request, Model!modelVars >>
  BY <1>3, <1>4, SameRows DEF Model!HandleModifyWindow, Model!AdviseStateChange
<1>6. n \in Model!Notices /\ Applies(u, n)
  BY <1>3, <1>4 DEF Model!Notices, Applies
<1>7. PICK x : x = Model!Meant(u, n)
  OBVIOUS
<1>8. Reaches(Model!Seen', notices', x) /\ notices' \in Seq(Model!Notices) /\ x \in SeenViews
  BY <1>0, <1>1, <1>2, <1>5, <1>6, <1>7, OneKeeps
<1>9. ViewOf(x, u.stack, u.ready, u.focused,
             IF w \in ToSet(u.stack) THEN [ u.state EXCEPT ![w] = d ] ELSE u.state, u.inputMethod)
  BY <1>2, <1>4, <1>7, MeantState
<1>10. ToSet(stack) \subseteq Windows
  BY <1>0 DEF Model!TypeOK, Model!Orders, ToSet
<1>11. ASSUME NEW y \in ToSet(stack') \ overtaken' PROVE Model!ToMirState[x.state[y]] = mirState'[y]
  <2>1. y \in Windows /\ y \in ToSet(stack)
    BY <1>5, <1>10
  <2>2. u.state \in [ Windows -> Model!States ] /\ mirState \in [ Windows -> Model!MirStates ]
    BY <1>0, <1>2 DEF SeenViews, Model!TypeOK
  <2>3. CASE y = w
    BY <1>2, <1>3, <1>5, <1>9, <2>1, <2>2, <2>3 DEF ViewOf
  <2>4. CASE y # w
    <3>1. y \in ToSet(stack) \ overtaken
      BY <1>5, <2>1, <2>4
    <3>2. Model!ToMirState[u.state[y]] = mirState[y]
      BY <1>1, <3>1 DEF Synced
    <3> QED
      BY <1>2, <1>5, <1>9, <2>1, <2>2, <2>4, <3>2 DEF ViewOf
  <2> QED
    BY <2>3, <2>4
<1>12. Synced(x)'
  BY <1>1, <1>5, <1>8, <1>9, <1>11 DEF Synced, ViewOf
<1>13. Model!TypeOK'
  BY <1>0, <1>3, <1>5, <1>8 DEF Model!TypeOK, Model!modelVars
<1>14. RequestIsRight'
  <2>1. SUFFICES ASSUME request # Model!NoRequest, request.window \in ToSet(stack) \ overtaken'
                 PROVE  request.same <=> Model!ToMirState[request.state] = mirState'[request.window]
    BY <1>5 DEF RequestIsRight
  <2>2. request.window # w
    BY <1>5, <2>1
  <2>3. request.window \in ToSet(stack) \ overtaken /\ request.window \in Windows
    BY <1>5, <1>10, <2>1, <2>2
  <2>4. mirState'[request.window] = mirState[request.window]
    BY <1>0, <1>5, <2>2, <2>3 DEF Model!TypeOK
  <2> QED
    BY <1>0, <2>1, <2>3, <2>4 DEF RequestIsRight
<1>15. NoticesLead'
  BY <1>8, <1>12 DEF NoticesLead
<1> QED
  BY <1>0, <1>5, <1>13, <1>14, <1>15 DEF ModelInv

LEMMA SelectNoneKeeps ==
  ASSUME Model!WindowsAssumption, ModelInv, Model!SelectNone
  PROVE  ModelInv'
<1>0. Model!TypeOK /\ RequestIsRight /\ readyWindows \subseteq ToSet(stack) /\ active \in ToSet(stack) \cup { NoWindow }
  BY DEF ModelInv
<1>1. PICK u : Reaches(Model!Seen, notices, u) /\ Synced(u)
  BY DEF ModelInv, NoticesLead
<1>2. u \in SeenViews /\ u.stack = stack
  BY <1>1 DEF Synced
<1>3. PICK n : n = << "focus", active, FALSE >>
  OBVIOUS
<1>4. /\ active # NoWindow /\ active' = NoWindow /\ Model!Post(<< n >>)
      /\ UNCHANGED << stack, inputWindows, readyWindows, Model!stateVars, request, Model!modelVars >>
  BY <1>3 DEF Model!SelectNone
<1>5. n \in Model!Notices /\ Applies(u, n)
  BY <1>0, <1>3, <1>4 DEF Model!Notices, Applies, Model!TypeOK
<1>6. PICK x : x = Model!Meant(u, n)
  OBVIOUS
<1>7. Reaches(Model!Seen', notices', x) /\ notices' \in Seq(Model!Notices) /\ x \in SeenViews
  BY <1>0, <1>1, <1>2, <1>4, <1>5, <1>6, OneKeeps
<1>8. ViewOf(x, u.stack, u.ready,
             IF active \notin ToSet(u.stack) THEN u.focused
             ELSE IF FALSE THEN u.focused \cup { active } ELSE u.focused \ { active }, u.state, u.inputMethod)
  <2>1. FALSE \in BOOLEAN
    OBVIOUS
  <2> QED
    BY <1>2, <1>3, <1>6, <2>1, MeantFocus
<1>9. active \in ToSet(u.stack)
  BY <1>0, <1>2, <1>4
<1>10. Synced(x)'
  BY <1>1, <1>4, <1>7, <1>8, <1>9 DEF Synced, ViewOf, Model!stateVars
<1>11. Model!TypeOK'
  BY <1>0, <1>4, <1>7 DEF Model!TypeOK, Model!modelVars, Model!stateVars
<1>12. RequestIsRight' /\ NoticesLead'
  BY <1>0, <1>4, <1>7, <1>10 DEF RequestIsRight, NoticesLead, Model!stateVars
<1> QED
  BY <1>0, <1>4, <1>11, <1>12 DEF ModelInv

(* A state that the shell asked for is told, and with it, if the window is  *)
(* activated, the focus and the raise.                                      *)
LEMMA ToldKeeps ==
  ASSUME Model!WindowsAssumption, Model!TypeOK, readyWindows \subseteq ToSet(stack),
         active \in ToSet(stack) \cup { NoWindow }, NEW before \in Seq(Model!Notices), NEW u, NEW v \in SeenViews,
         Reaches(Model!Seen, notices, u), Reaches(u, before, v),
         v.stack = stack, v.ready = readyWindows, v.focused = { active } \ { NoWindow },
         v.inputMethod \in inputWindows \cup { NoWindow },
         \A y \in ToSet(stack) \ overtaken' : Model!ToMirState[v.state[y]] = mirState'[y],
         NEW w \in ToSet(stack),
         \/ \E t \in Model!Trees(w) : Model!Select(w, t, before)
         \/ Model!Post(before) /\ UNCHANGED << stack, active >>,
         UNCHANGED << inputWindows, readyWindows, Model!modelVars >>
  PROVE  /\ notices' \in Seq(Model!Notices) /\ stack' \in Model!Orders /\ ToSet(stack') = ToSet(stack)
         /\ active' \in ToSet(stack) \cup { NoWindow } /\ NoticesLead'
<1>0. stack \in Seq(Windows) /\ IsInjective(stack) /\ ToSet(stack) \subseteq Windows
  BY SameRows DEF Model!TypeOK, Model!Orders, ToSet
<1>1. CASE \E t \in Model!Trees(w) : Model!Select(w, t, before)
  <2>1. PICK t \in Model!Trees(w) : Model!Select(w, t, before)
    BY <1>1
  <2>2. PICK a : a = IF active \in { w, NoWindow } THEN << >> ELSE << << "focus", active, FALSE >> >>
    OBVIOUS
  <2>3. PICK b : b = << << "focus", w, TRUE >>, << "raised", t >> >>
    OBVIOUS
  <2>4. PICK new : new = a \o b
    OBVIOUS
  <2>5. /\ new \in Seq(Model!Notices)
        /\ \E y \in SeenViews : Reaches(v, new, y) /\
              ViewOf(y, Model!OnTop(stack, t), v.ready, { w }, v.state, v.inputMethod)
    BY <2>2, <2>3, <2>4, Selected
  <2>6. PICK y \in SeenViews : /\ Reaches(v, new, y)
                           /\ ViewOf(y, Model!OnTop(stack, t), v.ready, { w }, v.state, v.inputMethod)
    BY <2>5
  <2>7. active' = w /\ stack' = Model!OnTop(stack, t) /\ Model!Post((before \o a) \o b)
    BY <2>1, <2>2, <2>3 DEF Model!Select
  <2>8. w # NoWindow /\ w \in Windows
    BY <1>0 DEF Model!WindowsAssumption
  <2>9. a \in Seq(Model!Notices) /\ b \in Seq(Model!Notices)
    <3>1. t \in Model!Orders
      BY TreesAre
    <3>2. active \notin { w, NoWindow } => << "focus", active, FALSE >> \in Model!Notices
      BY DEF Model!TypeOK, Model!Notices
    <3>3. << "focus", w, TRUE >> \in Model!Notices /\ << "raised", t >> \in Model!Notices
      BY <2>8, <3>1 DEF Model!Notices
    <3> QED
      BY <2>2, <2>3, <3>2, <3>3
  <2>10. (before \o a) \o b = before \o new
    BY <2>4, <2>9, ConcatAssociative
  <2>11. PICK all : all = before \o new
    OBVIOUS
  <2>12. all \in Seq(Model!Notices) /\ Reaches(u, all, y)
    BY <2>5, <2>6, <2>11, ReachesJoined, JoinedAt
  <2>13. Model!Post(all)
    BY <2>7, <2>10, <2>11
  <2>14. Reaches(Model!Seen', notices', y) /\ notices' \in Seq(Model!Notices)
    BY <2>12, <2>13, PostKeeps
  <2>15. /\ stack' \in Seq(Windows) /\ IsInjective(stack') /\ ToSet(stack') = ToSet(stack)
    BY <1>0, <2>7, TreesAre, OnTopIs
  <2>16. stack' \in Model!Orders
    BY <2>15, SameRows DEF Model!Orders
  <2>17. Synced(y)'
    BY <2>6, <2>7, <2>8, <2>15 DEF Synced, ViewOf
  <2> QED
    BY <2>7, <2>14, <2>15, <2>16, <2>17 DEF NoticesLead
<1>2. CASE Model!Post(before) /\ UNCHANGED << stack, active >>
  <2>1. Reaches(Model!Seen', notices', v) /\ notices' \in Seq(Model!Notices)
    BY <1>2, PostKeeps
  <2>2. Synced(v)'
    BY <1>2 DEF Synced
  <2> QED
    BY <1>2, <2>1, <2>2 DEF NoticesLead, Model!TypeOK
<1> QED
  BY <1>1, <1>2

LEMMA NoneIsNotices == << >> \in Seq(Model!Notices)
OBVIOUS

LEMMA ActivateKeeps ==
  ASSUME Model!WindowsAssumption, ModelInv, NEW w \in ToSet(stack),
         \E t \in Model!Trees(w) : Model!Select(w, t, << >>),
         UNCHANGED << inputWindows, readyWindows, Model!stateVars, request, Model!modelVars >>
  PROVE  ModelInv'
<1>0. Model!TypeOK /\ RequestIsRight /\ readyWindows \subseteq ToSet(stack) /\ active \in ToSet(stack) \cup { NoWindow }
  BY DEF ModelInv
<1>1. PICK u : Reaches(Model!Seen, notices, u) /\ Synced(u)
  BY DEF ModelInv, NoticesLead
<1>2. /\ u \in SeenViews /\ u.stack = stack /\ u.ready = readyWindows /\ u.focused = { active } \ { NoWindow }
      /\ u.inputMethod \in inputWindows \cup { NoWindow }
      /\ \A y \in ToSet(stack) \ overtaken : Model!ToMirState[u.state[y]] = mirState[y]
  BY <1>1 DEF Synced
<1>3. Reaches(u, << >>, u)
  BY <1>2, ReachesNone
<1>4. overtaken' = overtaken /\ mirState' = mirState
  BY DEF Model!stateVars
<1>5. \A y \in ToSet(stack) \ overtaken' : Model!ToMirState[u.state[y]] = mirState'[y]
  BY <1>2, <1>4
<1>6. PICK none : none = << >> /\ none \in Seq(Model!Notices)
  BY NoneIsNotices
<1>7. Reaches(u, none, u) /\ \E t \in Model!Trees(w) : Model!Select(w, t, none)
  BY <1>3, <1>6
<1>8. /\ notices' \in Seq(Model!Notices) /\ stack' \in Model!Orders /\ ToSet(stack') = ToSet(stack)
      /\ active' \in ToSet(stack) \cup { NoWindow } /\ NoticesLead'
  BY <1>0, <1>1, <1>2, <1>5, <1>6, <1>7, ToldKeeps
<1>9. Model!TypeOK'
  <2>1. ToSet(stack) \subseteq Windows
    BY <1>0 DEF Model!TypeOK, Model!Orders, ToSet
  <2> QED
    BY <1>0, <1>8, <2>1 DEF Model!TypeOK, Model!stateVars, Model!modelVars
<1>10. RequestIsRight'
  BY <1>0, <1>4, <1>8 DEF RequestIsRight
<1> QED
  BY <1>0, <1>8, <1>9, <1>10 DEF ModelInv

LEMMA RaiseKeeps ==
  ASSUME Model!WindowsAssumption, ModelInv, NEW w \in ToSet(stack), Model!RaiseWindow(w)
  PROVE  ModelInv'
<1>0. Model!TypeOK /\ RequestIsRight /\ readyWindows \subseteq ToSet(stack) /\ active \in ToSet(stack) \cup { NoWindow }
  BY DEF ModelInv
<1>1. PICK u : Reaches(Model!Seen, notices, u) /\ Synced(u)
  BY DEF ModelInv, NoticesLead
<1>2. /\ u \in SeenViews /\ u.stack = stack /\ u.ready = readyWindows /\ u.focused = { active } \ { NoWindow }
      /\ u.inputMethod \in inputWindows \cup { NoWindow }
      /\ \A y \in ToSet(stack) \ overtaken : Model!ToMirState[u.state[y]] = mirState[y]
  BY <1>1 DEF Synced
<1>3. PICK t \in Model!Trees(w) : Model!AdviseRaise(t)
  BY DEF Model!RaiseWindow
<1>4. UNCHANGED << inputWindows, readyWindows, active, Model!stateVars, request, Model!modelVars >>
  BY DEF Model!RaiseWindow
<1>5. t \in Model!Orders /\ t \in Seq(Windows) /\ IsInjective(t) /\ ToSet(t) \subseteq ToSet(stack) /\ t # << >>
  BY <1>0, TreesAre
<1>6. PICK n : n = << "raised", t >>
  OBVIOUS
<1>7. stack' = Model!OnTop(stack, t) /\ Model!Post(<< n >>)
  BY <1>3, <1>6 DEF Model!AdviseRaise
<1>8. n \in Model!Notices /\ Applies(u, n)
  BY <1>2, <1>5, <1>6 DEF Model!Notices, Applies
<1>9. PICK x : x = Model!Meant(u, n)
  OBVIOUS
<1>10. Reaches(Model!Seen', notices', x) /\ notices' \in Seq(Model!Notices) /\ x \in SeenViews
  BY <1>0, <1>1, <1>2, <1>4, <1>7, <1>8, <1>9, OneKeeps
<1>11. ViewOf(x, Model!OnTop(u.stack, t), u.ready, u.focused, u.state, u.inputMethod)
  BY <1>2, <1>6, <1>9, MeantRaised
<1>12. stack \in Seq(Windows) /\ IsInjective(stack) /\ ToSet(stack) \subseteq Windows
  BY <1>0, SameRows DEF Model!TypeOK, Model!Orders, ToSet
<1>13. stack' \in Seq(Windows) /\ IsInjective(stack') /\ ToSet(stack') = ToSet(stack)
  BY <1>5, <1>7, <1>12, OnTopIs
<1>14. stack' \in Model!Orders
  BY <1>13, SameRows DEF Model!Orders
<1>15. overtaken' = overtaken /\ mirState' = mirState
  BY <1>4 DEF Model!stateVars
<1>16. Synced(x)'
  BY <1>2, <1>4, <1>7, <1>10, <1>11, <1>13, <1>15 DEF Synced, ViewOf
<1>17. Model!TypeOK'
  BY <1>0, <1>4, <1>10, <1>14 DEF Model!TypeOK, Model!stateVars, Model!modelVars
<1>18. RequestIsRight' /\ NoticesLead'
  BY <1>0, <1>4, <1>10, <1>13, <1>15, <1>16 DEF RequestIsRight, NoticesLead
<1> QED
  BY <1>0, <1>4, <1>13, <1>17, <1>18 DEF ModelInv

(* requestState() reads and sets a state, and tells nobody yet.             *)
LEMMA BeginKeeps ==
  ASSUME Model!WindowsAssumption, ModelInv, NEW w \in ToSet(stack), NEW s \in Model!States, NEW b \in BOOLEAN,
         Model!BeginRequest(w, s, b),
         UNCHANGED << stack, inputWindows, readyWindows, active, mirState, notices, overtaken, Model!modelVars >>
  PROVE  ModelInv'
<1>0. Model!TypeOK /\ readyWindows \subseteq ToSet(stack) /\ active \in ToSet(stack) \cup { NoWindow }
  BY DEF ModelInv
<1>1. w \in Windows
  BY <1>0 DEF Model!TypeOK, Model!Orders, ToSet
<1>2. /\ request' = [ window |-> w, state |-> s, same |-> Model!ToMirState[s] = mirState[w], activate |-> b ]
      /\ previousState' = [ previousState EXCEPT ![w] = extraState[w] ]
      /\ extraState' = [ extraState EXCEPT ![w] = s ]
  BY DEF Model!BeginRequest
<1>3. Model!TypeOK'
  BY <1>0, <1>1, <1>2 DEF Model!TypeOK, Model!RequestRecord, Model!modelVars
<1>4. Model!Seen' = Model!Seen
  BY DEF Model!Seen, Model!modelVars
<1>5. NoticesLead'
  <2>1. PICK u : Reaches(Model!Seen, notices, u) /\ Synced(u)
    BY DEF ModelInv, NoticesLead
  <2>2. Synced(u)'
    BY <2>1 DEF Synced
  <2> QED
    BY <1>4, <2>1, <2>2 DEF NoticesLead
<1>6. RequestIsRight'
  BY <1>2 DEF RequestIsRight
<1> QED
  BY <1>0, <1>3, <1>5, <1>6 DEF ModelInv

(* The end of requestState(): what it tells, when the window is still there.*)
LEMMA FinishToldKeeps ==
  ASSUME Model!WindowsAssumption, ModelInv, NEW news \in Seq(Model!Notices), NEW u, NEW v \in SeenViews,
         Reaches(Model!Seen, notices, u), Synced(u), Reaches(u, news, v),
         NEW d, ViewOf(v, u.stack, u.ready, u.focused, d, u.inputMethod),
         \A y \in ToSet(stack) \ overtaken' : Model!ToMirState[d[y]] = mirState'[y],
         NEW w \in ToSet(stack),
         IF request.activate THEN \E t \in Model!Trees(w) : Model!Select(w, t, news)
         ELSE Model!Post(news) /\ UNCHANGED << stack, active >>,
         request' = Model!NoRequest, mirState' \in [ Windows -> Model!MirStates ],
         extraState' \in [ Windows -> Model!States ], overtaken' \subseteq Windows,
         UNCHANGED << inputWindows, readyWindows, previousState, Model!modelVars >>
  PROVE  ModelInv'
<1>0. Model!TypeOK /\ readyWindows \subseteq ToSet(stack) /\ active \in ToSet(stack) \cup { NoWindow }
  BY DEF ModelInv
<1>1. /\ v.stack = stack /\ v.ready = readyWindows /\ v.focused = { active } \ { NoWindow }
      /\ v.inputMethod \in inputWindows \cup { NoWindow } /\ v.state = d
  BY DEF Synced, ViewOf
<1>2. \/ \E t \in Model!Trees(w) : Model!Select(w, t, news)
      \/ Model!Post(news) /\ UNCHANGED << stack, active >>
  OBVIOUS
<1>3. \A y \in ToSet(stack) \ overtaken' : Model!ToMirState[v.state[y]] = mirState'[y]
  BY <1>1
<1>4. /\ notices' \in Seq(Model!Notices) /\ stack' \in Model!Orders /\ ToSet(stack') = ToSet(stack)
      /\ active' \in ToSet(stack) \cup { NoWindow } /\ NoticesLead'
  BY <1>0, <1>1, <1>2, <1>3, ToldKeeps
<1>5. ToSet(stack) \subseteq Windows
  BY <1>0 DEF Model!TypeOK, Model!Orders, ToSet
<1>6. Model!TypeOK'
  BY <1>0, <1>4, <1>5 DEF Model!TypeOK, Model!modelVars, Model!NoRequest, Model!RequestRecord, Model!States
<1>7. RequestIsRight'
  BY DEF RequestIsRight
<1> QED
  BY <1>0, <1>4, <1>6, <1>7 DEF ModelInv

LEMMA FinishKeeps ==
  ASSUME Model!WindowsAssumption, ModelInv, Model!FinishRequest
  PROVE  ModelInv'
<1>0. Model!TypeOK /\ RequestIsRight /\ readyWindows \subseteq ToSet(stack) /\ active \in ToSet(stack) \cup { NoWindow }
  BY DEF ModelInv
<1>1. PICK u : Reaches(Model!Seen, notices, u) /\ Synced(u)
  BY DEF ModelInv, NoticesLead
<1>2. /\ u \in SeenViews /\ u.stack = stack /\ \A y \in ToSet(stack) \ overtaken : Model!ToMirState[u.state[y]] = mirState[y]
      /\ u.state \in [ Windows -> Model!States ]
  BY <1>1 DEF Synced, SeenViews
<1>3. PICK w : w = request.window
  OBVIOUS
<1>4. PICK s : s = Model!ToMirState[request.state]
  OBVIOUS
<1>5. /\ request # Model!NoRequest /\ request' = Model!NoRequest
      /\ UNCHANGED << inputWindows, readyWindows, previousState, Model!modelVars >>
  BY DEF Model!FinishRequest
<1>6. /\ request.state \in Model!States /\ s \in Model!MirStates
      /\ mirState \in [ Windows -> Model!MirStates ] /\ extraState \in [ Windows -> Model!States ]
      /\ overtaken \subseteq Windows /\ ToSet(stack) \subseteq Windows
  <2>1. request.state \in Model!States /\ ToSet(stack) \subseteq Windows
    BY <1>0 DEF Model!TypeOK, Model!RequestRecord, Model!Orders, ToSet
  <2> QED
    BY <1>0, <1>4, <2>1 DEF Model!TypeOK, Model!States, Model!MirStates, Model!ToMirState
<1>7. ASSUME w \in ToSet(stack), NEW d \in Model!States, Model!ToMirState[d] = mirState'[w] \/ w \in overtaken',
             IF request.activate THEN \E t \in Model!Trees(w) : Model!Select(w, t, << << "state", w, d >> >>)
             ELSE Model!Post(<< << "state", w, d >> >>) /\ UNCHANGED << stack, active >>,
             overtaken' \subseteq Windows, overtaken \subseteq overtaken' \cup { w },
             mirState' \in [ Windows -> Model!MirStates ], \A y \in Windows \ { w } : mirState'[y] = mirState[y],
             extraState' \in [ Windows -> Model!States ]
      PROVE  ModelInv'
  <2>1. PICK n : n = << "state", w, d >>
    OBVIOUS
  <2>2. n \in Model!Notices /\ Applies(u, n)
    BY <1>6, <1>7, <2>1 DEF Model!Notices, Applies
  <2>3. << n >> \in Seq(Model!Notices)
    BY <2>2
  <2>4. PICK news : news = << n >> /\ news \in Seq(Model!Notices)
    BY <2>3, Zenon
  <2>5. PICK v \in SeenViews : v = Model!Meant(u, n)
    BY <1>2, <2>2, MeantTyped
  <2>6. Reaches(u, news, v)
    BY <1>2, <2>2, <2>4, <2>5, ReachesOne
  <2>7. PICK e : e = [ u.state EXCEPT ![w] = d ]
    OBVIOUS
  <2>8. ViewOf(v, u.stack, u.ready, u.focused, e, u.inputMethod)
    <3>1. ViewOf(v, u.stack, u.ready, u.focused,
                 IF w \in ToSet(u.stack) THEN [ u.state EXCEPT ![w] = d ] ELSE u.state, u.inputMethod)
      BY <1>2, <1>6, <1>7, <2>1, <2>5, MeantState
    <3> QED
      BY <1>2, <1>7, <2>7, <3>1
  <2>9. ASSUME NEW y \in ToSet(stack) \ overtaken' PROVE Model!ToMirState[e[y]] = mirState'[y]
    <3>1. CASE y = w
      BY <1>2, <1>6, <1>7, <2>7, <3>1
    <3>2. CASE y # w
      BY <1>2, <1>6, <1>7, <2>7, <3>2
    <3> QED
      BY <3>1, <3>2
  <2>10. IF request.activate THEN \E t \in Model!Trees(w) : Model!Select(w, t, news)
         ELSE Model!Post(news) /\ UNCHANGED << stack, active >>
    BY <1>7, <2>1, <2>4
  <2> QED
    BY <1>1, <1>5, <1>7, <2>4, <2>5, <2>6, <2>8, <2>9, <2>10, FinishToldKeeps
<1>8. CASE /\ w \in ToSet(stack) /\ request.same
           /\ IF request.activate
                THEN \E t \in Model!Trees(w) : Model!Select(w, t, << << "state", w, request.state >> >>)
                ELSE Model!Post(<< << "state", w, request.state >> >>) /\ UNCHANGED << stack, active >>
           /\ UNCHANGED << mirState, extraState, overtaken >>
  <2>1. Model!ToMirState[request.state] = mirState'[w] \/ w \in overtaken'
    BY <1>0, <1>3, <1>5, <1>8 DEF RequestIsRight
  <2> QED
    BY <1>6, <1>7, <1>8, <2>1
<1>9. CASE /\ w \in ToSet(stack) /\ Model!AdviseStateChange(w, s)
           /\ IF request.activate
                THEN \E t \in Model!Trees(w) : Model!Select(w, t, << << "state", w, Model!AdvisedState(w, s) >> >>)
                ELSE Model!Post(<< << "state", w, Model!AdvisedState(w, s) >> >>) /\ UNCHANGED << stack, active >>
           /\ overtaken' = overtaken \ { w }
  <2>1. w \in Windows
    BY <1>6, <1>9
  <2>2. PICK d \in Model!States : d = Model!AdvisedState(w, s) /\ Model!ToMirState[d] = s
    BY <1>0, <1>6, <2>1, Advised
  <2>3. mirState' = [ mirState EXCEPT ![w] = s ] /\ extraState' = [ extraState EXCEPT ![w] = d ]
    BY <1>9, <2>2 DEF Model!AdviseStateChange
  <2>4. /\ mirState' \in [ Windows -> Model!MirStates ] /\ \A y \in Windows \ { w } : mirState'[y] = mirState[y]
        /\ extraState' \in [ Windows -> Model!States ] /\ mirState'[w] = s
    BY <1>6, <2>1, <2>2, <2>3
  <2> QED
    BY <1>6, <1>7, <1>9, <2>2, <2>4
<1>10. CASE /\ w \in ToSet(stack)
            /\ IF request.activate THEN \E t \in Model!Trees(w) : Model!Select(w, t, << >>)
               ELSE Model!Post(<< >>) /\ UNCHANGED << stack, active >>
            /\ UNCHANGED << mirState, extraState, overtaken >>
  <2>1. PICK news : news = << >> /\ news \in Seq(Model!Notices)
    BY NoneIsNotices
  <2>2. Reaches(u, news, u)
    BY <1>2, <2>1, ReachesNone
  <2>3. PICK e : e = u.state
    OBVIOUS
  <2>4. ViewOf(u, u.stack, u.ready, u.focused, e, u.inputMethod)
    BY <2>3 DEF ViewOf
  <2>5. \A y \in ToSet(stack) \ overtaken' : Model!ToMirState[e[y]] = mirState'[y]
    BY <1>2, <1>10, <2>3
  <2>6. IF request.activate THEN \E t \in Model!Trees(w) : Model!Select(w, t, news)
         ELSE Model!Post(news) /\ UNCHANGED << stack, active >>
    BY <1>10, <2>1
  <2> QED
    BY <1>1, <1>2, <1>5, <1>6, <1>10, <2>1, <2>2, <2>4, <2>5, <2>6, FinishToldKeeps
<1>11. CASE UNCHANGED << stack, active, mirState, extraState, overtaken, notices >>
  <2>1. Model!Seen' = Model!Seen
    BY <1>5 DEF Model!Seen, Model!modelVars
  <2>2. Synced(u)'
    BY <1>1, <1>5, <1>11 DEF Synced
  <2>3. Model!TypeOK'
    BY <1>0, <1>5, <1>11 DEF Model!TypeOK, Model!modelVars, Model!NoRequest, Model!RequestRecord, Model!States
  <2>4. RequestIsRight' /\ NoticesLead'
    BY <1>1, <1>5, <1>11, <2>1, <2>2 DEF RequestIsRight, NoticesLead
  <2> QED
    BY <1>0, <1>5, <1>11, <2>3, <2>4 DEF ModelInv
<1> QED
  BY <1>3, <1>4, <1>8, <1>9, <1>10, <1>11, SameRows DEF Model!FinishRequest
------------------------------------------------------------------------------
(* A notice that is heard.                                                  *)

StackStep == Model!Stacking!Next \/ rows' = rows

SeenTypedNext ==
  /\ rows' \in Model!Orders /\ shown' \in [ Windows -> Model!SurfaceRecord ]
  /\ inputMethod' \in InputMethods \cup { NoWindow }

LEMMA HeardIs ==
  ASSUME SeenTypedNext, NEW m \in SeenViews, NEW r, NEW f, NEW d,
         ViewOf(m, rows', r, f, d, inputMethod'),
         r = { w \in Windows : shown'[w].ready }, f = { w \in Windows : shown'[w].focused },
         d = [ w \in Windows |-> shown'[w].state ]
  PROVE  Model!Seen' = m
<1>1. PICK x : x = Model!Seen'
  OBVIOUS
<1>2. ViewOf(x, rows', r, f, d, inputMethod')
  BY <1>1 DEF ViewOf, Model!Seen
<1>3. x \in SeenViews
  BY <1>1 DEF SeenTypedNext, Model!Seen, SeenViews, Model!SurfaceRecord, Model!Orders
<1>4. ViewOf(x, m.stack, m.ready, m.focused, m.state, m.inputMethod)
  BY <1>2 DEF ViewOf
<1> QED
  BY <1>1, <1>3, <1>4, SameView

LEMMA AddedHeard ==
  ASSUME Model!WindowsAssumption, Model!TypeOK, NEW w \in Windows, w \notin ToSet(rows), Model!OnWindowAdded(w)
  PROVE  SeenTypedNext /\ StackStep /\ Model!Seen' = Model!Meant(Model!Seen, << "added", w >>)
<1>1. PICK v \in SeenViews : v = Model!Seen
  BY SeenTyped
<1>2. /\ rows' = Append(rows, w) /\ shown' = [ shown EXCEPT ![w] = Model!NewSurface ]
      /\ inputMethod' = inputMethod
  BY DEF Model!OnWindowAdded, Model!WindowsAssumption
<1>3. rows \in Seq(Windows) /\ IsInjective(rows)
  BY SameRows DEF Model!TypeOK, Model!Orders
<1>4. rows' \in Seq(Windows) /\ IsInjective(rows')
  BY <1>2, <1>3, Appended
<1>5. SeenTypedNext
  BY <1>2, <1>4, SameRows DEF Model!TypeOK, SeenTypedNext, Model!Orders, Model!NewSurface, Model!SurfaceRecord, Model!States
<1>6. PICK m \in SeenViews : m = Model!Meant(v, << "added", w >>)
  <2>1. << "added", w >> \in Model!Notices
    BY DEF Model!Notices
  <2> QED
    BY <2>1, MeantTyped
<1>7. ViewOf(m, Append(v.stack, w), v.ready \ { w }, v.focused \ { w }, [ v.state EXCEPT ![w] = "Restored" ], v.inputMethod)
  BY <1>6, MeantAdded
<1>8. /\ v.stack = rows /\ v.inputMethod = inputMethod
      /\ v.ready \ { w } = { x \in Windows : shown'[x].ready }
      /\ v.focused \ { w } = { x \in Windows : shown'[x].focused }
      /\ [ v.state EXCEPT ![w] = "Restored" ] = [ x \in Windows |-> shown'[x].state ]
  BY <1>1, <1>2 DEF Model!Seen, Model!TypeOK, Model!NewSurface
<1>9. Model!Seen' = m
  BY <1>2, <1>5, <1>7, <1>8, HeardIs
<1>10. Model!Stacking!Next
  <2>1. ~ Model!Stacking!Contains(rows, w)
    BY <1>3 DEF Model!Stacking!Contains, ToSet
  <2>2. Model!Stacking!Added(w)
    BY <1>2, <2>1 DEF Model!Stacking!Added
  <2> QED
    BY <2>2 DEF Model!Stacking!Next
<1> QED
  BY <1>1, <1>5, <1>6, <1>9, <1>10 DEF StackStep

LEMMA RemovedHeard ==
  ASSUME Model!WindowsAssumption, Model!TypeOK, NEW w \in Windows, w \in ToSet(rows), Model!OnWindowRemoved(w)
  PROVE  SeenTypedNext /\ StackStep /\ Model!Seen' = Model!Meant(Model!Seen, << "removed", w >>)
<1>1. PICK v \in SeenViews : v = Model!Seen
  BY SeenTyped
<1>2. /\ rows' = Model!RemoveAt(rows, Model!IndexIn(rows, w)) /\ shown' = [ shown EXCEPT ![w] = Model!NewSurface ]
      /\ inputMethod' = inputMethod
  BY DEF Model!OnWindowRemoved, Model!WindowsAssumption, Model!FindIndexOf
<1>3. rows \in Seq(Windows) /\ IsInjective(rows)
  BY SameRows DEF Model!TypeOK, Model!Orders
<1>4. rows' = Without(rows, { w })
  BY <1>2, <1>3, RowRemoved
<1>5. rows' \in Seq(Windows) /\ IsInjective(rows')
  BY <1>3, <1>4, Without_
<1>6. SeenTypedNext
  BY <1>2, <1>5, SameRows DEF Model!TypeOK, SeenTypedNext, Model!Orders, Model!NewSurface, Model!SurfaceRecord, Model!States
<1>7. PICK m \in SeenViews : m = Model!Meant(v, << "removed", w >>)
  <2>1. << "removed", w >> \in Model!Notices
    BY DEF Model!Notices
  <2> QED
    BY <2>1, MeantTyped
<1>8. ViewOf(m, Without(v.stack, { w }), v.ready \ { w }, v.focused \ { w }, [ v.state EXCEPT ![w] = "Restored" ], v.inputMethod)
  BY <1>7, MeantRemoved
<1>9. /\ v.stack = rows /\ v.inputMethod = inputMethod
      /\ v.ready \ { w } = { x \in Windows : shown'[x].ready }
      /\ v.focused \ { w } = { x \in Windows : shown'[x].focused }
      /\ [ v.state EXCEPT ![w] = "Restored" ] = [ x \in Windows |-> shown'[x].state ]
  BY <1>1, <1>2 DEF Model!Seen, Model!TypeOK, Model!NewSurface
<1>a. ViewOf(m, rows', v.ready \ { w }, v.focused \ { w }, [ v.state EXCEPT ![w] = "Restored" ], inputMethod')
  BY <1>2, <1>4, <1>8, <1>9
<1>10. Model!Seen' = m
  BY <1>6, <1>9, <1>a, HeardIs
<1>11. Model!Stacking!Next
  <2>1. Model!Stacking!Contains(rows, w)
    BY <1>3 DEF Model!Stacking!Contains, ToSet
  <2>2. Model!Stacking!Removed(w)
    BY <1>4, <2>1, SameRows DEF Model!Stacking!Removed
  <2> QED
    BY <2>2 DEF Model!Stacking!Next
<1> QED
  BY <1>1, <1>6, <1>7, <1>10, <1>11 DEF StackStep

LEMMA InputMethodHeard ==
  ASSUME Model!WindowsAssumption, Model!TypeOK, NEW w \in InputMethods
  PROVE  /\ Model!OnWindowAdded(w) =>
              SeenTypedNext /\ StackStep /\ Model!Seen' = Model!Meant(Model!Seen, << "added", w >>)
         /\ Model!OnWindowRemoved(w) =>
              SeenTypedNext /\ StackStep /\ Model!Seen' = Model!Meant(Model!Seen, << "removed", w >>)
<1>0. w \notin Windows
  BY DEF Model!WindowsAssumption
<1>1. PICK v \in SeenViews : v = Model!Seen
  BY SeenTyped
<1>2. /\ v.stack = rows /\ v.ready = { x \in Windows : shown[x].ready }
      /\ v.focused = { x \in Windows : shown[x].focused } /\ v.state = [ x \in Windows |-> shown[x].state ]
  BY <1>1 DEF Model!Seen
<1>3. PICK a : a = << "added", w >>
  OBVIOUS
<1>4. PICK r : r = << "removed", w >>
  OBVIOUS
<1>5. a \in Model!Notices /\ r \in Model!Notices
  BY <1>3, <1>4 DEF Model!Notices
<1>6. /\ Model!Meant(v, a) \in SeenViews /\ Model!Meant(v, r) \in SeenViews
      /\ ViewOf(Model!Meant(v, a), v.stack, v.ready, v.focused, v.state, w)
      /\ ViewOf(Model!Meant(v, r), v.stack, v.ready, v.focused, v.state, NoWindow)
  BY <1>3, <1>4, <1>5, MeantTyped, MeantInput
<1>7. ASSUME Model!OnWindowAdded(w)
      PROVE  SeenTypedNext /\ StackStep /\ Model!Seen' = Model!Meant(Model!Seen, a)
  <2>1. rows' = rows /\ shown' = shown /\ inputMethod' = w
    BY <1>0, <1>7 DEF Model!OnWindowAdded, Model!AddInputMethodWindow
  <2>2. SeenTypedNext
    BY <2>1 DEF SeenTypedNext, Model!TypeOK
  <2>3. Model!Seen' = Model!Meant(v, a)
    BY <1>2, <1>6, <2>1, <2>2, HeardIs
  <2> QED
    BY <1>1, <2>1, <2>2, <2>3 DEF StackStep
<1>8. ASSUME Model!OnWindowRemoved(w)
      PROVE  SeenTypedNext /\ StackStep /\ Model!Seen' = Model!Meant(Model!Seen, r)
  <2>1. rows' = rows /\ shown' = shown /\ inputMethod' = NoWindow
    BY <1>0, <1>8 DEF Model!OnWindowRemoved, Model!RemoveInputMethodWindow
  <2>2. SeenTypedNext
    BY <2>1 DEF SeenTypedNext, Model!TypeOK
  <2>3. Model!Seen' = Model!Meant(v, r)
    BY <1>2, <1>6, <2>1, <2>2, HeardIs
  <2> QED
    BY <1>1, <2>1, <2>2, <2>3 DEF StackStep
<1> QED
  BY <1>3, <1>4, <1>7, <1>8

(* A row that is shown otherwise.                                           *)
LEMMA ShowIs ==
  ASSUME Model!TypeOK, NEW w \in Windows, NEW new \in Model!SurfaceRecord, Model!Show(w, new)
  PROVE  /\ SeenTypedNext /\ StackStep /\ UNCHANGED << rows, inputMethod >>
         /\ shown' = IF w \in ToSet(rows) THEN [ shown EXCEPT ![w] = new ] ELSE shown
<1>1. rows \in Seq(Windows)
  BY DEF Model!TypeOK, Model!Orders
<1>2. Model!IndexIn(rows, w) = 0 <=> w \notin ToSet(rows)
  BY <1>1, IndexIs
<1> QED
  BY <1>2 DEF Model!TypeOK, Model!Show, Model!FindIndexOf, SeenTypedNext, StackStep

LEMMA ReadyHeard ==
  ASSUME Model!WindowsAssumption, Model!TypeOK, NEW w \in Windows \cup InputMethods, Model!OnWindowReady(w)
  PROVE  SeenTypedNext /\ StackStep /\ Model!Seen' = Model!Meant(Model!Seen, << "ready", w >>)
<1>1. PICK v \in SeenViews : v = Model!Seen
  BY SeenTyped
<1>2. /\ v.stack = rows /\ v.ready = { x \in Windows : shown[x].ready } /\ v.inputMethod = inputMethod
      /\ v.focused = { x \in Windows : shown[x].focused } /\ v.state = [ x \in Windows |-> shown[x].state ]
  BY <1>1 DEF Model!Seen
<1>3. PICK m \in SeenViews : m = Model!Meant(v, << "ready", w >>)
  <2>1. << "ready", w >> \in Model!Notices
    BY DEF Model!Notices
  <2> QED
    BY <2>1, MeantTyped
<1>4. ViewOf(m, v.stack, IF w \in ToSet(v.stack) THEN v.ready \cup { w } ELSE v.ready, v.focused, v.state, v.inputMethod)
  BY <1>3, MeantReady
<1>5. shown \in [ Windows -> Model!SurfaceRecord ] /\ rows \in Seq(Windows)
  BY DEF Model!TypeOK, Model!Orders
<1>6. CASE w \in Windows
  <2>1. PICK new : new = [ shown[w] EXCEPT !.ready = TRUE ]
    OBVIOUS
  <2>2. new \in Model!SurfaceRecord /\ new.ready = TRUE /\ new.focused = shown[w].focused /\ new.state = shown[w].state
    BY <1>5, <1>6, <2>1 DEF Model!SurfaceRecord
  <2>3. Model!Show(w, new)
    BY <2>1 DEF Model!OnWindowReady
  <2>4. /\ SeenTypedNext /\ StackStep /\ UNCHANGED << rows, inputMethod >>
        /\ shown' = IF w \in ToSet(rows) THEN [ shown EXCEPT ![w] = new ] ELSE shown
    BY <1>6, <2>2, <2>3, ShowIs
  <2>5. /\ (IF w \in ToSet(v.stack) THEN v.ready \cup { w } ELSE v.ready) = { x \in Windows : shown'[x].ready }
        /\ v.focused = { x \in Windows : shown'[x].focused } /\ v.state = [ x \in Windows |-> shown'[x].state ]
    BY <1>2, <1>5, <1>6, <2>2, <2>4
  <2>6. Model!Seen' = m
    BY <1>2, <1>4, <2>4, <2>5, HeardIs
  <2> QED
    BY <1>1, <1>3, <2>4, <2>6
<1>7. CASE w \notin Windows
  <2>1. w \notin ToSet(rows)
    BY <1>5, <1>7 DEF ToSet
  <2>2. Model!IndexIn(rows, w) = 0
    BY <1>5, <2>1, IndexIs
  <2>3. UNCHANGED << rows, shown, inputMethod >>
    BY <2>2 DEF Model!OnWindowReady, Model!Show, Model!FindIndexOf
  <2>4. SeenTypedNext
    BY <2>3 DEF SeenTypedNext, Model!TypeOK
  <2>5. (IF w \in ToSet(v.stack) THEN v.ready \cup { w } ELSE v.ready) = v.ready
    BY <1>2, <2>1
  <2>6. ViewOf(m, v.stack, v.ready, v.focused, v.state, v.inputMethod)
    BY <1>4, <2>5
  <2>7. Model!Seen' = m
    BY <1>2, <2>3, <2>4, <2>6, HeardIs
  <2> QED
    BY <1>1, <1>3, <2>3, <2>4, <2>7 DEF StackStep
<1> QED
  BY <1>6, <1>7
LEMMA FocusHeard ==
  ASSUME Model!WindowsAssumption, Model!TypeOK, NEW w \in Windows, NEW b \in BOOLEAN,
         Model!Show(w, [ shown[w] EXCEPT !.focused = b ])
  PROVE  SeenTypedNext /\ StackStep /\ Model!Seen' = Model!Meant(Model!Seen, << "focus", w, b >>)
<1>1. PICK v \in SeenViews : v = Model!Seen
  BY SeenTyped
<1>2. /\ v.stack = rows /\ v.ready = { x \in Windows : shown[x].ready } /\ v.inputMethod = inputMethod
      /\ v.focused = { x \in Windows : shown[x].focused } /\ v.state = [ x \in Windows |-> shown[x].state ]
  BY <1>1 DEF Model!Seen
<1>3. PICK m \in SeenViews : m = Model!Meant(v, << "focus", w, b >>)
  <2>1. << "focus", w, b >> \in Model!Notices
    BY DEF Model!Notices
  <2> QED
    BY <2>1, MeantTyped
<1>4. PICK f : f = IF w \notin ToSet(v.stack) THEN v.focused
                   ELSE IF b THEN v.focused \cup { w } ELSE v.focused \ { w }
  OBVIOUS
<1>5. ViewOf(m, v.stack, v.ready, f, v.state, v.inputMethod)
  BY <1>3, <1>4, MeantFocus
<1>6. shown \in [ Windows -> Model!SurfaceRecord ]
  BY DEF Model!TypeOK
<1>7. PICK new : new = [ shown[w] EXCEPT !.focused = b ]
  OBVIOUS
<1>8. new \in Model!SurfaceRecord /\ new.focused = b /\ new.ready = shown[w].ready /\ new.state = shown[w].state
  BY <1>6, <1>7 DEF Model!SurfaceRecord
<1>9. /\ SeenTypedNext /\ StackStep /\ UNCHANGED << rows, inputMethod >>
      /\ shown' = IF w \in ToSet(rows) THEN [ shown EXCEPT ![w] = new ] ELSE shown
  BY <1>7, <1>8, ShowIs
<1>10. /\ v.ready = { x \in Windows : shown'[x].ready }
       /\ f = { x \in Windows : shown'[x].focused } /\ v.state = [ x \in Windows |-> shown'[x].state ]
  BY <1>2, <1>4, <1>6, <1>8, <1>9
<1>11. Model!Seen' = m
  BY <1>2, <1>5, <1>9, <1>10, HeardIs
<1> QED
  BY <1>1, <1>3, <1>9, <1>11

LEMMA StateHeard ==
  ASSUME Model!WindowsAssumption, Model!TypeOK, NEW w \in Windows, NEW s \in Model!States,
         Model!Show(w, [ shown[w] EXCEPT !.state = s ])
  PROVE  SeenTypedNext /\ StackStep /\ Model!Seen' = Model!Meant(Model!Seen, << "state", w, s >>)
<1>1. PICK v \in SeenViews : v = Model!Seen
  BY SeenTyped
<1>2. /\ v.stack = rows /\ v.ready = { x \in Windows : shown[x].ready } /\ v.inputMethod = inputMethod
      /\ v.focused = { x \in Windows : shown[x].focused } /\ v.state = [ x \in Windows |-> shown[x].state ]
  BY <1>1 DEF Model!Seen
<1>3. PICK m \in SeenViews : m = Model!Meant(v, << "state", w, s >>)
  <2>1. << "state", w, s >> \in Model!Notices
    BY DEF Model!Notices
  <2> QED
    BY <2>1, MeantTyped
<1>4. PICK d : d = IF w \in ToSet(v.stack) THEN [ v.state EXCEPT ![w] = s ] ELSE v.state
  OBVIOUS
<1>5. ViewOf(m, v.stack, v.ready, v.focused, d, v.inputMethod)
  BY <1>3, <1>4, MeantState
<1>6. shown \in [ Windows -> Model!SurfaceRecord ]
  BY DEF Model!TypeOK
<1>7. PICK new : new = [ shown[w] EXCEPT !.state = s ]
  OBVIOUS
<1>8. new \in Model!SurfaceRecord /\ new.state = s /\ new.ready = shown[w].ready /\ new.focused = shown[w].focused
  BY <1>6, <1>7 DEF Model!SurfaceRecord
<1>9. /\ SeenTypedNext /\ StackStep /\ UNCHANGED << rows, inputMethod >>
      /\ shown' = IF w \in ToSet(rows) THEN [ shown EXCEPT ![w] = new ] ELSE shown
  BY <1>7, <1>8, ShowIs
<1>10. /\ v.ready = { x \in Windows : shown'[x].ready }
       /\ v.focused = { x \in Windows : shown'[x].focused } /\ d = [ x \in Windows |-> shown'[x].state ]
  BY <1>2, <1>4, <1>6, <1>8, <1>9
<1>11. Model!Seen' = m
  BY <1>2, <1>5, <1>9, <1>10, HeardIs
<1> QED
  BY <1>1, <1>3, <1>9, <1>11

LEMMA RaisedHeard ==
  ASSUME Model!WindowsAssumption, Model!TypeOK, NEW t \in Model!Orders, t # << >>, ToSet(t) \subseteq ToSet(rows),
         Model!OnWindowsRaised(t)
  PROVE  SeenTypedNext /\ StackStep /\ Model!Seen' = Model!Meant(Model!Seen, << "raised", t >>)
<1>1. PICK v \in SeenViews : v = Model!Seen
  BY SeenTyped
<1>2. /\ v.stack = rows /\ v.ready = { x \in Windows : shown[x].ready } /\ v.inputMethod = inputMethod
      /\ v.focused = { x \in Windows : shown[x].focused } /\ v.state = [ x \in Windows |-> shown[x].state ]
  BY <1>1 DEF Model!Seen
<1>3. rows \in Seq(Windows) /\ IsInjective(rows) /\ t \in Seq(Windows) /\ IsInjective(t)
  BY SameRows DEF Model!TypeOK, Model!Orders
<1>4. rows' = Model!OnTop(rows, t) /\ Len(t) <= Len(rows) /\ UNCHANGED << shown, inputMethod >>
  BY <1>3, MovedIsOnTop DEF Model!OnWindowsRaised
<1>5. rows' \in Seq(Windows) /\ IsInjective(rows')
  BY <1>3, <1>4, OnTopIs
<1>6. SeenTypedNext
  BY <1>4, <1>5, SameRows DEF SeenTypedNext, Model!TypeOK, Model!Orders
<1>7. PICK m \in SeenViews : m = Model!Meant(v, << "raised", t >>)
  <2>1. << "raised", t >> \in Model!Notices
    BY DEF Model!Notices
  <2> QED
    BY <2>1, MeantTyped
<1>8. ViewOf(m, Model!OnTop(v.stack, t), v.ready, v.focused, v.state, v.inputMethod)
  BY <1>7, MeantRaised
<1>9. Model!Seen' = m
  BY <1>2, <1>4, <1>6, <1>8, HeardIs
<1>10. Model!Stacking!Next
  <2>1. Len(t) \in 1 .. Len(rows)
    BY <1>3, <1>4
  <2>2. t \in [ 1 .. Len(t) -> ToSet(rows) ]
    <3>1. DOMAIN t = 1 .. Len(t) /\ t \in [ 1 .. Len(t) -> Windows ]
      BY <1>3
    <3>2. \A i \in 1 .. Len(t) : t[i] \in ToSet(rows)
      BY <3>1 DEF ToSet
    <3> QED
      BY <3>1, <3>2
  <2>3. Model!OnTop(rows, t) = Model!Stacking!OnTop(rows, t)
    BY SameRows DEF Model!OnTop, Model!Stacking!OnTop
  <2>4. Model!Stacking!Raised(t) /\ Model!Stacking!IsInjective(t)
    BY <1>3, <1>4, <2>3, SameRows DEF Model!Stacking!Raised
  <2>5. Model!Stacking!ToSet(rows) = ToSet(rows)
    BY SameRows
  <2> QED
    BY <2>1, <2>2, <2>4, <2>5 DEF Model!Stacking!Next
<1> QED
  BY <1>1, <1>6, <1>7, <1>9, <1>10 DEF StackStep

LEMMA Heard ==
  ASSUME Model!WindowsAssumption, Model!TypeOK, NEW n \in Model!Notices, Applies(Model!Seen, n), Model!Handle(n)
  PROVE  SeenTypedNext /\ StackStep /\ Model!Seen' = Model!Meant(Model!Seen, n)
<1>1. Model!Seen.stack = rows
  BY DEF Model!Seen
<1>2. CASE n \in { "added", "removed", "ready" } \X (Windows \cup InputMethods)
  <2>1. PICK k \in { "added", "removed", "ready" }, w \in Windows \cup InputMethods : n = << k, w >>
    BY <1>2
  <2>2. CASE k = "added"
    <3>1. Model!OnWindowAdded(w)
      BY <2>1, <2>2 DEF Model!Handle
    <3>2. w \in Windows => w \notin ToSet(rows)
      BY <1>1, <2>1, <2>2 DEF Applies
    <3> QED
      BY <2>1, <2>2, <3>1, <3>2, AddedHeard, InputMethodHeard
  <2>3. CASE k = "removed"
    <3>1. Model!OnWindowRemoved(w)
      BY <2>1, <2>3 DEF Model!Handle
    <3>2. w \in Windows => w \in ToSet(rows)
      BY <1>1, <2>1, <2>3 DEF Applies
    <3> QED
      BY <2>1, <2>3, <3>1, <3>2, RemovedHeard, InputMethodHeard
  <2>4. CASE k = "ready"
    <3>1. Model!OnWindowReady(w)
      BY <2>1, <2>4 DEF Model!Handle
    <3> QED
      BY <2>1, <2>4, <3>1, ReadyHeard
  <2> QED
    BY <2>1, <2>2, <2>3, <2>4
<1>3. CASE n \in { "focus" } \X Windows \X BOOLEAN
  <2>1. PICK w \in Windows, b \in BOOLEAN : n = << "focus", w, b >>
    BY <1>3
  <2>2. Model!Show(w, [ shown[w] EXCEPT !.focused = b ])
    BY <2>1 DEF Model!Handle
  <2> QED
    BY <2>1, <2>2, FocusHeard
<1>4. CASE n \in { "state" } \X Windows \X Model!States
  <2>1. PICK w \in Windows, s \in Model!States : n = << "state", w, s >>
    BY <1>4
  <2>2. Model!Show(w, [ shown[w] EXCEPT !.state = s ])
    BY <2>1 DEF Model!Handle
  <2> QED
    BY <2>1, <2>2, StateHeard
<1>5. CASE n \in { "raised" } \X Model!Orders
  <2>1. PICK t \in Model!Orders : n = << "raised", t >>
    BY <1>5
  <2>2. Model!OnWindowsRaised(t)
    BY <2>1 DEF Model!Handle
  <2>3. t # << >> /\ ToSet(t) \subseteq ToSet(rows)
    BY <1>1, <2>1 DEF Applies
  <2> QED
    BY <2>1, <2>2, <2>3, RaisedHeard
<1> QED
  BY <1>2, <1>3, <1>4, <1>5 DEF Model!Notices

LEMMA DeliverKeeps ==
  ASSUME Model!WindowsAssumption, ModelInv, Model!Deliver
  PROVE  ModelInv' /\ StackStep
<1>0. Model!TypeOK /\ RequestIsRight /\ readyWindows \subseteq ToSet(stack) /\ active \in ToSet(stack) \cup { NoWindow }
  BY DEF ModelInv
<1>1. PICK u : Reaches(Model!Seen, notices, u) /\ Synced(u)
  BY DEF ModelInv, NoticesLead
<1>2. /\ notices # << >> /\ notices' = Tail(notices) /\ Model!Handle(Head(notices))
      /\ UNCHANGED << Model!mirVars, extraState, previousState, request, overtaken >>
  BY DEF Model!Deliver
<1>3. notices \in Seq(Model!Notices)
  BY <1>0 DEF Model!TypeOK
<1>4. /\ Applies(Model!Seen, Head(notices)) /\ Head(notices) \in Model!Notices
      /\ Reaches(Model!Meant(Model!Seen, Head(notices)), Tail(notices), u)
  BY <1>1, <1>2, <1>3, ReachesTail
<1>5. PICK n \in Model!Notices : n = Head(notices)
  BY <1>4
<1>6. SeenTypedNext /\ StackStep /\ Model!Seen' = Model!Meant(Model!Seen, n)
  BY <1>0, <1>2, <1>4, <1>5, Heard
<1>7. Reaches(Model!Seen', notices', u)
  BY <1>2, <1>4, <1>5, <1>6
<1>8. Synced(u)'
  BY <1>1, <1>2 DEF Synced, Model!mirVars
<1>9. NoticesLead'
  BY <1>7, <1>8 DEF NoticesLead
<1>10. notices' \in Seq(Model!Notices)
  BY <1>2, <1>3
<1>11. Model!TypeOK'
  BY <1>0, <1>2, <1>6, <1>10 DEF Model!TypeOK, Model!mirVars, SeenTypedNext
<1>12. RequestIsRight'
  BY <1>0, <1>2 DEF RequestIsRight, Model!mirVars
<1> QED
  BY <1>0, <1>2, <1>6, <1>9, <1>11, <1>12 DEF ModelInv, Model!mirVars
LEMMA ModelNext ==
  ASSUME Model!WindowsAssumption, ModelInv, Model!Next
  PROVE  ModelInv' /\ StackStep
<1>0. Model!TypeOK
  BY DEF ModelInv
<1>1. CASE \E w \in Windows \cup InputMethods :
             Model!AdviseNewWindow(w) \/ Model!HandleWindowReady(w) \/ Model!AdviseDeleteWindow(w)
  <2>1. PICK w \in Windows \cup InputMethods :
          Model!AdviseNewWindow(w) \/ Model!HandleWindowReady(w) \/ Model!AdviseDeleteWindow(w)
    BY <1>1
  <2>2. ModelInv'
    BY <2>1, NewWindowKeeps, ReadyKeeps, DeletedKeeps
  <2>3. UNCHANGED Model!modelVars
    BY <2>1 DEF Model!AdviseNewWindow, Model!HandleWindowReady, Model!AdviseDeleteWindow
  <2> QED
    BY <2>2, <2>3 DEF StackStep, Model!modelVars
<1>2. CASE \E w \in Windows, s \in Model!MirStates \ { "unknown" } : Model!HandleModifyWindow(w, s)
  <2>1. PICK w \in Windows, s \in Model!MirStates \ { "unknown" } : Model!HandleModifyWindow(w, s)
    BY <1>2
  <2>2. ModelInv'
    BY <2>1, ModifyKeeps
  <2>3. UNCHANGED Model!modelVars
    BY <2>1 DEF Model!HandleModifyWindow
  <2> QED
    BY <2>2, <2>3 DEF StackStep, Model!modelVars
<1>3. CASE \E w \in Windows : Model!Activate(w) \/ Model!RaiseWindow(w) \/ Model!ActivateMinimized(w)
  <2>1. PICK w \in Windows : Model!Activate(w) \/ Model!RaiseWindow(w) \/ Model!ActivateMinimized(w)
    BY <1>3
  <2>2. w \in ToSet(stack)
    BY <2>1, SameRows DEF Model!Activate, Model!RaiseWindow, Model!ActivateMinimized
  <2>3. CASE Model!Activate(w)
    BY <2>2, <2>3, ActivateKeeps DEF Model!Activate, StackStep, Model!modelVars
  <2>4. CASE Model!RaiseWindow(w)
    <3>1. ModelInv'
      BY <2>2, <2>4, RaiseKeeps
    <3> QED
      BY <2>4, <3>1 DEF Model!RaiseWindow, StackStep, Model!modelVars
  <2>5. CASE Model!ActivateMinimized(w)
    <3>1. UNCHANGED << inputWindows, readyWindows, mirState, overtaken, Model!modelVars >>
      BY <2>5 DEF Model!ActivateMinimized
    <3>2. CASE Model!BeginRequest(w, previousState[w], TRUE) /\ UNCHANGED << stack, active, notices >>
      <4>1. previousState[w] \in Model!States /\ TRUE \in BOOLEAN
        BY <1>0 DEF Model!TypeOK
      <4> QED
        BY <2>2, <3>1, <3>2, <4>1, BeginKeeps DEF StackStep, Model!modelVars
    <3>3. CASE /\ \E t \in Model!Trees(w) : Model!Select(w, t, << >>)
               /\ UNCHANGED << previousState, extraState, request >>
      <4>1. UNCHANGED Model!stateVars
        BY <3>1, <3>3 DEF Model!stateVars
      <4> QED
        BY <2>2, <3>1, <3>3, <4>1, ActivateKeeps DEF StackStep, Model!modelVars
    <3> QED
      BY <2>5, <3>2, <3>3 DEF Model!ActivateMinimized
  <2> QED
    BY <2>1, <2>3, <2>4, <2>5
<1>4. CASE \E w \in Windows, s \in Model!States \ { "Unknown" } : Model!RequestState(w, s)
  <2>1. PICK w \in Windows, s \in Model!States \ { "Unknown" } : Model!RequestState(w, s)
    BY <1>4
  <2>2. w \in ToSet(stack)
    BY <2>1, SameRows DEF Model!RequestState
  <2>3. /\ Model!BeginRequest(w, s, FALSE)
        /\ UNCHANGED << stack, inputWindows, readyWindows, active, mirState, notices, overtaken, Model!modelVars >>
    BY <2>1 DEF Model!RequestState, Model!mirVars
  <2>4. FALSE \in BOOLEAN
    OBVIOUS
  <2>5. ModelInv'
    BY <2>1, <2>2, <2>3, <2>4, BeginKeeps
  <2> QED
    BY <2>3, <2>5 DEF StackStep, Model!modelVars
<1>5. CASE Model!SelectNone
  BY <1>5, SelectNoneKeeps DEF Model!SelectNone, StackStep, Model!modelVars
<1>6. CASE Model!FinishRequest
  BY <1>6, FinishKeeps DEF Model!FinishRequest, StackStep, Model!modelVars
<1>7. CASE Model!Deliver
  BY <1>7, DeliverKeeps
<1> QED
  BY <1>1, <1>2, <1>3, <1>4, <1>5, <1>6, <1>7 DEF Model!Next

LEMMA ModelStutters ==
  ASSUME ModelInv, UNCHANGED modelVars
  PROVE  ModelInv' /\ rows' = rows
<1>1. PICK u : Reaches(Model!Seen, notices, u) /\ Synced(u)
  BY DEF ModelInv, NoticesLead
<1>2. Model!Seen' = Model!Seen /\ notices' = notices
  BY DEF modelVars, Model!Seen
<1>3. Synced(u)'
  BY <1>1 DEF modelVars, Synced
<1>4. NoticesLead'
  BY <1>1, <1>2, <1>3 DEF NoticesLead
<1>5. Model!TypeOK' /\ RequestIsRight'
  BY DEF modelVars, ModelInv, Model!TypeOK, RequestIsRight
<1> QED
  BY <1>4, <1>5 DEF ModelInv, modelVars

LEMMA ModelStep ==
  ModelInv /\ [Next]_<< part, modelVars, surfacesVars, inputVars >> => ModelInv' /\ StackStep
<1> SUFFICES ASSUME ModelInv, [Next]_<< part, modelVars, surfacesVars, inputVars >>
             PROVE  ModelInv' /\ StackStep
  OBVIOUS
<1>1. Model!WindowsAssumption
  BY ModelAssumption
<1>2. CASE Model!Next
  BY <1>1, <1>2, ModelNext
<1>3. CASE UNCHANGED modelVars
  BY <1>3, ModelStutters DEF StackStep
<1> QED
  BY <1>2, <1>3 DEF Next

LEMMA ModelAlways == Spec => []ModelInv /\ [][StackStep]_rows
<1>1. Init => ModelInv
  BY ModelAssumption, ModelStarts DEF Init
<1> QED
  BY <1>1, ModelStep, PTL DEF Spec

LEMMA ModelIsInSync ==
  ASSUME ModelInv
  PROVE  Model!InSync
<1>1. PICK u : Reaches(Model!Seen, notices, u) /\ Synced(u)
  BY DEF ModelInv, NoticesLead
<1>2. Model!Foreseen = u
  BY <1>1, ReachesForeseen DEF ModelInv, Model!TypeOK
<1>3. Model!ToSet(stack) = ToSet(stack)
  BY SameRows
<1>4. NoWindow \notin ToSet(stack)
  BY ModelAssumption DEF ModelInv, Model!TypeOK, Model!Orders, ToSet, Model!WindowsAssumption
<1>5. /\ u.stack = stack /\ u.ready \cap ToSet(stack) = readyWindows
      /\ u.focused \cap ToSet(stack) = ToSet(stack) \cap { active }
  BY <1>1, <1>4 DEF Synced, ModelInv
<1> QED
  BY <1>1, <1>2, <1>3, <1>5 DEF Model!InSync, Synced

(* Whatever notices of WindowModelNotifier are on their way to the main     *)
(* thread, hearing them makes the rows of WindowModel the window manager's  *)
(* stack: the same windows in the same order, ready, focused and in the     *)
(* state that they are in there, but for those whose state Mir changed      *)
(* during a request of the shell.                                           *)
THEOREM ShellInSync == Spec => []InSync
<1>1. ModelInv => InSync
  BY ModelIsInSync DEF InSync
<1> QED
  BY <1>1, ModelAlways, PTL

(* The rows of WindowModel only ever change as a stack of windows does: a   *)
(* window is added on top, one is removed, or some are raised over all      *)
(* others, which keep their order; onWindowsRaised()'s moves of single rows *)
(* are such a raise.                                                        *)
THEOREM ShellKeepsStacking == Spec => KeepsStacking
<1>1. Init => Model!Stacking!Init
  BY DEF Init, Model!Init, Model!Stacking!Init
<1>2. [StackStep]_rows => [Model!Stacking!Next]_rows
  BY DEF StackStep
<1>3. Spec => Model!Stacking!Init /\ [][Model!Stacking!Next]_rows
  BY <1>1, <1>2, ModelAlways, PTL DEF Spec
<1> QED
  BY <1>3 DEF KeepsStacking, Model!KeepsStacking, Model!Stacking!Spec

(* onWindowsRaised() by moves of single rows is a raise, whatever rows      *)
(* there are and whichever of them are named: the moves, all computed       *)
(* before the first is made, leave the named ones on top in the order they  *)
(* are named in, and no two of the others change their order.               *)
THEOREM MovesRaise ==
  ASSUME NEW A, NEW s \in Seq(A), NEW t \in Seq(A), IsInjective(s), IsInjective(t),
         ToSet(t) \subseteq ToSet(s)
  PROVE  /\ Model!Moved(s, t) = Without(s, ToSet(t)) \o t
         /\ \A x, y : Before(Model!Moved(s, t), x, y) <=>
              \/ Before(s, x, y) /\ x \notin ToSet(t) /\ y \notin ToSet(t)
              \/ Before(t, x, y)
              \/ x \in ToSet(s) \ ToSet(t) /\ y \in ToSet(t)
<1>1. Model!Moved(s, t) = Model!OnTop(s, t)
  BY MovedIsOnTop
<1>2. Kept(t, ToSet(s)) = t
  <2>1. PICK b : b = Kept(t, ToSet(s))
    OBVIOUS
  <2>2. /\ b \in Seq(A) /\ ToSet(b) = ToSet(t) \cap ToSet(s) /\ IsInjective(b)
        /\ \A x, y : Before(b, x, y) <=> (Before(t, x, y) /\ x \in ToSet(s) /\ y \in ToSet(s))
    BY <2>1, KeptRow
  <2>3. ToSet(b) = ToSet(t) /\ \A x, y : Before(b, x, y) => Before(t, x, y)
    BY <2>2
  <2>4. b = t
    BY <2>2, <2>3, SameOrder
  <2> QED
    BY <2>1, <2>4
<1>3. Model!OnTop(s, t) = Without(s, ToSet(t)) \o t
  BY <1>2, SameRows DEF Model!OnTop
<1>4. ASSUME NEW x, NEW y
      PROVE  Before(Model!OnTop(s, t), x, y) <=>
              \/ Before(s, x, y) /\ x \notin ToSet(t) /\ y \notin ToSet(t)
              \/ Before(t, x, y)
              \/ x \in ToSet(s) \ ToSet(t) /\ y \in ToSet(t)
  <2>1. Before(t, x, y) => x \in ToSet(s) /\ y \in ToSet(s)
    BY BeforeElements
  <2>2. Before(Model!OnTop(s, t), x, y) <=>
              \/ Before(s, x, y) /\ x \notin ToSet(t) /\ y \notin ToSet(t)
              \/ Before(t, x, y) /\ x \in ToSet(s) /\ y \in ToSet(s)
              \/ x \in ToSet(s) \ ToSet(t) /\ y \in ToSet(s) \cap ToSet(t)
    BY OnTopIs
  <2>3. ToSet(s) \cap ToSet(t) = ToSet(t)
    OBVIOUS
  <2> QED
    BY <2>1, <2>2, <2>3
<1> QED
  BY <1>1, <1>3, <1>4

(* A run of the shell is one of the surfaces and one of the input, so that  *)
(* what is proved of those is true of it.                                   *)
THEOREM ShellIsItsParts == Spec => SurfacesSpec /\ InputSpec
<1>1. Init => SurfacesInit /\ InputInit
  BY DEF Init
<1>2. ASSUME [Next]_<< part, modelVars, surfacesVars, inputVars >>
      PROVE  /\ [UNCHANGED part /\ SurfacesNext]_<< part, surfacesVars >>
             /\ [UNCHANGED part /\ InputNext]_<< part, inputVars >>
  BY <1>2 DEF Next
<1> QED
  BY <1>1, <1>2, PTL DEF Spec, SurfacesSpec, InputSpec

------------------------------------------------------------------------------
(* Windows that move with their parent: see Confinement.                    *)

LEMMA LeastOfTwo ==
  ASSUME NEW a \in Int, NEW b \in Int
  PROVE  Min({ a, b }) = (IF a <= b THEN a ELSE b) /\ Max({ a, b }) = (IF a <= b THEN b ELSE a)
BY DEF Min, Max

LEMMA RegionIs ==
  ASSUME NEW regions \in Seq(Int \X Int), NEW geom \in Int \X Int
  PROVE  GetConfinementRect(regions, geom) \in Int \X Int
<1>1. PICK S : S = { n \in 1 .. Len(regions) : Intersects(regions[n], geom) }
  OBVIOUS
<1>2. CASE S = {}
  BY <1>1, <1>2 DEF GetConfinementRect, NullRect
<1>3. CASE S # {}
  <2>1. S \subseteq Nat
    BY <1>1
  <2>2. PICK n \in S : \A k \in S : n <= k
    BY <1>3, <2>1, Least
  <2>3. Min(S) \in S
    BY <2>2 DEF Min
  <2>4. regions[Min(S)] \in Int \X Int
    BY <1>1, <2>3
  <2> QED
    BY <1>1, <1>3, <2>4 DEF GetConfinementRect
<1> QED
  BY <1>2, <1>3

(* confirm_inherited_move(): a child that moves with its parent goes no     *)
(* further than that and never the other way; if it is inside the region it *)
(* is confined to it stays inside, and if it is partly outside it is        *)
(* neither pushed further out nor pulled back: whatever the regions, the    *)
(* sizes and the move, for the integers the code computes without overflow. *)
THEOREM MovesConfined ==
  \A regions \in Seq(Int \X Int), geom \in Int \X Int, move \in Int :
    geom[1] <= geom[2] => MovesWithin(regions, geom, move)
<1> SUFFICES ASSUME NEW regions \in Seq(Int \X Int), NEW geom \in Int \X Int, NEW move \in Int,
                    geom[1] <= geom[2]
             PROVE  MovesWithin(regions, geom, move)
  OBVIOUS
<1>1. PICK a \in Int, b \in Int : geom = << a, b >>
  OBVIOUS
<1>2. PICK region \in Int \X Int : region = GetConfinementRect(regions, geom)
  BY RegionIs
<1>3. PICK c \in Int, d \in Int : region = << c, d >>
  OBVIOUS
<1>4. geom[1] = a /\ geom[2] = b /\ region[1] = c /\ region[2] = d /\ a <= b
  BY <1>1, <1>3
<1>5. Width(geom) = b - a + 1
  BY <1>4 DEF Width
<1>6. PICK to : to = (IF regions = << >> THEN a + move
         ELSE IF move > 0
           THEN IF b < d THEN (IF a + move <= d + 1 - (b - a + 1) THEN a + move ELSE d + 1 - (b - a + 1)) ELSE a
           ELSE IF a > c THEN (IF a + move <= c THEN c ELSE a + move) ELSE a)
  OBVIOUS
<1>a. to \in Int
  BY <1>6
<1>7. ConfirmInheritedMove(regions, geom, move) = to
  <2>1. a + move \in Int /\ d + 1 - (b - a + 1) \in Int
    OBVIOUS
  <2>2. /\ Min({ a + move, d + 1 - (b - a + 1) }) =
             (IF a + move <= d + 1 - (b - a + 1) THEN a + move ELSE d + 1 - (b - a + 1))
        /\ Max({ a + move, c }) = (IF a + move <= c THEN c ELSE a + move)
    BY <2>1, LeastOfTwo
  <2> QED
    BY <1>2, <1>4, <1>5, <1>6, <2>2 DEF ConfirmInheritedMove
<1>8. PICK after : after = Child(regions, geom, move)
  OBVIOUS
<1>9. after = << a + (to - a), b + (to - a) >>
  BY <1>4, <1>7, <1>8 DEF Child, Shifted
<1>10. after[1] = to /\ after[2] = b + (to - a)
  BY <1>9, <1>a
<1>11. IF move > 0 THEN 0 <= to - a /\ to - a <= move ELSE move <= to - a /\ to - a <= 0
  BY <1>4, <1>6, <1>a
<1>12. regions # << >> =>
         /\ c <= a => c <= to
         /\ b <= d => b + (to - a) <= d
         /\ a < c => to >= a
         /\ b > d => b + (to - a) <= b
  BY <1>4, <1>6, <1>a
<1> QED
  BY <1>2, <1>4, <1>8, <1>10, <1>11, <1>12 DEF MovesWithin
==============================================================================
