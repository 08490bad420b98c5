------------------------------ MODULE RowsProofs -----------------------------
(* What Rows does to a list, element by element and in which order.         *)
EXTENDS Rows, WellFoundedInduction, FiniteSetTheorems, TLAPS

LEMMA First ==
  ASSUME NEW T, T \subseteq Nat, T # {}
  PROVE  \E i \in T : \A j \in T : ~ (j < i)
<1>1. IsWellFoundedOn(OpToRel(<, Nat), Nat)
  BY NatLessThanWellFounded
<1>2. \E x \in T : \A y \in T : ~ (<< y, x >> \in OpToRel(<, Nat))
  BY <1>1, WFMin
<1> QED
  BY <1>2 DEF OpToRel

LEMMA Least ==
  ASSUME NEW T, T \subseteq Nat, T # {}
  PROVE  \E i \in T : \A j \in T : i <= j
<1>1. PICK i \in T : \A j \in T : ~ (j < i)
  BY First
<1>2. \A j \in T : i <= j
  BY <1>1
<1> QED
  BY <1>2

(* Induction up to a number, for a set of numbers.                          *)
LEMMA UpTo ==
  ASSUME NEW n \in Nat, NEW T, 0 \in T, \A i \in 0 .. n - 1 : i \in T => i + 1 \in T
  PROVE  \A i \in 0 .. n : i \in T
<1> SUFFICES ASSUME ~ \A i \in 0 .. n : i \in T PROVE FALSE
  OBVIOUS
<1> DEFINE U == { i \in 0 .. n : i \notin T }
<1>0. U # {} /\ U \subseteq Nat
  OBVIOUS
<1>1. PICK i \in U : \A j \in U : i <= j
  BY <1>0, Least
<1>2. i # 0 /\ i - 1 \in 0 .. n - 1
  BY <1>1
<1>3. i - 1 \notin T
  BY <1>2
<1> QED
  BY <1>1, <1>2, <1>3

(* y comes after x.                                                         *)
Before(s, x, y) == \E i, j \in DOMAIN s : i < j /\ s[i] = x /\ s[j] = y

-----------------------------------------------------------------------------
(* Kept() *)

Part(s, S, n, r) ==
  IF n = 0 THEN << >> ELSE IF s[n] \in S THEN Append(r, s[n]) ELSE r

(* The recursive function exists, for any list.                             *)
HasParts(A, s, S) ==
  \E f \in [ 0 .. Len(s) -> Seq(A) ] :
    \A i \in 0 .. Len(s) : f[i] = Part(s, S, i, f[i - 1])

LEMMA PartsExist ==
  ASSUME NEW A, NEW s \in Seq(A), NEW S
  PROVE  HasParts(A, s, S)
<1>a. PICK n \in 0 .. Len(s) : n = Len(s)
  OBVIOUS
<1> DEFINE T == { k \in 0 .. Len(s) : \E f \in [ 0 .. k -> Seq(A) ] :
                    \A i \in 0 .. k : f[i] = Part(s, S, i, f[i - 1]) }
<1>1. 0 \in T
  <2> DEFINE f == [ i \in 0 .. 0 |-> << >> ]
  <2>1. f \in [ 0 .. 0 -> Seq(A) ] /\ \A i \in 0 .. 0 : f[i] = Part(s, S, i, f[i - 1])
    BY DEF Part
  <2> HIDE DEF f
  <2> QED
    BY <2>1
<1>2. ASSUME NEW k \in 0 .. n - 1, k \in T PROVE k + 1 \in T
  <2>1. PICK f \in [ 0 .. k -> Seq(A) ] : \A i \in 0 .. k : f[i] = Part(s, S, i, f[i - 1])
    BY <1>2
  <2> DEFINE g == [ i \in 0 .. k + 1 |-> IF i = k + 1 THEN Part(s, S, i, f[k]) ELSE f[i] ]
  <2>2. ASSUME NEW i \in 0 .. k + 1 PROVE g[i] = Part(s, S, i, g[i - 1])
    <3>1. CASE i = k + 1
      BY <3>1
    <3>2. CASE i = 0
      BY <2>1, <3>2 DEF Part
    <3>3. CASE i \in 1 .. k
      BY <2>1, <3>3
    <3> QED
      BY <3>1, <3>2, <3>3
  <2>3. g \in [ 0 .. k + 1 -> Seq(A) ]
    <3>1. s[k + 1] \in A /\ f[k] \in Seq(A)
      OBVIOUS
    <3>2. Part(s, S, k + 1, f[k]) \in Seq(A)
      BY <3>1 DEF Part
    <3> QED
      BY <3>2
  <2> HIDE DEF g
  <2>4. k + 1 \in 0 .. Len(s)
    OBVIOUS
  <2> QED
    BY <2>2, <2>3, <2>4
<1> HIDE DEF T
<1>0. n \in Nat
  OBVIOUS
<1>3. \A i \in 0 .. n : i \in T
  BY <1>0, <1>1, <1>2, UpTo
<1>4. n \in T
  BY <1>0, <1>3
<1> QED
  BY <1>4, <1>a DEF T, HasParts

LEMMA KeptParts ==
  ASSUME NEW A, NEW s \in Seq(A), NEW S
  PROVE  \E f \in [ 0 .. Len(s) -> Seq(A) ] :
           /\ \A i \in 0 .. Len(s) : f[i] = Part(s, S, i, f[i - 1])
           /\ Kept(s, S) = f[Len(s)]
<1> DEFINE upTo == CHOOSE f : f = [ n \in 0 .. Len(s) |->
             IF n = 0 THEN << >>
             ELSE IF s[n] \in S THEN Append(f[n - 1], s[n]) ELSE f[n - 1] ]
<1>0. Len(s) \in Nat /\ Len(s) \in 0 .. Len(s)
  OBVIOUS
<1>a. HasParts(A, s, S)
  BY PartsExist, Zenon
<1>1. PICK f \in [ 0 .. Len(s) -> Seq(A) ] :
        \A n \in 0 .. Len(s) : f[n] = Part(s, S, n, f[n - 1])
  BY <1>a, Zenon DEF HasParts
<1>2. f = [ n \in 0 .. Len(s) |->
             IF n = 0 THEN << >>
             ELSE IF s[n] \in S THEN Append(f[n - 1], s[n]) ELSE f[n - 1] ]
  BY <1>1 DEF Part
<1>3. upTo = [ n \in 0 .. Len(s) |->
             IF n = 0 THEN << >>
             ELSE IF s[n] \in S THEN Append(upTo[n - 1], s[n]) ELSE upTo[n - 1] ]
  BY <1>2
<1>4. Kept(s, S) = upTo[Len(s)]
  BY DEF Kept
<1> HIDE DEF upTo
<1>5. \A i \in 0 .. Len(s) : upTo[i] = Part(s, S, i, upTo[i - 1])
  BY <1>3 DEF Part
<1>6. \A i \in 0 .. Len(s) : upTo[i] = f[i]
  <2> DEFINE T == { i \in 0 .. Len(s) : upTo[i] = f[i] }
  <2>1. 0 \in T
    BY <1>1, <1>5 DEF Part
  <2>2. ASSUME NEW i \in 0 .. Len(s) - 1, i \in T PROVE i + 1 \in T
    <3>1. i + 1 \in 1 .. Len(s) /\ (i + 1) - 1 = i /\ i + 1 \in 0 .. Len(s)
      BY <1>0
    <3>2. upTo[i + 1] = Part(s, S, i + 1, upTo[i]) /\ f[i + 1] = Part(s, S, i + 1, f[i])
      BY <1>1, <1>5, <3>1
    <3> QED
      BY <2>2, <3>1, <3>2
  <2>3. Len(s) \in Nat
    OBVIOUS
  <2> HIDE DEF T
  <2>4. \A i \in 0 .. Len(s) : i \in T
    BY <2>1, <2>2, <2>3, UpTo
  <2> QED
    BY <2>4 DEF T
<1> QED
  BY <1>1, <1>4, <1>6

(* Where in s the elements of r, kept of the first n, are.                  *)
Places(s, S, n, r, g) ==
  /\ g \in [ 1 .. Len(r) -> 1 .. n ]
  /\ \A i, j \in 1 .. Len(r) : i < j => g[i] < g[j]
  /\ \A i \in 1 .. Len(r) : r[i] = s[g[i]] /\ r[i] \in S
  /\ \A j \in 1 .. n : s[j] \in S => \E i \in 1 .. Len(r) : g[i] = j

LEMMA PartPlaces ==
  ASSUME NEW A, NEW s \in Seq(A), NEW S, NEW n \in 0 .. Len(s) - 1, NEW r \in Seq(A),
         NEW g, Places(s, S, n, r, g)
  PROVE  \E h : Places(s, S, n + 1, Part(s, S, n + 1, r), h)
<1>0. Len(r) \in Nat /\ Len(s) \in Nat /\ n \in Nat /\ n + 1 \in 1 .. Len(s) /\ s[n + 1] \in A
  OBVIOUS
<1>1. /\ g \in [ 1 .. Len(r) -> 1 .. n ]
      /\ \A i, j \in 1 .. Len(r) : i < j => g[i] < g[j]
      /\ \A i \in 1 .. Len(r) : r[i] = s[g[i]] /\ r[i] \in S
      /\ \A j \in 1 .. n : s[j] \in S => \E i \in 1 .. Len(r) : g[i] = j
  BY DEF Places
<1>2. CASE s[n + 1] \notin S
  <2>1. Part(s, S, n + 1, r) = r
    BY <1>0, <1>2 DEF Part
  <2>2. Places(s, S, n + 1, r, g)
    <3>1. g \in [ 1 .. Len(r) -> 1 .. n + 1 ]
      BY <1>0, <1>1
    <3>2. ASSUME NEW j \in 1 .. n + 1, s[j] \in S PROVE \E i \in 1 .. Len(r) : g[i] = j
      <4>1. j \in 1 .. n
        BY <1>0, <1>2, <3>2
      <4> QED
        BY <1>1, <3>2, <4>1
    <3> QED
      BY <1>1, <3>1, <3>2 DEF Places
  <2> QED
    BY <2>1, <2>2
<1>3. CASE s[n + 1] \in S
  <2> DEFINE q == Append(r, s[n + 1])
             h == [ i \in 1 .. Len(r) + 1 |-> IF i = Len(r) + 1 THEN n + 1 ELSE g[i] ]
  <2>1. Part(s, S, n + 1, r) = q
    BY <1>0, <1>3 DEF Part
  <2>2. Len(q) = Len(r) + 1 /\ q[Len(r) + 1] = s[n + 1] /\ \A i \in 1 .. Len(r) : q[i] = r[i]
    BY <1>0
  <2>3. h[Len(r) + 1] = n + 1 /\ \A i \in 1 .. Len(r) : h[i] = g[i]
    BY <1>0
  <2>4. h \in [ 1 .. Len(r) + 1 -> 1 .. n + 1 ]
    BY <1>0, <1>1
  <2> HIDE DEF q, h
  <2>5. \A i \in 1 .. Len(r) + 1 : i = Len(r) + 1 \/ i \in 1 .. Len(r)
    BY <1>0
  <2>6. ASSUME NEW i \in 1 .. Len(r) + 1, NEW j \in 1 .. Len(r) + 1, i < j PROVE h[i] < h[j]
    <3>0. i \in 1 .. Len(r)
      BY <1>0, <2>6
    <3>1. i \in 1 .. Len(r) /\ h[i] = g[i] /\ g[i] \in 1 .. n
      BY <1>1, <2>3, <3>0
    <3> QED
      BY <1>0, <1>1, <2>3, <2>5, <2>6, <3>1
  <2>7. ASSUME NEW i \in 1 .. Len(r) + 1 PROVE q[i] = s[h[i]] /\ q[i] \in S
    BY <1>1, <1>3, <2>2, <2>3, <2>5
  <2>8. ASSUME NEW j \in 1 .. n + 1, s[j] \in S PROVE \E i \in 1 .. Len(r) + 1 : h[i] = j
    <3>1. CASE j = n + 1
      BY <1>0, <2>3, <3>1
    <3>2. CASE j \in 1 .. n
      <4>1. PICK i \in 1 .. Len(r) : g[i] = j
        BY <1>1, <2>8, <3>2
      <4> QED
        BY <1>0, <2>3, <4>1
    <3> QED
      BY <1>0, <3>1, <3>2
  <2>9. Places(s, S, n + 1, q, h)
    BY <2>2, <2>4, <2>6, <2>7, <2>8 DEF Places
  <2> QED
    BY <2>1, <2>9
<1> QED
  BY <1>2, <1>3

LEMMA KeptPlaces ==
  ASSUME NEW A, NEW s \in Seq(A), NEW S
  PROVE  Kept(s, S) \in Seq(A) /\ \E g : Places(s, S, Len(s), Kept(s, S), g)
<1>0. Len(s) \in Nat
  OBVIOUS
<1>1. PICK f \in [ 0 .. Len(s) -> Seq(A) ] :
           /\ \A i \in 0 .. Len(s) : f[i] = Part(s, S, i, f[i - 1])
           /\ Kept(s, S) = f[Len(s)]
  BY KeptParts
<1> DEFINE T == { n \in 0 .. Len(s) : \E g : Places(s, S, n, f[n], g) }
<1>2. 0 \in T
  <2>1. f[0] = << >>
    BY <1>0, <1>1 DEF Part
  <2> DEFINE g == << >>
  <2>2. Places(s, S, 0, << >>, g)
    BY DEF Places
  <2> QED
    BY <1>0, <2>1, <2>2
<1>3. ASSUME NEW n \in 0 .. Len(s) - 1, n \in T PROVE n + 1 \in T
  <2>1. PICK g : Places(s, S, n, f[n], g)
    BY <1>3
  <2>2. f[n] \in Seq(A) /\ f[n + 1] = Part(s, S, n + 1, f[n]) /\ n + 1 \in 0 .. Len(s)
    <3>1. n \in 0 .. Len(s) /\ n + 1 \in 0 .. Len(s) /\ (n + 1) - 1 = n
      BY <1>0
    <3> QED
      BY <1>1, <3>1
  <2>3. PICK r \in Seq(A) : r = f[n]
    BY <2>2
  <2>4. \E h : Places(s, S, n + 1, Part(s, S, n + 1, r), h)
    BY <2>1, <2>3, PartPlaces
  <2> QED
    BY <2>2, <2>3, <2>4
<1> HIDE DEF T
<1>4. \A n \in 0 .. Len(s) : n \in T
  BY <1>0, <1>2, <1>3, UpTo
<1>5. Len(s) \in T
  BY <1>0, <1>4
<1> QED
  BY <1>0, <1>1, <1>5 DEF T

(* Kept() keeps what it is to keep, in its order.                           *)
LEMMA KeptRow ==
  ASSUME NEW A, NEW s \in Seq(A), NEW S
  PROVE  /\ Kept(s, S) \in Seq(A)
         /\ ToSet(Kept(s, S)) = ToSet(s) \cap S
         /\ IsInjective(s) => IsInjective(Kept(s, S))
         /\ \A x, y : Before(Kept(s, S), x, y) <=> (Before(s, x, y) /\ x \in S /\ y \in S)
<1>1. PICK r \in Seq(A) : r = Kept(s, S)
  BY KeptPlaces
<1>2. PICK g : Places(s, S, Len(s), r, g)
  BY <1>1, KeptPlaces
<1>0. Len(s) \in Nat /\ Len(r) \in Nat /\ DOMAIN s = 1 .. Len(s) /\ DOMAIN r = 1 .. Len(r)
  OBVIOUS
<1>3. /\ g \in [ 1 .. Len(r) -> 1 .. Len(s) ]
      /\ \A i, j \in 1 .. Len(r) : i < j => g[i] < g[j]
      /\ \A i \in 1 .. Len(r) : r[i] = s[g[i]] /\ r[i] \in S
      /\ \A j \in 1 .. Len(s) : s[j] \in S => \E i \in 1 .. Len(r) : g[i] = j
  BY <1>2 DEF Places
<1>4. ToSet(r) = ToSet(s) \cap S
  <2>1. ASSUME NEW x \in ToSet(r) PROVE x \in ToSet(s) \cap S
    BY <1>0, <1>3 DEF ToSet
  <2>2. ASSUME NEW x \in ToSet(s) \cap S PROVE x \in ToSet(r)
    <3>1. PICK j \in 1 .. Len(s) : s[j] = x
      BY <1>0 DEF ToSet
    <3>2. PICK i \in 1 .. Len(r) : g[i] = j
      BY <1>3, <3>1
    <3> QED
      BY <1>0, <1>3, <3>1, <3>2 DEF ToSet
  <2> QED
    BY <2>1, <2>2
<1>5. ASSUME IsInjective(s) PROVE IsInjective(r)
  <2> SUFFICES ASSUME NEW i \in 1 .. Len(r), NEW j \in 1 .. Len(r), r[i] = r[j] PROVE i = j
    BY <1>0 DEF IsInjective
  <2>1. g[i] \in 1 .. Len(s) /\ g[j] \in 1 .. Len(s) /\ s[g[i]] = s[g[j]]
    BY <1>3
  <2>2. g[i] = g[j]
    BY <1>0, <1>5, <2>1 DEF IsInjective
  <2>3. ~ (g[i] < g[j]) /\ ~ (g[j] < g[i])
    BY <2>1, <2>2
  <2> QED
    BY <1>0, <1>3, <2>3
<1>6. ASSUME NEW x, NEW y PROVE Before(r, x, y) <=> (Before(s, x, y) /\ x \in S /\ y \in S)
  <2>1. ASSUME Before(r, x, y) PROVE Before(s, x, y) /\ x \in S /\ y \in S
    <3>1. PICK i \in 1 .. Len(r), j \in 1 .. Len(r) : i < j /\ r[i] = x /\ r[j] = y
      BY <1>0, <2>1 DEF Before
    <3>2. g[i] \in 1 .. Len(s) /\ g[j] \in 1 .. Len(s) /\ g[i] < g[j] /\ s[g[i]] = x /\ s[g[j]] = y
      BY <1>3, <3>1
    <3> QED
      BY <1>0, <1>3, <3>1, <3>2 DEF Before
  <2>2. ASSUME Before(s, x, y), x \in S, y \in S PROVE Before(r, x, y)
    <3>1. PICK i \in 1 .. Len(s), j \in 1 .. Len(s) : i < j /\ s[i] = x /\ s[j] = y
      BY <1>0, <2>2 DEF Before
    <3>2. PICK k \in 1 .. Len(r) : g[k] = i
      BY <1>3, <2>2, <3>1
    <3>3. PICK l \in 1 .. Len(r) : g[l] = j
      BY <1>3, <2>2, <3>1
    <3>4. r[k] = x /\ r[l] = y
      BY <1>3, <3>1, <3>2, <3>3
    <3>5. k < l
      <4>1. ~ (l < k) /\ l # k
        BY <1>3, <3>1, <3>2, <3>3
      <4> QED
        BY <1>0, <4>1
    <3> QED
      BY <1>0, <3>4, <3>5 DEF Before
  <2> QED
    BY <2>1, <2>2
<1> QED
  BY <1>1, <1>4, <1>5, <1>6

LEMMA Without_ ==
  ASSUME NEW A, NEW s \in Seq(A), NEW S
  PROVE  /\ Without(s, S) \in Seq(A)
         /\ ToSet(Without(s, S)) = ToSet(s) \ S
         /\ IsInjective(s) => IsInjective(Without(s, S))
         /\ \A x, y : Before(Without(s, S), x, y) <=> (Before(s, x, y) /\ x \notin S /\ y \notin S)
<1>1. PICK K : K = ToSet(s) \ S
  OBVIOUS
<1>2. Without(s, S) = Kept(s, K)
  BY <1>1 DEF Without
<1>3. /\ Kept(s, K) \in Seq(A)
      /\ ToSet(Kept(s, K)) = ToSet(s) \cap K
      /\ IsInjective(s) => IsInjective(Kept(s, K))
      /\ \A x, y : Before(Kept(s, K), x, y) <=> (Before(s, x, y) /\ x \in K /\ y \in K)
  BY KeptRow
<1>4. \A x, y : Before(s, x, y) => x \in ToSet(s) /\ y \in ToSet(s)
  BY DEF Before, ToSet
<1> QED
  BY <1>1, <1>2, <1>3, <1>4

LEMMA BeforeElements ==
  ASSUME NEW s, NEW x, NEW y, Before(s, x, y)
  PROVE  x \in ToSet(s) /\ y \in ToSet(s)
BY DEF Before, ToSet

(* In a list without repetitions of two elements one comes first.           *)
LEMMA BeforeTotal ==
  ASSUME NEW A, NEW s \in Seq(A), IsInjective(s)
  PROVE  /\ \A x, y \in ToSet(s) : x # y => Before(s, x, y) \/ Before(s, y, x)
         /\ \A x, y : Before(s, x, y) => x # y /\ ~ Before(s, y, x)
<1>0. Len(s) \in Nat /\ DOMAIN s = 1 .. Len(s)
  OBVIOUS
<1>1. ASSUME NEW x \in ToSet(s), NEW y \in ToSet(s), x # y
      PROVE  Before(s, x, y) \/ Before(s, y, x)
  <2>1. PICK i \in 1 .. Len(s) : s[i] = x
    BY <1>0 DEF ToSet
  <2>2. PICK j \in 1 .. Len(s) : s[j] = y
    BY <1>0 DEF ToSet
  <2>3. i < j \/ j < i
    BY <1>1, <2>1, <2>2
  <2> QED
    BY <1>0, <2>1, <2>2, <2>3 DEF Before
<1>2. ASSUME NEW x, NEW y, Before(s, x, y) PROVE x # y /\ ~ Before(s, y, x)
  <2>1. PICK i \in 1 .. Len(s), j \in 1 .. Len(s) : i < j /\ s[i] = x /\ s[j] = y
    BY <1>0, <1>2 DEF Before
  <2>2. x # y
    BY <1>0, <2>1 DEF IsInjective
  <2>3. ASSUME Before(s, y, x) PROVE FALSE
    <3>1. PICK k \in 1 .. Len(s), l \in 1 .. Len(s) : k < l /\ s[k] = y /\ s[l] = x
      BY <1>0, <2>3 DEF Before
    <3>2. k = j /\ l = i
      BY <1>0, <2>1, <3>1 DEF IsInjective
    <3> QED
      BY <2>1, <3>1, <3>2
  <2> QED
    BY <2>2, <2>3
<1> QED
  BY <1>1, <1>2

LEMMA SameRow ==
  ASSUME NEW A, NEW s \in Seq(A), NEW t \in Seq(A), Len(s) = Len(t),
         \A i \in 1 .. Len(s) : s[i] = t[i]
  PROVE  s = t
OBVIOUS

LEMMA JoinedAt ==
  ASSUME NEW A, NEW s \in Seq(A), NEW t \in Seq(A)
  PROVE  /\ s \o t \in Seq(A) /\ Len(s \o t) = Len(s) + Len(t)
         /\ \A p \in 1 .. Len(s) : (s \o t)[p] = s[p]
         /\ \A p \in Len(s) + 1 .. Len(s) + Len(t) : (s \o t)[p] = t[p - Len(s)]
OBVIOUS

LEMMA TwoJoined ==
  ASSUME NEW A, NEW b \in A, NEW c \in A
  PROVE  << b >> \o << c >> = << b, c >>
<1> DEFINE p == << b >>
           q == << c >>
<1>1. /\ p \in Seq(A) /\ Len(p) = 1 /\ p[1] = b
      /\ q \in Seq(A) /\ Len(q) = 1 /\ q[1] = c
  OBVIOUS
<1> HIDE DEF p, q
<1> DEFINE s == << b, c >>
<1>3. s \in Seq(A) /\ Len(s) = 2 /\ s[1] = b /\ s[2] = c
  OBVIOUS
<1> HIDE DEF s
<1>4. p \o q \in Seq(A) /\ Len(p \o q) = 2 /\ (p \o q)[1] = b /\ (p \o q)[2] = c
  <2>1. /\ p \o q \in Seq(A) /\ Len(p \o q) = Len(p) + Len(q)
        /\ \A i \in 1 .. Len(p) : (p \o q)[i] = p[i]
        /\ \A i \in Len(p) + 1 .. Len(p) + Len(q) : (p \o q)[i] = q[i - Len(p)]
    BY <1>1, JoinedAt
  <2> QED
    BY <1>1, <2>1
<1>5. \A i \in 1 .. 2 : i = 1 \/ i = 2
  OBVIOUS
<1>6. \A i \in 1 .. Len(p \o q) : (p \o q)[i] = s[i]
  BY <1>3, <1>4, <1>5
<1>7. p \o q = s
  BY <1>3, <1>4, <1>6, SameRow
<1> QED
  BY <1>7 DEF p, q, s

LEMMA SubRow ==
  ASSUME NEW A, NEW s \in Seq(A), NEW a \in 1 .. Len(s) + 1, NEW b \in a - 1 .. Len(s)
  PROVE  /\ SubSeq(s, a, b) \in Seq(A) /\ Len(SubSeq(s, a, b)) = b - a + 1
         /\ \A p \in 1 .. b - a + 1 : SubSeq(s, a, b)[p] = s[p + a - 1]
OBVIOUS

(* Two lists, one behind the other.                                         *)
LEMMA Joined ==
  ASSUME NEW A, NEW s \in Seq(A), NEW t \in Seq(A)
  PROVE  /\ s \o t \in Seq(A)
         /\ ToSet(s \o t) = ToSet(s) \cup ToSet(t)
         /\ IsInjective(s) /\ IsInjective(t) /\ ToSet(s) \cap ToSet(t) = {} => IsInjective(s \o t)
         /\ \A x, y : Before(s \o t, x, y) <=>
              (Before(s, x, y) \/ Before(t, x, y) \/ (x \in ToSet(s) /\ y \in ToSet(t)))
<1>0. /\ Len(s) \in Nat /\ Len(t) \in Nat /\ DOMAIN s = 1 .. Len(s) /\ DOMAIN t = 1 .. Len(t)
  OBVIOUS
<1>a. s \o t \in Seq(A)
  OBVIOUS
<1>1. PICK u : u \in Seq(A) /\ u = s \o t
  BY <1>a, Zenon
<1>2. /\ Len(u) = Len(s) + Len(t) /\ DOMAIN u = 1 .. Len(s) + Len(t)
      /\ \A i \in 1 .. Len(s) : u[i] = s[i]
      /\ \A i \in 1 .. Len(t) : u[Len(s) + i] = t[i]
  BY <1>0, <1>1
<1>3. ASSUME NEW i \in DOMAIN u
      PROVE  \/ i \in DOMAIN s /\ u[i] = s[i]
             \/ i - Len(s) \in DOMAIN t /\ u[i] = t[i - Len(s)] /\ i > Len(s)
  <2>1. i \in 1 .. Len(s) \/ (i - Len(s) \in 1 .. Len(t) /\ i = Len(s) + (i - Len(s)) /\ i > Len(s))
    BY <1>0, <1>2
  <2> QED
    BY <1>0, <1>2, <2>1
<1>4. ASSUME NEW i \in DOMAIN s PROVE i \in DOMAIN u /\ u[i] = s[i]
  BY <1>0, <1>2
<1>5. ASSUME NEW i \in DOMAIN t PROVE Len(s) + i \in DOMAIN u /\ u[Len(s) + i] = t[i]
  BY <1>0, <1>2
<1>6. ToSet(u) = ToSet(s) \cup ToSet(t)
  BY <1>3, <1>4, <1>5 DEF ToSet
<1>7. ASSUME IsInjective(s), IsInjective(t), ToSet(s) \cap ToSet(t) = {}
      PROVE  IsInjective(u)
  <2> SUFFICES ASSUME NEW i \in DOMAIN u, NEW j \in DOMAIN u, u[i] = u[j] PROVE i = j
    BY DEF IsInjective
  <2>1. CASE i \in DOMAIN s /\ u[i] = s[i] /\ j \in DOMAIN s /\ u[j] = s[j]
    BY <1>7, <2>1 DEF IsInjective
  <2>2. CASE i \in DOMAIN s /\ u[i] = s[i] /\ j - Len(s) \in DOMAIN t /\ u[j] = t[j - Len(s)]
    BY <1>7, <2>2 DEF ToSet
  <2>3. CASE j \in DOMAIN s /\ u[j] = s[j] /\ i - Len(s) \in DOMAIN t /\ u[i] = t[i - Len(s)]
    BY <1>7, <2>3 DEF ToSet
  <2>4. CASE /\ i - Len(s) \in DOMAIN t /\ u[i] = t[i - Len(s)]
             /\ j - Len(s) \in DOMAIN t /\ u[j] = t[j - Len(s)]
    <3>1. i - Len(s) = j - Len(s)
      BY <1>7, <2>4 DEF IsInjective
    <3> QED
      BY <1>0, <1>2, <3>1
  <2> QED
    BY <1>3, <2>1, <2>2, <2>3, <2>4
<1>8. ASSUME NEW x, NEW y
      PROVE  Before(u, x, y) <=>
               (Before(s, x, y) \/ Before(t, x, y) \/ (x \in ToSet(s) /\ y \in ToSet(t)))
  <2>1. ASSUME Before(u, x, y)
        PROVE  Before(s, x, y) \/ Before(t, x, y) \/ (x \in ToSet(s) /\ y \in ToSet(t))
    <3>1. PICK i \in DOMAIN u, j \in DOMAIN u : i < j /\ u[i] = x /\ u[j] = y
      BY <2>1 DEF Before
    <3>2. CASE i \in DOMAIN s /\ u[i] = s[i] /\ j \in DOMAIN s /\ u[j] = s[j]
      BY <3>1, <3>2 DEF Before
    <3>3. CASE i \in DOMAIN s /\ u[i] = s[i] /\ j - Len(s) \in DOMAIN t /\ u[j] = t[j - Len(s)]
      BY <3>1, <3>3 DEF ToSet
    <3>4. CASE /\ i - Len(s) \in DOMAIN t /\ u[i] = t[i - Len(s)]
               /\ j - Len(s) \in DOMAIN t /\ u[j] = t[j - Len(s)]
      <4>1. i - Len(s) < j - Len(s)
        BY <1>0, <1>2, <3>1
      <4> QED
        BY <3>1, <3>4, <4>1 DEF Before
    <3>5. CASE i - Len(s) \in DOMAIN t /\ i > Len(s) /\ j \in DOMAIN s
      BY <1>0, <1>2, <3>1, <3>5
    <3> QED
      BY <1>3, <3>2, <3>3, <3>4, <3>5
  <2>2. ASSUME Before(s, x, y) PROVE Before(u, x, y)
    BY <1>4, <2>2 DEF Before
  <2>3. ASSUME Before(t, x, y) PROVE Before(u, x, y)
    <3>1. PICK i \in DOMAIN t, j \in DOMAIN t : i < j /\ t[i] = x /\ t[j] = y
      BY <2>3 DEF Before
    <3>2. Len(s) + i < Len(s) + j
      BY <1>0, <3>1
    <3> QED
      BY <1>5, <3>1, <3>2 DEF Before
  <2>4. ASSUME x \in ToSet(s), y \in ToSet(t) PROVE Before(u, x, y)
    <3>1. PICK i \in DOMAIN s : s[i] = x
      BY <2>4 DEF ToSet
    <3>2. PICK j \in DOMAIN t : t[j] = y
      BY <2>4 DEF ToSet
    <3>3. i < Len(s) + j
      BY <1>0, <3>1, <3>2
    <3> QED
      BY <1>4, <1>5, <3>1, <3>2, <3>3 DEF Before
  <2> QED
    BY <2>1, <2>2, <2>3, <2>4
<1> QED
  BY <1>1, <1>6, <1>7, <1>8

(* An element behind a list.                                                *)
LEMMA Appended ==
  ASSUME NEW A, NEW s \in Seq(A), NEW e \in A
  PROVE  /\ Append(s, e) \in Seq(A)
         /\ ToSet(Append(s, e)) = ToSet(s) \cup { e }
         /\ IsInjective(s) /\ e \notin ToSet(s) => IsInjective(Append(s, e))
         /\ \A x, y : Before(Append(s, e), x, y) <=> (Before(s, x, y) \/ (x \in ToSet(s) /\ y = e))
<1>a. << e >> \in Seq(A)
  OBVIOUS
<1>1. PICK t : t \in Seq(A) /\ t = << e >>
  BY <1>a, Zenon
<1>2. Len(t) = 1 /\ t[1] = e /\ DOMAIN t = { 1 }
  BY <1>1
<1>b. s \o t = Append(s, e)
  BY <1>1
<1>c. /\ s \o t \in Seq(A)
      /\ ToSet(s \o t) = ToSet(s) \cup ToSet(t)
      /\ IsInjective(s) /\ IsInjective(t) /\ ToSet(s) \cap ToSet(t) = {} => IsInjective(s \o t)
      /\ \A x, y : Before(s \o t, x, y) <=>
           (Before(s, x, y) \/ Before(t, x, y) \/ (x \in ToSet(s) /\ y \in ToSet(t)))
  BY <1>1, Joined
<1>3. PICK u : u = s \o t
  OBVIOUS
<1>4. ToSet(t) = { e } /\ IsInjective(t) /\ \A x, y : ~ Before(t, x, y)
  BY <1>2 DEF ToSet, IsInjective, Before
<1>5. /\ u \in Seq(A)
      /\ ToSet(u) = ToSet(s) \cup ToSet(t)
      /\ IsInjective(s) /\ IsInjective(t) /\ ToSet(s) \cap ToSet(t) = {} => IsInjective(u)
      /\ \A x, y : Before(u, x, y) <=>
           (Before(s, x, y) \/ Before(t, x, y) \/ (x \in ToSet(s) /\ y \in ToSet(t)))
  BY <1>3, <1>c
<1>6. u = Append(s, e)
  BY <1>b, <1>3
<1> QED
  BY <1>4, <1>5, <1>6

------------------------------------------------------------------------------
(* Lists without repetitions, given by their elements and their order.      *)

LEMMA Climbs ==
  ASSUME NEW n \in Nat, NEW m \in Nat, NEW g \in [ 1 .. n -> 1 .. m ],
         \A i, j \in 1 .. n : i < j => g[i] < g[j]
  PROVE  \A i \in 1 .. n : i <= g[i]
<1> DEFINE T == { k \in 0 .. n : k = 0 \/ k <= g[k] }
<1>1. 0 \in T
  OBVIOUS
<1>2. ASSUME NEW k \in 0 .. n - 1, k \in T PROVE k + 1 \in T
  <2>1. CASE k = 0
    BY <2>1
  <2>2. CASE k # 0
    <3>1. k \in 1 .. n /\ k + 1 \in 1 .. n /\ k <= g[k]
      BY <1>2, <2>2
    <3>2. g[k] < g[k + 1] /\ g[k] \in 1 .. m /\ g[k + 1] \in 1 .. m
      BY <3>1
    <3> QED
      BY <3>1, <3>2
  <2> QED
    BY <2>1, <2>2
<1> HIDE DEF T
<1>3. \A k \in 0 .. n : k \in T
  BY <1>1, <1>2, UpTo
<1> QED
  BY <1>3 DEF T

LEMMA Antisymmetric == ASSUME NEW m \in Nat, NEW n \in Nat, m <= n, n <= m PROVE m = n
OBVIOUS

(* Where the elements of s are in t.                                        *)
Into(s, t, g) ==
  /\ g \in [ 1 .. Len(s) -> 1 .. Len(t) ]
  /\ \A i \in 1 .. Len(s) : t[g[i]] = s[i] /\ i <= g[i]
LEMMA Placed ==
  ASSUME NEW A, NEW s \in Seq(A), NEW t \in Seq(A), IsInjective(s), IsInjective(t),
         ToSet(s) \subseteq ToSet(t), \A x, y : Before(s, x, y) => Before(t, x, y)
  PROVE  \E g : Into(s, t, g)
<1>0. /\ Len(s) \in Nat /\ Len(t) \in Nat /\ DOMAIN s = 1 .. Len(s) /\ DOMAIN t = 1 .. Len(t)
  OBVIOUS
<1> DEFINE g == [ i \in 1 .. Len(s) |-> CHOOSE j \in 1 .. Len(t) : t[j] = s[i] ]
<1>1. ASSUME NEW i \in 1 .. Len(s) PROVE \E j \in 1 .. Len(t) : t[j] = s[i]
  BY <1>0 DEF ToSet
<1>2. \A i \in 1 .. Len(s) : g[i] \in 1 .. Len(t) /\ t[g[i]] = s[i]
  BY <1>1
<1>3. g \in [ 1 .. Len(s) -> 1 .. Len(t) ]
  BY <1>2
<1> HIDE DEF g
<1>4. ASSUME NEW i \in 1 .. Len(s), NEW j \in 1 .. Len(s), i < j PROVE g[i] < g[j]
  <2>0. Before(s, s[i], s[j])
    BY <1>0, <1>4 DEF Before
  <2>1. Before(t, s[i], s[j])
    BY <2>0
  <2>2. PICK k \in 1 .. Len(t), l \in 1 .. Len(t) : k < l /\ t[k] = s[i] /\ t[l] = s[j]
    BY <1>0, <2>1 DEF Before
  <2>3. g[i] = k /\ g[j] = l
    BY <1>0, <1>2, <2>2 DEF IsInjective
  <2> QED
    BY <2>2, <2>3
<1>5. \A i \in 1 .. Len(s) : i <= g[i]
  BY <1>0, <1>3, <1>4, Climbs
<1> QED
  BY <1>2, <1>3, <1>5 DEF Into

LEMMA SameOrder ==
  ASSUME NEW A, NEW s \in Seq(A), NEW t \in Seq(A), IsInjective(s), IsInjective(t),
         ToSet(s) = ToSet(t), \A x, y : Before(s, x, y) => Before(t, x, y)
  PROVE  s = t
<1>0. /\ Len(s) \in Nat /\ Len(t) \in Nat /\ DOMAIN s = 1 .. Len(s) /\ DOMAIN t = 1 .. Len(t)
  OBVIOUS
<1>1. \A x, y : Before(t, x, y) => Before(s, x, y)
  <2> SUFFICES ASSUME NEW x, NEW y, Before(t, x, y) PROVE Before(s, x, y)
    OBVIOUS
  <2>1. x # y /\ ~ Before(t, y, x)
    BY BeforeTotal
  <2>2. x \in ToSet(s) /\ y \in ToSet(s)
    BY BeforeElements
  <2>3. Before(s, x, y) \/ Before(s, y, x)
    BY <2>1, <2>2, BeforeTotal
  <2> QED
    BY <2>1, <2>3
<1>a. ToSet(s) \subseteq ToSet(t) /\ ToSet(t) \subseteq ToSet(s)
  OBVIOUS
<1>b. PICK g : Into(s, t, g)
  BY <1>a, Placed
<1>c. PICK h : Into(t, s, h)
  BY <1>1, <1>a, Placed
<1>2. g \in [ 1 .. Len(s) -> 1 .. Len(t) ] /\ \A i \in 1 .. Len(s) : t[g[i]] = s[i] /\ i <= g[i]
  BY <1>b DEF Into
<1>3. h \in [ 1 .. Len(t) -> 1 .. Len(s) ] /\ \A i \in 1 .. Len(t) : s[h[i]] = t[i] /\ i <= h[i]
  BY <1>c DEF Into
<1>4. ASSUME NEW i \in 1 .. Len(s) PROVE i \in 1 .. Len(t) /\ s[i] = t[i]
  <2>1. g[i] \in 1 .. Len(t) /\ t[g[i]] = s[i] /\ i <= g[i]
    BY <1>2
  <2>2. h[g[i]] \in 1 .. Len(s) /\ s[h[g[i]]] = t[g[i]] /\ g[i] <= h[g[i]]
    BY <1>3, <2>1
  <2>3. h[g[i]] = i
    BY <1>0, <2>1, <2>2 DEF IsInjective
  <2>4. g[i] = i
    BY <1>0, <2>1, <2>2, <2>3
  <2> QED
    BY <2>1, <2>4
<1>5. Len(t) <= Len(s)
  <2>1. CASE Len(t) = 0
    BY <1>0, <2>1
  <2>2. CASE Len(t) # 0
    <3>1. Len(t) \in 1 .. Len(t)
      BY <1>0, <2>2
    <3>2. h[Len(t)] \in 1 .. Len(s) /\ Len(t) <= h[Len(t)]
      BY <1>3, <3>1
    <3> QED
      BY <1>0, <3>2
  <2> QED
    BY <2>1, <2>2
<1>6. Len(s) <= Len(t)
  <2>1. CASE Len(s) = 0
    BY <1>0, <2>1
  <2>2. CASE Len(s) # 0
    <3>1. Len(s) \in 1 .. Len(s)
      BY <1>0, <2>2
    <3>2. Len(s) \in 1 .. Len(t)
      BY <1>4, <3>1
    <3> QED
      BY <1>0, <3>2
  <2> QED
    BY <2>1, <2>2
<1>7. Len(s) = Len(t)
  BY <1>0, <1>5, <1>6, Antisymmetric
<1> QED
  BY <1>0, <1>4, <1>7
==============================================================================
