----------------------- MODULE ApplicationManagerProofs -----------------------
(***************************************************************************)
(* The manager's lists, sessions and queued starts, for any number of      *)
(* applications, processes and events under way. What a session is heard   *)
(* of depends on the order of the main thread's queue, and which session   *)
(* it is on what ubuntu-app-launch runs, so the invariant IInv has a part  *)
(* for each of                                                             *)
(*   ObjectsInv    the list an object is in, and its deletion, by phase;   *)
(*   ClientsInv    what is queued of a client, which object has its        *)
(*                 session, and for which application it was let in;       *)
(*   InstancesInv  which process is whose instance;                        *)
(*   Singles       one entry of what only ubuntu-app-launch starts.        *)
(***************************************************************************)
EXTENDS ApplicationManager, FiniteSetTheorems, WellFoundedInduction,
        SequenceTheorems, TLAPS

(* What is in a sequence, what is in it once, what has a later one behind it. *)
In(q) == { q[i] : i \in DOMAIN q }
Once(q, e) == \A i, j \in DOMAIN q : q[i] = e /\ q[j] = e => i = j
Followed(q, e, f) ==
  \A i \in DOMAIN q : q[i] = e => \E j \in DOMAIN q : j > i /\ q[j] = f

(* A sequence r has of K what q has, as often and in the same order.        *)
Keeps(q, r, K) ==
  \A e \in K : /\ e \in In(r) <=> e \in In(q)
               /\ Once(q, e) => Once(r, e)
               /\ \A f \in K : Followed(q, e, f) => Followed(r, e, f)

LEMMA Ahead ==
  ASSUME NEW S, NEW s \in Seq(S), NEW e \in S
  PROVE  /\ Append(s, e) \in Seq(S)
         /\ Len(Append(s, e)) = Len(s) + 1
         /\ Append(s, e)[Len(s) + 1] = e
         /\ \A i \in 1..Len(s) : Append(s, e)[i] = s[i]
BY SMT

LEMMA Behind ==
  ASSUME NEW S, NEW s \in Seq(S), s # << >>
  PROVE  /\ Len(s) \in Nat \ { 0 }
         /\ Head(s) = s[1] /\ Head(s) \in S
         /\ Tail(s) \in Seq(S)
         /\ Len(Tail(s)) = Len(s) - 1
         /\ \A i \in 1..(Len(s) - 1) : Tail(s)[i] = s[i + 1]
BY SMT

LEMMA Domains == ASSUME NEW S, NEW s \in Seq(S)
                 PROVE Len(s) \in Nat /\ DOMAIN s = 1..Len(s) /\ In(s) \subseteq S
BY DEF In

LEMMA InAppend ==
  ASSUME NEW S, NEW q \in Seq(S), NEW e \in S
  PROVE  /\ In(Append(q, e)) = In(q) \cup { e }
         /\ \A x : Once(q, x) /\ (x # e \/ e \notin In(q)) => Once(Append(q, e), x)
         /\ \A x : x # e => Followed(Append(q, e), x, e)
         /\ \A x, y : x # e /\ Followed(q, x, y) => Followed(Append(q, e), x, y)
<1> DEFINE r == Append(q, e)
<1>1. /\ r \in Seq(S) /\ Len(r) = Len(q) + 1 /\ r[Len(q) + 1] = e
      /\ \A i \in 1..Len(q) : r[i] = q[i]
  BY Ahead
<1>2. /\ Len(q) \in Nat /\ DOMAIN q = 1..Len(q) /\ DOMAIN r = 1..(Len(q) + 1)
  BY <1>1, Domains
<1> HIDE DEF r
<1>3. In(r) = In(q) \cup { e }
  BY <1>1, <1>2 DEF In
<1>4. ASSUME NEW x, Once(q, x), x # e \/ e \notin In(q) PROVE Once(r, x)
  BY <1>1, <1>2, <1>4 DEF Once, In
<1>5. ASSUME NEW x, x # e PROVE Followed(r, x, e)
  BY <1>1, <1>2, <1>5 DEF Followed
<1>6. ASSUME NEW x, NEW y, x # e, Followed(q, x, y) PROVE Followed(r, x, y)
  BY <1>1, <1>2, <1>6 DEF Followed
<1> QED
  BY <1>3, <1>4, <1>5, <1>6 DEF r

LEMMA InTail ==
  ASSUME NEW S, NEW q \in Seq(S), q # << >>
  PROVE  /\ In(q) = In(Tail(q)) \cup { Head(q) }
         /\ Once(q, Head(q)) => Head(q) \notin In(Tail(q))
         /\ \A x : Once(q, x) => Once(Tail(q), x)
         /\ \A x, y : Followed(q, x, y) => Followed(Tail(q), x, y)
         /\ \A y : Followed(q, Head(q), y) => y \in In(Tail(q))
         /\ \A x : Followed(q, x, Head(q)) /\ Once(q, Head(q)) => x \notin In(q)
<1> DEFINE r == Tail(q)
<1>1. /\ r \in Seq(S) /\ Len(r) = Len(q) - 1 /\ Len(q) \in Nat \ { 0 } /\ Head(q) = q[1]
      /\ \A i \in 1..(Len(q) - 1) : r[i] = q[i + 1]
  BY Behind
<1>2. /\ DOMAIN q = 1..Len(q) /\ DOMAIN r = 1..(Len(q) - 1)
  BY <1>1, Domains
<1> HIDE DEF r
<1>0. \A i \in DOMAIN q : i = 1 \/ (i - 1 \in DOMAIN r /\ r[i - 1] = q[i])
  BY <1>1, <1>2
<1>00. \A i \in DOMAIN r : i + 1 \in DOMAIN q /\ r[i] = q[i + 1]
  BY <1>1, <1>2
<1>3. In(q) = In(r) \cup { Head(q) }
  <2>1. In(r) \subseteq In(q) /\ Head(q) \in In(q)
    BY <1>1, <1>2, <1>00 DEF In
  <2>2. \A x \in In(q) : x = Head(q) \/ x \in In(r)
    BY <1>1, <1>0 DEF In
  <2> QED
    BY <2>1, <2>2
<1>4. Once(q, Head(q)) => Head(q) \notin In(r)
  BY <1>1, <1>2, <1>00 DEF Once, In
<1>5. ASSUME NEW x, Once(q, x) PROVE Once(r, x)
  BY <1>1, <1>2, <1>00, <1>5 DEF Once
<1>6. ASSUME NEW x, NEW y, Followed(q, x, y) PROVE Followed(r, x, y)
  <2> SUFFICES ASSUME NEW i \in DOMAIN r, r[i] = x PROVE \E j \in DOMAIN r : j > i /\ r[j] = y
    BY DEF Followed
  <2>1. PICK j \in DOMAIN q : j > i + 1 /\ q[j] = y
    BY <1>00, <1>6 DEF Followed
  <2>2. j - 1 \in DOMAIN r /\ r[j - 1] = y /\ j - 1 > i
    BY <1>0, <1>2, <2>1
  <2> QED
    BY <2>2
<1>7. ASSUME NEW y, Followed(q, Head(q), y) PROVE y \in In(r)
  BY <1>1, <1>2, <1>0, <1>7 DEF Followed, In
<1>8. ASSUME NEW x, Followed(q, x, Head(q)), Once(q, Head(q)) PROVE x \notin In(q)
  BY <1>1, <1>2, <1>8 DEF Followed, Once, In
<1> QED
  BY <1>3, <1>4, <1>5, <1>6, <1>7, <1>8 DEF r

LEMMA KeepsSame == ASSUME NEW q, NEW K PROVE Keeps(q, q, K)
BY DEF Keeps

LEMMA KeepsAppend ==
  ASSUME NEW S, NEW q \in Seq(S), NEW x \in S, NEW K, x \notin K
  PROVE  Keeps(q, Append(q, x), K)
<1> SUFFICES ASSUME NEW e \in K
             PROVE  /\ e \in In(Append(q, x)) <=> e \in In(q)
                    /\ Once(q, e) => Once(Append(q, x), e)
                    /\ \A f \in K : Followed(q, e, f) => Followed(Append(q, x), e, f)
  BY DEF Keeps
<1> QED
  BY InAppend

LEMMA KeepsTail ==
  ASSUME NEW S, NEW q \in Seq(S), q # << >>, NEW K, Head(q) \notin K
  PROVE  Keeps(q, Tail(q), K)
<1> SUFFICES ASSUME NEW e \in K
             PROVE  /\ e \in In(Tail(q)) <=> e \in In(q)
                    /\ Once(q, e) => Once(Tail(q), e)
                    /\ \A f \in K : Followed(q, e, f) => Followed(Tail(q), e, f)
  BY DEF Keeps
<1> QED
  BY InTail

LEMMA KeepsBoth ==
  ASSUME NEW q, NEW r, NEW s, NEW K, Keeps(q, r, K), Keeps(r, s, K) PROVE Keeps(q, s, K)
BY DEF Keeps

(* A set of positions has a first.                                          *)
LEMMA First ==
  ASSUME NEW T, T \subseteq Nat, T # {}
  PROVE  \E i \in T : \A j \in T : ~ (j < i)
<1>1. IsWellFoundedOn(OpToRel(<, Nat), Nat)
  BY NatLessThanWellFounded
<1>2. \E x \in T : \A y \in T : ~ (<< y, x >> \in OpToRel(<, Nat))
  BY <1>1, WFMin
<1> QED
  BY <1>2 DEF OpToRel

LEMMA Found ==
  ASSUME TypeOK, NEW a, HasApp(a)
  PROVE  FindApp(a) \in Listed /\ FindApp(a) \in Objects /\ object[FindApp(a)].appId = a
<1> DEFINE D == DOMAIN applications
<1> DEFINE T == { i \in D : object[applications[i]].appId = a }
<1>1. applications \in Seq(Objects)
  BY DEF TypeOK
<1>2. D = 1..Len(applications) /\ Len(applications) \in Nat
  BY <1>1
<1>3. T # {} /\ T \subseteq Nat
  BY <1>2 DEF HasApp, Listed
<1>4. PICK i \in T : \A j \in T : ~ (j < i)
  BY <1>3, First
<1>5. i \in D /\ \A j \in 1..(i - 1) : object[applications[j]].appId # a
  BY <1>2, <1>4
<1> DEFINE c == CHOOSE k \in D : /\ object[applications[k]].appId = a
                                 /\ \A j \in 1..(k - 1) : object[applications[j]].appId # a
<1>6. c \in D /\ object[applications[c]].appId = a
  BY <1>4, <1>5
<1>7. FindApp(a) = applications[c]
  BY DEF FindApp
<1>8. PICK m \in D : m = c
  BY <1>6
<1> HIDE DEF c
<1>9. applications[m] \in Listed /\ applications[m] \in Objects
  BY <1>1, <1>2 DEF Listed
<1> QED
  BY <1>6, <1>7, <1>8, <1>9

LEMMA Removed ==
  ASSUME TypeOK, NEW o, \A p \in Objects : Once(applications, p)
  PROVE  /\ Without(o) \in Seq(Objects)
         /\ In(Without(o)) = Listed \ { o }
         /\ \A p \in Objects : Once(Without(o), p)
<1> DEFINE q == applications
<1> DEFINE D == DOMAIN q
<1>1. q \in Seq(Objects) /\ D = 1..Len(q) /\ Len(q) \in Nat /\ Listed = In(q)
  BY DEF TypeOK, Listed, In
<1>a. CASE o \notin Listed
  BY <1>1, <1>a DEF Without
<1>b. CASE o \in Listed
  <2> DEFINE n == CHOOSE i \in D : q[i] = o
  <2>1. n \in D /\ q[n] = o
    BY <1>b DEF Listed
  <2>2. Without(o) = [ i \in 1..(Len(q) - 1) |-> q[IF i < n THEN i ELSE i + 1] ]
    BY <1>b DEF Without
  <2>3. PICK m \in D : m = n
    BY <2>1
  <2>4. PICK r : r = [ i \in 1..(Len(q) - 1) |-> q[IF i < m THEN i ELSE i + 1] ]
    OBVIOUS
  <2>5. Without(o) = r
    BY <2>2, <2>3, <2>4
  <2>6. q[m] = o /\ o \in Objects
    BY <1>1, <2>1, <2>3
  <2> HIDE DEF n, q, D
  <2>7. \A i \in 1..(Len(q) - 1) : r[i] = IF i < m THEN q[i] ELSE q[i + 1]
    BY <1>1, <2>4 DEF D
  <2>8. r \in Seq(Objects) /\ DOMAIN r = 1..(Len(q) - 1)
    <3>1. \A i \in 1..(Len(q) - 1) : r[i] \in Objects
      BY <1>1, <2>7 DEF D
    <3>2. DOMAIN r = 1..(Len(q) - 1) /\ Len(q) - 1 \in Nat
      BY <1>1, <2>3, <2>4 DEF D
    <3>3. r = [ i \in 1..(Len(q) - 1) |-> r[i] ]
      BY <2>4
    <3> QED
      BY <3>1, <3>2, <3>3, IsASeq
  <2>9. \A i, j \in D : q[i] = q[j] => i = j
    <3> SUFFICES ASSUME NEW i \in D, NEW j \in D, q[i] = q[j] PROVE i = j
      OBVIOUS
    <3>1. Once(q, q[i])
      BY <1>1 DEF q, D
    <3> QED
      BY <3>1 DEF Once, D
  <2>10. \A i \in DOMAIN r : \E j \in D : r[i] = q[j] /\ j # m /\ (i < m => j = i) /\ (~ (i < m) => j = i + 1)
    BY <1>1, <2>3, <2>7, <2>8 DEF D
  <2>11. \A j \in D : j # m => \E i \in DOMAIN r : r[i] = q[j]
    <3> SUFFICES ASSUME NEW j \in D, j # m PROVE \E i \in DOMAIN r : r[i] = q[j]
      OBVIOUS
    <3>1. CASE j < m
      BY <1>1, <2>3, <2>7, <2>8, <3>1 DEF D
    <3>2. CASE j > m
      <4>1. j - 1 \in DOMAIN r /\ r[j - 1] = q[j]
        BY <1>1, <2>3, <2>7, <2>8, <3>2 DEF D
      <4> QED
        BY <4>1
    <3> QED
      BY <1>1, <2>3, <3>1, <3>2 DEF D
  <2>12. In(r) = In(q) \ { o }
    <3>1. In(r) \subseteq In(q) \ { o }
      BY <2>6, <2>9, <2>10 DEF In, D
    <3>2. In(q) \ { o } \subseteq In(r)
      BY <2>6, <2>11 DEF In, D
    <3> QED
      BY <3>1, <3>2
  <2>13. ASSUME NEW p \in Objects PROVE Once(r, p)
    <3> SUFFICES ASSUME NEW i \in DOMAIN r, NEW j \in DOMAIN r, r[i] = r[j] PROVE i = j
      BY DEF Once
    <3> QED
      BY <1>1, <2>3, <2>8, <2>9, <2>10 DEF D
  <2> QED
    BY <1>1, <2>5, <2>8, <2>12, <2>13
<1> QED
  BY <1>a, <1>b


-----------------------------------------------------------------------------
(* The objects and the lists they are in *)

InModel == { "Starting", "Working", "Resumable" }
Deletions == { "delete" } \X Objects

(* Which lists an object is in is told by its phase.                        *)
ListedOnce == \A o \in Objects : Once(applications, o)
InLists(o) ==
  /\ o \in Listed <=> object[o].phase \in InModel
  /\ o \in closing => object[o].phase \in { "Closing", "Gone" }
  /\ object[o].phase = "Closing" => o \in closing
Existing(o) ==
  /\ object[o].phase = "none" <=> object[o] = NoObject
  /\ object[o].phase # "none" => object[o].appId \in AppIds
Deleting(o) ==
  /\ << "delete", o >> \in In(queue) <=> object[o].phase = "Gone"
  /\ Once(queue, << "delete", o >>)
ObjectsInv ==
  /\ ListedOnce
  /\ \A o \in Objects : InLists(o) /\ Existing(o) /\ Deleting(o)

LEMMA ListedIn == Listed = In(applications) /\ Listed' = In(applications')
BY DEF Listed, In

LEMMA QueueTyped ==
  ASSUME TypeOK
  PROVE  /\ queue \in Seq(Events) /\ applications \in Seq(Objects)
         /\ object \in [ Objects -> ObjectRecord ]
         /\ \A o \in Objects : object[o].phase \in Phases
BY DEF TypeOK, ObjectRecord

LEMMA DeletingKept ==
  ASSUME ObjectsInv, NEW o \in Objects, Keeps(queue, queue', Deletions),
         object'[o].phase = "Gone" <=> object[o].phase = "Gone"
  PROVE  Deleting(o)'
<1>1. << "delete", o >> \in Deletions /\ Deleting(o)
  BY DEF Deletions, ObjectsInv
<1>2. /\ << "delete", o >> \in In(queue') <=> << "delete", o >> \in In(queue)
      /\ Once(queue, << "delete", o >>) => Once(queue', << "delete", o >>)
  BY <1>1 DEF Keeps
<1> QED
  BY <1>1, <1>2 DEF Deleting

LEMMA Untouched ==
  ASSUME TypeOK, ObjectsInv, UNCHANGED << object, applications, closing >>,
         Keeps(queue, queue', Deletions)
  PROVE  ObjectsInv'
<1>1. ListedOnce'
  BY DEF ObjectsInv, ListedOnce
<1>2. ASSUME NEW o \in Objects PROVE InLists(o)' /\ Existing(o)' /\ Deleting(o)'
  <2>1. InLists(o)' /\ Existing(o)'
    BY ListedIn DEF ObjectsInv, InLists, Existing
  <2> QED
    BY <2>1, DeletingKept
<1> QED
  BY <1>1, <1>2 DEF ObjectsInv

LEMMA NotNone == ASSUME NEW r, r.phase # "none" PROVE r # NoObject
BY DEF NoObject

(* An object is changed and stays in its list. *)
LEMMA Changed ==
  ASSUME TypeOK, ObjectsInv, NEW o \in Objects, NEW r,
         object' = [ object EXCEPT ![o] = r ], UNCHANGED << applications, closing >>,
         r.appId = object[o].appId, object[o].phase # "none",
         r.phase = object[o].phase \/ (object[o].phase \in InModel /\ r.phase \in InModel),
         Keeps(queue, queue', Deletions)
  PROVE  ObjectsInv'
<1>1. ListedOnce'
  BY DEF ObjectsInv, ListedOnce
<1>2. r.phase # "none" /\ (r.phase \in InModel <=> object[o].phase \in InModel)
      /\ (r.phase = "Gone" <=> object[o].phase = "Gone")
      /\ (r.phase = "Closing" <=> object[o].phase = "Closing")
  BY DEF InModel
<1>3. object'[o] = r /\ \A p \in Objects : p # o => object'[p] = object[p]
  BY QueueTyped
<1>4. ASSUME NEW p \in Objects PROVE InLists(p)' /\ Existing(p)' /\ Deleting(p)'
  <2>1. InLists(p)'
    BY <1>2, <1>3, ListedIn DEF ObjectsInv, InLists
  <2>2. Existing(p)'
    BY <1>2, <1>3, NotNone DEF ObjectsInv, Existing
  <2>3. Deleting(p)'
    BY <1>2, <1>3, DeletingKept
  <2> QED
    BY <2>1, <2>2, <2>3
<1> QED
  BY <1>1, <1>4 DEF ObjectsInv

LEMMA AddedObject ==
  ASSUME TypeOK, ObjectsInv, NEW a \in AppIds, NEW s, Add(a, s), closing' = closing,
         Keeps(queue, queue', Deletions)
  PROVE  ObjectsInv'
<1>1. PICK o \in Objects :
        /\ object[o] = NoObject
        /\ object' = [ object EXCEPT ![o] = [ NoObject EXCEPT !.appId = a,
                         !.phase = "Starting", !.processState = s ] ]
        /\ applications' = Append(applications, o)
  BY DEF Add
<1>2. PICK r : r = [ NoObject EXCEPT !.appId = a, !.phase = "Starting", !.processState = s ]
  OBVIOUS
<1>3. r.phase = "Starting" /\ r.appId = a
  BY <1>2 DEF NoObject
<1>4. object'[o] = r /\ \A p \in Objects : p # o => object'[p] = object[p]
  BY <1>1, <1>2, QueueTyped
<1>5. object[o].phase = "none"
  BY <1>1 DEF NoObject
<1>6. o \notin Listed /\ o \notin closing
  BY <1>5 DEF ObjectsInv, InLists, InModel
<1>7. Listed' = Listed \cup { o } /\ \A x : Once(applications, x) => Once(applications', x)
  <2>1. In(applications') = In(applications) \cup { o }
        /\ \A x : Once(applications, x) /\ (x # o \/ o \notin In(applications))
                    => Once(applications', x)
    BY <1>1, QueueTyped, InAppend
  <2> QED
    BY <1>6, <2>1, ListedIn
<1>8. ListedOnce'
  BY <1>7 DEF ObjectsInv, ListedOnce
<1>9. ASSUME NEW p \in Objects PROVE InLists(p)' /\ Existing(p)' /\ Deleting(p)'
  <2>1. InLists(p)'
    <3>1. CASE p = o
      BY <1>3, <1>4, <1>6, <1>7, <3>1 DEF InLists, InModel
    <3>2. CASE p # o
      BY <1>4, <1>7, <3>2 DEF ObjectsInv, InLists
    <3> QED
      BY <3>1, <3>2
  <2>2. Existing(p)'
    BY <1>3, <1>4, NotNone DEF ObjectsInv, Existing
  <2>3. object'[p].phase = "Gone" <=> object[p].phase = "Gone"
    BY <1>3, <1>4, <1>5
  <2> QED
    BY <2>1, <2>2, <2>3, DeletingKept
<1> QED
  BY <1>8, <1>9 DEF ObjectsInv

(* What stops leaves the model and is posted for deletion. *)
LEMMA RemovedObject ==
  ASSUME TypeOK, ObjectsInv, NEW o \in Objects, NEW r, NEW q \in Seq(Events),
         object' = [ object EXCEPT ![o] = r ], r.phase = "Gone",
         r.appId = object[o].appId, object[o].phase \notin { "none", "Gone" },
         Keeps(queue, q, Deletions), queue' = Append(q, << "delete", o >>),
         applications' = Without(o), closing' = closing
  PROVE  ObjectsInv'
<1>1. object'[o] = r /\ \A p \in Objects : p # o => object'[p] = object[p]
  BY QueueTyped
<1>2. /\ In(applications') = Listed \ { o }
      /\ \A p \in Objects : Once(applications', p)
  BY Removed DEF ObjectsInv, ListedOnce
<1>3. Listed' = Listed \ { o }
  BY <1>2, ListedIn
<1>4. << "delete", o >> \notin In(q)
      /\ \A p \in Objects : << "delete", p >> \in Deletions
      /\ << "delete", o >> \in Events
  <2>1. \A p \in Objects : << "delete", p >> \in Deletions
    BY DEF Deletions
  <2>2. << "delete", o >> \notin In(queue)
    BY DEF ObjectsInv, Deleting
  <2> QED
    BY <2>1, <2>2 DEF Keeps, Events
<1>5. /\ In(queue') = In(q) \cup { << "delete", o >> }
      /\ \A x : Once(q, x) => Once(queue', x)
  BY <1>4, InAppend
<1>6. ASSUME NEW p \in Objects PROVE InLists(p)' /\ Existing(p)' /\ Deleting(p)'
  <2>1. InLists(p)'
    BY <1>1, <1>3 DEF ObjectsInv, InLists, InModel
  <2>2. Existing(p)'
    BY <1>1, NotNone DEF ObjectsInv, Existing
  <2>3. Once(queue', << "delete", p >>)
    BY <1>4, <1>5 DEF ObjectsInv, Deleting, Keeps
  <2>4. << "delete", p >> \in In(queue') <=> p = o \/ << "delete", p >> \in In(queue)
    BY <1>4, <1>5 DEF Keeps
  <2>5. Deleting(p)'
    BY <1>1, <2>3, <2>4 DEF ObjectsInv, Deleting
  <2> QED
    BY <2>1, <2>2, <2>5
<1> QED
  BY <1>2, <1>6 DEF ObjectsInv, ListedOnce

LEMMA ClosingObject ==
  ASSUME TypeOK, ObjectsInv, NEW o \in Objects, LastSurfaceCloses(o)
  PROVE  ObjectsInv'
<1>1. /\ object[o].phase = "Working" /\ applications' = Without(o)
      /\ object' = [ object EXCEPT ![o].phase = "Closing" ]
      /\ closing' = closing \cup { o } /\ queue' = queue
  BY DEF LastSurfaceCloses
<1>2. /\ object'[o] = [ object[o] EXCEPT !.phase = "Closing" ]
      /\ \A p \in Objects : p # o => object'[p] = object[p]
  BY <1>1, QueueTyped
<1>3. object'[o].phase = "Closing" /\ object'[o].appId = object[o].appId
  BY <1>2, QueueTyped DEF ObjectRecord
<1>4. /\ In(applications') = Listed \ { o }
      /\ \A p \in Objects : Once(applications', p)
  BY <1>1, Removed DEF ObjectsInv, ListedOnce
<1>5. Listed' = Listed \ { o }
  BY <1>4, ListedIn
<1>6. ASSUME NEW p \in Objects PROVE InLists(p)' /\ Existing(p)' /\ Deleting(p)'
  <2>1. InLists(p)'
    BY <1>1, <1>2, <1>3, <1>5 DEF ObjectsInv, InLists, InModel
  <2>2. Existing(p)'
    BY <1>1, <1>2, <1>3, NotNone DEF ObjectsInv, Existing
  <2>3. object'[p].phase = "Gone" <=> object[p].phase = "Gone"
    BY <1>1, <1>2, <1>3
  <2> QED
    BY <1>1, <2>1, <2>2, <2>3, KeepsSame, DeletingKept
<1> QED
  BY <1>4, <1>6 DEF ObjectsInv, ListedOnce

LEMMA DeletedObject ==
  ASSUME TypeOK, ObjectsInv, NEW o \in Objects, Deleted(o)
  PROVE  ObjectsInv'
<1>1. /\ queue # << >> /\ Head(queue) = << "delete", o >>
      /\ object' = [ object EXCEPT ![o] = NoObject ]
      /\ closing' = closing \ { o } /\ applications' = applications
      /\ \/ queue' = Tail(queue)
         \/ queue' = Append(Tail(queue), << "start", object[o].appId >>)
            /\ object[o].restart
  BY DEF Deleted, Handle
<1>2. object'[o] = NoObject /\ \A p \in Objects : p # o => object'[p] = object[p]
  BY <1>1, QueueTyped
<1>3. /\ In(queue) = In(Tail(queue)) \cup { << "delete", o >> }
      /\ Once(queue, << "delete", o >>) => << "delete", o >> \notin In(Tail(queue))
      /\ \A x : Once(queue, x) => Once(Tail(queue), x)
  BY <1>1, QueueTyped, InTail
<1>4. << "delete", o >> \in In(queue) /\ << "delete", o >> \notin In(Tail(queue))
      /\ object[o].phase = "Gone" /\ object[o].appId \in AppIds
  BY <1>3 DEF ObjectsInv, Deleting, Existing
<1>5. \A p \in Objects : /\ << "delete", p >> \in In(queue') <=> << "delete", p >> \in In(Tail(queue))
                         /\ Once(Tail(queue), << "delete", p >>) => Once(queue', << "delete", p >>)
  <2>1. CASE queue' = Tail(queue)
    BY <2>1
  <2>2. CASE queue' = Append(Tail(queue), << "start", object[o].appId >>)
    <3>0. << "start", object[o].appId >> \in Events
      BY <1>4 DEF Events
    <3>1. PICK e \in Events : e = << "start", object[o].appId >>
      BY <3>0
    <3>4. \A p : e # << "delete", p >>
      BY <3>1
    <3>2. Tail(queue) \in Seq(Events)
      BY <1>1, QueueTyped, Behind
    <3>3. /\ In(queue') = In(Tail(queue)) \cup { e }
          /\ \A x : Once(Tail(queue), x) /\ x # e => Once(queue', x)
      BY <2>2, <3>1, <3>2, InAppend
    <3> QED
      BY <3>3, <3>4
  <2> QED
    BY <1>1, <2>1, <2>2
<1>6. ASSUME NEW p \in Objects PROVE InLists(p)' /\ Existing(p)' /\ Deleting(p)'
  <2>0. NoObject.phase = "none"
    BY DEF NoObject
  <2>1. InLists(p)'
    BY <1>1, <1>2, <1>4, <2>0, ListedIn DEF ObjectsInv, InLists, InModel
  <2>2. Existing(p)'
    BY <1>2, <2>0 DEF ObjectsInv, Existing
  <2>3. Once(queue', << "delete", p >>)
    BY <1>3, <1>5 DEF ObjectsInv, Deleting
  <2>4. << "delete", p >> \in In(queue') <=> p # o /\ << "delete", p >> \in In(queue)
    BY <1>3, <1>4, <1>5
  <2>5. Deleting(p)'
    BY <1>2, <2>0, <2>3, <2>4 DEF ObjectsInv, Deleting
  <2> QED
    BY <2>1, <2>2, <2>5
<1> QED
  BY <1>1, <1>6 DEF ObjectsInv, ListedOnce

-----------------------------------------------------------------------------
(* Starts that wait *)

Starts == { "start" } \X AppIds

LEMMA PostedIn == ASSUME NEW e PROVE (Posted(e) <=> e \in In(queue)) /\ (Posted(e)' <=> e \in In(queue'))
BY DEF Posted, In

(* A trigger stays: an object that closes and is to restart, or a posted start. *)
LEMMA TriggersStay ==
  ASSUME TypeOK, QueuedHasTrigger, queuedStarts' \subseteq queuedStarts,
         closing' = closing \/ closing \subseteq closing',
         \A o \in closing : object'[o].appId = object[o].appId
                            /\ (object[o].restart => object'[o].restart),
         Keeps(queue, queue', Starts)
  PROVE  QueuedHasTrigger'
<1> SUFFICES ASSUME NEW a \in queuedStarts
             PROVE  \/ \E o \in closing' : object'[o].appId = a /\ object'[o].restart
                    \/ Posted(<< "start", a >>)'
  BY DEF QueuedHasTrigger
<1>1. << "start", a >> \in Starts
  BY DEF TypeOK, Starts
<1>2. << "start", a >> \in In(queue') <=> << "start", a >> \in In(queue)
  BY <1>1 DEF Keeps
<1>3. CASE \E o \in closing : object[o].appId = a /\ object[o].restart
  BY <1>3
<1>4. CASE Posted(<< "start", a >>)
  BY <1>2, <1>4, PostedIn
<1> QED
  BY <1>3, <1>4 DEF QueuedHasTrigger

(* startApplication() with the starts queued at that time. *)
LEMMA StartWaits ==
  ASSUME TypeOK, ObjectsInv, NEW Q \in SUBSET AppIds, NEW q, NEW b \in AppIds,
         StartApplication(b, Q), closing' = closing, queue' = q,
         \A a \in Q : \/ \E o \in closing : object[o].appId = a /\ object[o].restart
                      \/ << "start", a >> \in In(q)
  PROVE  QueuedHasTrigger'
<1>1. CASE queuedStarts' = Q /\ object' = object
  BY <1>1, PostedIn DEF QueuedHasTrigger
<1>2. CASE QueueStart(b, Q)
  <2>1. PICK o \in closing :
          object[o].appId = b /\ object' = [ object EXCEPT ![o].restart = TRUE ]
    BY <1>2 DEF QueueStart, ClosingApps
  <2>2. queuedStarts' = Q \cup { b }
    BY <1>2 DEF QueueStart
  <2>3. closing \subseteq Objects
    BY DEF TypeOK
  <2>4. object'[o].appId = b /\ object'[o].restart
    BY <2>1, <2>3, QueueTyped DEF ObjectRecord
  <2>5. \A p \in Objects : p # o => object'[p] = object[p]
    BY <2>1, <2>3, QueueTyped
  <2>6. \A p \in closing : object'[p].appId = object[p].appId
                            /\ (object[p].restart => object'[p].restart)
    BY <2>1, <2>3, <2>4, <2>5
  <2> QED
    BY <2>1, <2>2, <2>4, <2>6, PostedIn DEF QueuedHasTrigger
<1>3. CASE queuedStarts' = Q /\ Add(b, "Unknown")
  <2>1. PICK o \in Objects : object[o] = NoObject /\ \A p \in Objects : p # o => object'[p] = object[p]
    BY <1>3, QueueTyped DEF Add
  <2>2. o \notin closing /\ closing \subseteq Objects
    BY <2>1 DEF ObjectsInv, InLists, NoObject, TypeOK
  <2>3. \A p \in closing : object'[p] = object[p]
    BY <2>1, <2>2
  <2> QED
    BY <1>3, <2>3, PostedIn DEF QueuedHasTrigger
<1> QED
  BY <1>1, <1>2, <1>3 DEF StartApplication

LEMMA StartHandledWaits ==
  ASSUME TypeOK, ObjectsInv, QueuedHasTrigger, NEW b \in AppIds, QueuedStart(b)
  PROVE  QueuedHasTrigger'
<1>1. /\ queue # << >> /\ Head(queue) = << "start", b >> /\ queue' = Tail(queue)
      /\ StartApplication(b, queuedStarts \ { b }) /\ closing' = closing
  BY DEF QueuedStart, Handle
<1>2. In(queue) = In(Tail(queue)) \cup { << "start", b >> }
  BY <1>1, QueueTyped, InTail
<1>3. \A a \in queuedStarts \ { b } :
        \/ \E o \in closing : object[o].appId = a /\ object[o].restart
        \/ << "start", a >> \in In(Tail(queue))
  <2> SUFFICES ASSUME NEW a \in queuedStarts, a # b, << "start", a >> \in In(queue)
               PROVE  << "start", a >> \in In(Tail(queue))
    BY PostedIn DEF QueuedHasTrigger
  <2>1. << "start", a >> # << "start", b >>
    OBVIOUS
  <2> QED
    BY <1>2, <2>1
<1>4. queuedStarts \ { b } \in SUBSET AppIds
  BY DEF TypeOK
<1> QED
  BY <1>1, <1>3, <1>4, StartWaits

LEMMA ShellStartWaits ==
  ASSUME TypeOK, ObjectsInv, QueuedHasTrigger, NEW b \in AppIds, ShellStarts(b)
  PROVE  QueuedHasTrigger'
<1>1. StartApplication(b, queuedStarts) /\ closing' = closing /\ queue' = queue
  BY DEF ShellStarts
<1>2. \A a \in queuedStarts :
        \/ \E o \in closing : object[o].appId = a /\ object[o].restart
        \/ << "start", a >> \in In(queue)
  BY PostedIn DEF QueuedHasTrigger
<1>3. queuedStarts \in SUBSET AppIds
  BY DEF TypeOK
<1> QED
  BY <1>1, <1>2, <1>3, StartWaits

LEMMA AppendIn ==
  ASSUME NEW q \in Seq(Events), NEW e \in Events
  PROVE  In(Append(q, e)) = In(q) \cup { e }
BY InAppend

LEMMA DeletedTriggers ==
  ASSUME TypeOK, ObjectsInv, QueuedHasTrigger, NEW o \in Objects, Deleted(o)
  PROVE  QueuedHasTrigger'
<1>1. /\ queue # << >> /\ Head(queue) = << "delete", o >>
      /\ object' = [ object EXCEPT ![o] = NoObject ] /\ queuedStarts' = queuedStarts
      /\ closing' = closing \ { o }
      /\ queue' = IF object[o].restart
                  THEN Append(Tail(queue), << "start", object[o].appId >>)
                  ELSE Tail(queue)
  BY DEF Deleted, Handle
<1>2. \A p \in Objects : p # o => object'[p] = object[p]
  BY <1>1, QueueTyped
<1>3. /\ In(queue) = In(Tail(queue)) \cup { << "delete", o >> } /\ Tail(queue) \in Seq(Events)
      /\ << "delete", o >> \in In(queue)
  <2>1. Tail(queue) \in Seq(Events)
    BY <1>1, QueueTyped, Behind
  <2>2. In(queue) = In(Tail(queue)) \cup { Head(queue) }
    BY <1>1, QueueTyped, InTail
  <2> QED
    BY <1>1, <2>1, <2>2
<1>4. object[o].appId \in AppIds /\ << "start", object[o].appId >> \in Events
  <2>1. object[o].appId \in AppIds
    BY <1>3 DEF ObjectsInv, Deleting, Existing
  <2> QED
    BY <2>1 DEF Events
<1>5. /\ In(Tail(queue)) \subseteq In(queue')
      /\ object[o].restart => << "start", object[o].appId >> \in In(queue')
  <2>1. CASE object[o].restart
    <3>1. PICK e \in Events : e = << "start", object[o].appId >>
      BY <1>4
    <3>2. queue' = Append(Tail(queue), e)
      BY <1>1, <2>1, <3>1
    <3>3. Tail(queue) \in Seq(Events)
      BY <1>3
    <3>4. In(Append(Tail(queue), e)) = In(Tail(queue)) \cup { e }
      BY <3>3, AppendIn, Zenon
    <3> QED
      BY <3>1, <3>2, <3>4
  <2>2. CASE ~ object[o].restart
    BY <1>1, <2>2
  <2> QED
    BY <2>1, <2>2
<1> SUFFICES ASSUME NEW a \in queuedStarts
             PROVE  \/ \E p \in closing' : object'[p].appId = a /\ object'[p].restart
                    \/ Posted(<< "start", a >>)'
  BY <1>1 DEF QueuedHasTrigger
<1>6. CASE Posted(<< "start", a >>)
  <2>1. << "start", a >> \in In(Tail(queue))
    BY <1>3, <1>6, PostedIn
  <2> QED
    BY <1>5, <2>1, PostedIn
<1>7. CASE \E p \in closing : object[p].appId = a /\ object[p].restart
  <2>1. PICK p \in closing : object[p].appId = a /\ object[p].restart
    BY <1>7
  <2>2. CASE p = o
    BY <1>5, <2>1, <2>2, PostedIn
  <2>3. CASE p # o
    BY <1>1, <1>2, <2>1, <2>3 DEF TypeOK
  <2> QED
    BY <2>2, <2>3
<1> QED
  BY <1>6, <1>7 DEF QueuedHasTrigger

-----------------------------------------------------------------------------
(* What most handlers do: they change one object, which stays in its list or *)
(* leaves the model; q is the queue but for the deletion posted then.        *)

Alter(o, r) ==
  /\ r.appId = object[o].appId
  /\ r.sessions \subseteq object[o].sessions
  /\ object[o].restart => r.restart
  /\ object[o].phase # "none"
Stays(o, r, q) ==
  /\ r.phase = object[o].phase \/ (object[o].phase \in InModel /\ r.phase \in InModel)
  /\ applications' = applications /\ queue' = q
Leaves(o, r, q) ==
  /\ r.phase = "Gone" /\ object[o].phase \notin { "none", "Gone" }
  /\ applications' = Without(o) /\ queue' = Append(q, << "delete", o >>)
Altered(q) ==
  \E o \in Objects : \E r \in ObjectRecord :
    /\ object' = [ object EXCEPT ![o] = r ] /\ Alter(o, r)
    /\ Stays(o, r, q) \/ Leaves(o, r, q)

LEMMA DeletionEvent ==
  ASSUME NEW o \in Objects
  PROVE  /\ << "delete", o >> \in Events /\ << "delete", o >> \in Deletions
BY DEF Events, Deletions

LEMMA AlteredTypes ==
  ASSUME TypeOK, ObjectsInv, NEW q \in Seq(Events), Altered(q)
  PROVE  /\ object' \in [ Objects -> ObjectRecord ]
         /\ applications' \in Seq(Objects)
         /\ queue' \in Seq(Events)
<1>1. PICK o \in Objects, r \in ObjectRecord :
        /\ object' = [ object EXCEPT ![o] = r ]
        /\ Stays(o, r, q) \/ Leaves(o, r, q)
  BY DEF Altered
<1>2. object' \in [ Objects -> ObjectRecord ]
  BY <1>1, QueueTyped
<1>3. CASE Stays(o, r, q)
  BY <1>2, <1>3, QueueTyped DEF Stays
<1>4. CASE Leaves(o, r, q)
  <2>1. applications' = Without(o) /\ queue' = Append(q, << "delete", o >>)
    BY <1>4 DEF Leaves
  <2>2. Without(o) \in Seq(Objects)
    BY Removed DEF ObjectsInv, ListedOnce
  <2>3. PICK e \in Events : e = << "delete", o >>
    BY DeletionEvent
  <2>4. Append(q, e) \in Seq(Events)
    BY Ahead
  <2> QED
    BY <1>2, <2>1, <2>2, <2>3, <2>4
<1> QED
  BY <1>1, <1>3, <1>4

LEMMA AlteredQueue ==
  ASSUME TypeOK, NEW q \in Seq(Events), Altered(q), NEW K, K \cap Deletions = {}
  PROVE  Keeps(q, queue', K)
<1>1. PICK o \in Objects, r \in ObjectRecord : Stays(o, r, q) \/ Leaves(o, r, q)
  BY DEF Altered
<1>2. CASE Stays(o, r, q)
  BY <1>2, KeepsSame DEF Stays
<1>3. CASE Leaves(o, r, q)
  <2>1. PICK e \in Events : e = << "delete", o >> /\ e \notin K
    BY DeletionEvent
  <2>2. queue' = Append(q, e)
    BY <1>3, <2>1 DEF Leaves
  <2> QED
    BY <2>1, <2>2, KeepsAppend
<1> QED
  BY <1>1, <1>2, <1>3

LEMMA AlteredObjects ==
  ASSUME TypeOK, ObjectsInv, NEW q \in Seq(Events), Altered(q), closing' = closing,
         Keeps(queue, q, Deletions)
  PROVE  ObjectsInv'
<1>1. PICK o \in Objects, r \in ObjectRecord :
        /\ object' = [ object EXCEPT ![o] = r ] /\ Alter(o, r)
        /\ Stays(o, r, q) \/ Leaves(o, r, q)
  BY DEF Altered
<1>2. CASE Stays(o, r, q)
  BY <1>1, <1>2, Changed DEF Stays, Alter
<1>3. CASE Leaves(o, r, q)
  BY <1>1, <1>3, RemovedObject DEF Leaves, Alter
<1> QED
  BY <1>1, <1>2, <1>3

(* Objects keep their application, their pending restart and only lose      *)
(* sessions; none enters the model.                                         *)
Calm ==
  \A o \in Objects :
    /\ object'[o].sessions \subseteq object[o].sessions
    /\ object[o].phase # "none" => object'[o].appId = object[o].appId
    /\ object[o].restart => object'[o].restart

LEMMA AlteredCalm ==
  ASSUME TypeOK, ObjectsInv, NEW q, Altered(q)
  PROVE  Calm /\ Listed' \subseteq Listed
<1>1. PICK o \in Objects, r \in ObjectRecord :
        /\ object' = [ object EXCEPT ![o] = r ] /\ Alter(o, r)
        /\ Stays(o, r, q) \/ Leaves(o, r, q)
  BY DEF Altered
<1>2. object'[o] = r /\ \A p \in Objects : p # o => object'[p] = object[p]
  BY <1>1, QueueTyped
<1>3. Calm
  BY <1>1, <1>2 DEF Calm, Alter
<1>4. CASE Stays(o, r, q)
  BY <1>3, <1>4 DEF Stays, Listed
<1>5. CASE Leaves(o, r, q)
  <2>1. In(applications') = Listed \ { o }
    BY <1>5, Removed DEF ObjectsInv, ListedOnce, Leaves
  <2> QED
    BY <1>3, <2>1, ListedIn
<1> QED
  BY <1>1, <1>4, <1>5

(* Where sessions, restarts and applications stay, so do the triggers.      *)
LEMMA CalmTriggers ==
  ASSUME TypeOK, ObjectsInv, QueuedHasTrigger, Calm, queuedStarts' = queuedStarts,
         closing \subseteq closing', Keeps(queue, queue', Starts)
  PROVE  QueuedHasTrigger'
<1>1. \A o \in closing : o \in Objects /\ object[o].phase # "none"
  BY DEF TypeOK, ObjectsInv, InLists
<1>2. \A o \in closing : object'[o].appId = object[o].appId
                           /\ (object[o].restart => object'[o].restart)
  BY <1>1 DEF Calm
<1> QED
  BY <1>2, TriggersStay

-----------------------------------------------------------------------------
(* The handlers that alter one object *)

LEMMA ObjectSet ==
  ASSUME NEW x \in ObjectRecord, NEW p \in Phases, NEW s \in ProcessStates, NEW S \in SUBSET Clients
  PROVE  /\ [ x EXCEPT !.phase = p ] \in ObjectRecord
         /\ [ x EXCEPT !.phase = p, !.processState = s ] \in ObjectRecord
         /\ [ x EXCEPT !.processState = s, !.phase = p ] \in ObjectRecord
         /\ [ x EXCEPT !.sessions = S ] \in ObjectRecord
         /\ [ x EXCEPT !.restart = TRUE ] \in ObjectRecord
         /\ x.phase \in Phases /\ x.processState \in ProcessStates
         /\ x.sessions \subseteq Clients /\ x.restart \in BOOLEAN
BY Zenon DEF ObjectRecord

LEMMA ObjectGet ==
  ASSUME NEW x \in ObjectRecord, NEW p, NEW s, NEW S
  PROVE  /\ [ x EXCEPT !.phase = p ].phase = p
         /\ [ x EXCEPT !.phase = p ].appId = x.appId
         /\ [ x EXCEPT !.phase = p ].sessions = x.sessions
         /\ [ x EXCEPT !.phase = p ].restart = x.restart
         /\ [ x EXCEPT !.processState = s, !.phase = p ].phase = p
         /\ [ x EXCEPT !.processState = s, !.phase = p ].appId = x.appId
         /\ [ x EXCEPT !.processState = s, !.phase = p ].sessions = x.sessions
         /\ [ x EXCEPT !.processState = s, !.phase = p ].restart = x.restart
         /\ [ x EXCEPT !.sessions = S ].sessions = S
         /\ [ x EXCEPT !.sessions = S ].phase = x.phase
         /\ [ x EXCEPT !.sessions = S ].processState = x.processState
         /\ [ x EXCEPT !.sessions = S ].appId = x.appId
         /\ [ x EXCEPT !.sessions = S ].restart = x.restart
BY DEF ObjectRecord

LEMMA ListedPhase ==
  ASSUME TypeOK, ObjectsInv, NEW o \in Listed
  PROVE  o \in Objects /\ object[o] \in ObjectRecord /\ object[o].phase \in InModel
         /\ object[o].phase \notin { "none", "Gone", "Closing" }
<1>1. o \in Objects
  BY QueueTyped DEF Listed
<1> QED
  BY <1>1, QueueTyped DEF ObjectsInv, InLists, InModel

LEMMA BecomeAlters ==
  ASSUME TypeOK, NEW o \in Objects, NEW r \in ObjectRecord, Become(o, r), Alter(o, r),
         \/ r.phase = "Gone" \/ r.phase = object[o].phase
         \/ (r.phase \in InModel /\ object[o].phase \in InModel)
  PROVE  Altered(queue)
<1>1. CASE r.phase = "Gone" /\ object[o].phase # "Gone"
  <2>1. Remove(o, r)
    BY <1>1 DEF Become
  <2>2. Leaves(o, r, queue) /\ object' = [ object EXCEPT ![o] = r ]
    BY <1>1, <2>1 DEF Remove, Leaves, Alter
  <2> QED
    BY <2>2 DEF Altered
<1>2. CASE ~ (r.phase = "Gone" /\ object[o].phase # "Gone")
  <2>1. Replace(o, r)
    BY <1>2 DEF Become
  <2>2. Stays(o, r, queue) /\ object' = [ object EXCEPT ![o] = r ]
    BY <1>2, <2>1 DEF Replace, Stays
  <2> QED
    BY <2>2 DEF Altered
<1> QED
  BY <1>1, <1>2

LEMMA StopAlters ==
  ASSUME TypeOK, ObjectsInv, NEW a \in AppIds, StopApplication(a)
  PROVE  Altered(queue)
<1>1. PICK o : o = FindApp(a)
  OBVIOUS
<1>2. o \in Objects /\ object[o] \in ObjectRecord /\ object[o].phase \in InModel
      /\ object[o].phase \notin { "none", "Gone" }
  BY <1>1, Found, ListedPhase DEF StopApplication
<1>3. PICK r : r = [ object[o] EXCEPT !.phase = "Gone" ]
  OBVIOUS
<1>4. r \in ObjectRecord /\ r.phase = "Gone" /\ Alter(o, r)
  <2>1. "Gone" \in Phases
    BY DEF Phases
  <2>2. r \in ObjectRecord
    BY <1>2, <1>3, <2>1 DEF ObjectRecord
  <2> QED
    BY <1>2, <1>3, <2>2, ObjectGet DEF Alter
<1>5. Remove(o, r)
  BY <1>1, <1>3 DEF StopApplication
<1>6. Leaves(o, r, queue) /\ object' = [ object EXCEPT ![o] = r ]
  BY <1>2, <1>4, <1>5 DEF Remove, Leaves
<1> QED
  BY <1>2, <1>4, <1>6 DEF Altered

LEMMA RespawnAlters ==
  ASSUME TypeOK, NEW o \in Objects, Respawn(o)
  PROVE  Altered(Append(queue, << "launch", object[o].appId >>))
<1>1. object[o] \in ObjectRecord /\ object[o].phase = "Resumable"
  BY QueueTyped DEF Respawn
<1>2. PICK r : r = [ object[o] EXCEPT !.phase = "Starting" ]
  OBVIOUS
<1>3. r \in ObjectRecord /\ r.phase = "Starting" /\ Alter(o, r)
  BY <1>1, <1>2 DEF Alter, ObjectRecord, Phases
<1>4. object' = [ object EXCEPT ![o] = r ]
  BY <1>2 DEF Respawn
<1>5. Stays(o, r, Append(queue, << "launch", object[o].appId >>))
  BY <1>1, <1>3 DEF Respawn, Stays, InModel, lists
<1> QED
  BY <1>3, <1>4, <1>5 DEF Altered

LEMMA ReadyAlters ==
  ASSUME TypeOK, NEW o \in Objects, Ready(o)
  PROVE  Altered(queue)
<1>1. object[o] \in ObjectRecord /\ object[o].phase = "Starting"
  BY QueueTyped DEF Ready
<1>2. PICK r : r = [ object[o] EXCEPT !.phase = "Working" ]
  OBVIOUS
<1>3. r \in ObjectRecord /\ r.phase = "Working" /\ Alter(o, r)
  BY <1>1, <1>2 DEF Alter, ObjectRecord, Phases
<1>4. object' = [ object EXCEPT ![o] = r ]
  BY <1>2 DEF Ready
<1>5. Stays(o, r, queue)
  BY <1>1, <1>3 DEF Ready, Stays, InModel, lists
<1> QED
  BY <1>3, <1>4, <1>5 DEF Altered

(* A handler sets the process state of an object and, perhaps, its phase.   *)
LEMMA SetAlters ==
  ASSUME NEW o, object[o] \in ObjectRecord, object[o].phase # "none",
         NEW p \in Phases, NEW s \in ProcessStates
  PROVE  /\ [ object[o] EXCEPT !.processState = s, !.phase = p ] \in ObjectRecord
         /\ [ object[o] EXCEPT !.processState = s, !.phase = p ].phase = p
         /\ Alter(o, [ object[o] EXCEPT !.processState = s, !.phase = p ])
<1>1. PICK x \in ObjectRecord : x = object[o]
  OBVIOUS
<1>2. PICK r : r = [ x EXCEPT !.processState = s, !.phase = p ]
  OBVIOUS
<1>3. r \in ObjectRecord
  BY <1>2, ObjectSet
<1>4. r.phase = p /\ r.appId = x.appId /\ r.sessions = x.sessions /\ r.restart = x.restart
  BY <1>2, ObjectGet
<1>5. Alter(o, r)
  BY <1>1, <1>4 DEF Alter
<1> QED
  BY <1>1, <1>2, <1>3, <1>4, <1>5

LEMMA StartingAlters ==
  ASSUME TypeOK, ObjectsInv, NEW a \in AppIds, ProcessStarting(a)
  PROVE  \/ Altered(queue)
         \/ ~ HasApp(a) /\ Add(a, "Running") /\ queue' = queue
         \/ UNCHANGED << object, applications, queue >>
<1>1. CASE ~ HasApp(a)
  BY <1>1 DEF ProcessStarting
<1>2. CASE HasApp(a)
  <2>1. PICK o : o = FindApp(a)
    OBVIOUS
  <2>2. o \in Objects /\ object[o] \in ObjectRecord /\ object[o].phase \in InModel
        /\ object[o].phase # "none"
    BY <1>2, <2>1, Found, ListedPhase
  <2>3. PICK p : p = IF object[o].phase = "Resumable" /\ object[o].processState # "Running"
                     THEN "Starting" ELSE object[o].phase
    OBVIOUS
  <2>4. p \in Phases /\ p \in InModel /\ "Running" \in ProcessStates
    BY <2>2, <2>3 DEF InModel, Phases, ProcessStates
  <2>5. PICK r : r = [ object[o] EXCEPT !.processState = "Running", !.phase = p ]
    OBVIOUS
  <2>6. r \in ObjectRecord /\ r.phase = p /\ Alter(o, r)
    <3>0. p \in Phases
      BY <2>4
    <3>1. PICK s \in ProcessStates : s = "Running"
      BY <2>4
    <3>2. /\ [ object[o] EXCEPT !.processState = s, !.phase = p ] \in ObjectRecord
         /\ [ object[o] EXCEPT !.processState = s, !.phase = p ].phase = p
         /\ Alter(o, [ object[o] EXCEPT !.processState = s, !.phase = p ])
      BY <2>2, <3>0, SetAlters
    <3> QED
      BY <2>5, <3>1, <3>2
  <2>7. object' = [ object EXCEPT ![o] = r ] /\ applications' = applications /\ queue' = queue
    <3>1. object' = [ object EXCEPT ![o].processState = "Running",
             ![o].phase = IF @ = "Resumable" /\ object[o].processState # "Running"
                          THEN "Starting" ELSE @ ]
      BY <1>2, <2>1 DEF ProcessStarting
    <3>2. object' = [ object EXCEPT ![o] = r ]
      BY <2>2, <2>3, <2>5, <3>1, QueueTyped DEF ObjectRecord
    <3> QED
      BY <1>2, <3>2 DEF ProcessStarting
  <2>8. Stays(o, r, queue)
    BY <2>2, <2>4, <2>6, <2>7 DEF Stays
  <2> QED
    BY <2>2, <2>6, <2>7, <2>8 DEF Altered
<1> QED
  BY <1>1, <1>2

LEMMA FailedAlters ==
  ASSUME TypeOK, ObjectsInv, NEW a \in AppIds, ProcessFailed(a)
  PROVE  Altered(queue) \/ UNCHANGED << object, applications, queue >>
<1>1. CASE ~ HasApp(a)
  BY <1>1 DEF ProcessFailed
<1>2. CASE HasApp(a)
  <2>1. PICK o : o = FindApp(a)
    OBVIOUS
  <2>2. o \in Objects /\ object[o] \in ObjectRecord /\ object[o].phase \in InModel
        /\ object[o].phase # "none"
    BY <1>2, <2>1, Found, ListedPhase
  <2>3. PICK p : p = IF object[o].phase = "Starting" /\ object[o].processState # "Failed"
                     THEN "Gone" ELSE object[o].phase
    OBVIOUS
  <2>4. p \in Phases /\ "Failed" \in ProcessStates /\ (p = "Gone" \/ p = object[o].phase)
    BY <2>2, <2>3 DEF InModel, Phases, ProcessStates
  <2>5. PICK r : r = [ object[o] EXCEPT !.processState = "Failed", !.phase = p ]
    OBVIOUS
  <2>6. r \in ObjectRecord /\ r.phase = p /\ Alter(o, r)
    <3>0. p \in Phases
      BY <2>4
    <3>1. PICK s \in ProcessStates : s = "Failed"
      BY <2>4
    <3>2. /\ [ object[o] EXCEPT !.processState = s, !.phase = p ] \in ObjectRecord
         /\ [ object[o] EXCEPT !.processState = s, !.phase = p ].phase = p
         /\ Alter(o, [ object[o] EXCEPT !.processState = s, !.phase = p ])
      BY <2>2, <3>0, SetAlters
    <3> QED
      BY <2>5, <3>1, <3>2
  <2>7. Become(o, r)
    <3>1. Become(o, [ object[o] EXCEPT !.processState = "Failed",
             !.phase = IF @ = "Starting" /\ object[o].processState # "Failed"
                       THEN "Gone" ELSE @ ])
      BY <1>2, <2>1 DEF ProcessFailed
    <3>2. [ object[o] EXCEPT !.processState = "Failed",
             !.phase = IF @ = "Starting" /\ object[o].processState # "Failed"
                       THEN "Gone" ELSE @ ] = r
      BY <2>2, <2>3, <2>5 DEF ObjectRecord
    <3> QED
      BY <3>1, <3>2
  <2> QED
    BY <2>2, <2>4, <2>6, <2>7, BecomeAlters
<1> QED
  BY <1>1, <1>2

LEMMA StoppedAlters ==
  ASSUME TypeOK, ObjectsInv, NEW a \in AppIds, ProcessStopped(a)
  PROVE  Altered(queue) \/ UNCHANGED << object, applications, queue >>
<1>1. SUFFICES ASSUME NEW o \in FoundForStop(a),
         Become(o, [ object[o] EXCEPT !.processState = "Stopped",
               !.phase = IF @ \in { "Starting", "Resumable", "Closing" }
                         THEN "Gone" ELSE @ ])
      PROVE Altered(queue)
  BY DEF ProcessStopped
<1>2. o \in Objects /\ object[o] \in ObjectRecord /\ object[o].phase # "none"
  <2>1. CASE HasApp(a)
    <3>1. o = FindApp(a)
      BY <2>1 DEF FoundForStop
    <3> QED
      BY <2>1, <3>1, Found, ListedPhase
  <2>2. CASE ~ HasApp(a)
    <3>1. o \in closing
      BY <2>2 DEF FoundForStop, ClosingApps
    <3> QED
      BY <3>1, QueueTyped DEF TypeOK, ObjectsInv, InLists
  <2> QED
    BY <2>1, <2>2
<1>3. PICK p : p = IF object[o].phase \in { "Starting", "Resumable", "Closing" }
                   THEN "Gone" ELSE object[o].phase
  OBVIOUS
<1>4. p \in Phases /\ "Stopped" \in ProcessStates /\ (p = "Gone" \/ p = object[o].phase)
  BY <1>2, <1>3, QueueTyped DEF Phases, ProcessStates
<1>5. PICK r : r = [ object[o] EXCEPT !.processState = "Stopped", !.phase = p ]
  OBVIOUS
<1>6. r \in ObjectRecord /\ r.phase = p /\ Alter(o, r)
  <2>0. p \in Phases
    BY <1>4
  <2>1. PICK s \in ProcessStates : s = "Stopped"
    BY <1>4
  <2>2. /\ [ object[o] EXCEPT !.processState = s, !.phase = p ] \in ObjectRecord
       /\ [ object[o] EXCEPT !.processState = s, !.phase = p ].phase = p
       /\ Alter(o, [ object[o] EXCEPT !.processState = s, !.phase = p ])
    BY <1>2, <2>0, SetAlters
  <2> QED
    BY <1>5, <2>1, <2>2
<1>7. [ object[o] EXCEPT !.processState = "Stopped",
               !.phase = IF @ \in { "Starting", "Resumable", "Closing" }
                         THEN "Gone" ELSE @ ] = r
  BY <1>2, <1>3, <1>5 DEF ObjectRecord
<1>8. Become(o, r)
  BY <1>1, <1>7
<1> QED
  BY <1>2, <1>4, <1>6, <1>8, BecomeAlters

(* What a session that stops leaves of its object. *)
LEMMA AfterLast ==
  ASSUME NEW x \in ObjectRecord, NEW r \in AfterLastSession(x)
  PROVE  /\ r \in ObjectRecord /\ r.appId = x.appId /\ r.sessions = x.sessions
         /\ r.restart = x.restart
         /\ r.phase = "Gone" \/ r.phase = x.phase \/ (r.phase \in InModel /\ x.phase \in InModel)
<1> DEFINE gone == [ x EXCEPT !.phase = "Gone" ]
           kept == [ x EXCEPT !.phase = "Resumable", !.processState = "Suspended" ]
           same == [ x EXCEPT !.phase = "Resumable" ]
<1>1. \/ r = gone \/ r = x
      \/ x.phase = "Working" /\ (r = kept \/ r = same)
  BY DEF AfterLastSession
<1>2. "Gone" \in Phases /\ "Resumable" \in Phases /\ "Suspended" \in ProcessStates
      /\ { "Working", "Resumable" } \subseteq InModel
  BY DEF Phases, ProcessStates, InModel
<1>3. CASE r = gone
  BY <1>2, <1>3, ObjectGet, ObjectSet
<1>4. CASE r = x
  BY <1>4
<1>5. CASE x.phase = "Working" /\ r = same
  <2>1. same.phase = "Resumable" /\ same.appId = x.appId /\ same.sessions = x.sessions
        /\ same.restart = x.restart
    BY ObjectGet
  <2>2. same \in ObjectRecord
    BY <1>2 DEF ObjectRecord
  <2> QED
    BY <1>2, <1>5, <2>1, <2>2
<1>6. CASE x.phase = "Working" /\ r = kept
  <2>1. kept.phase = "Resumable" /\ kept.appId = x.appId /\ kept.sessions = x.sessions
        /\ kept.restart = x.restart
    BY DEF ObjectRecord
  <2>2. kept \in ObjectRecord
    BY <1>2 DEF ObjectRecord
  <2> QED
    BY <1>2, <1>6, <2>1, <2>2
<1> QED
  BY <1>1, <1>3, <1>4, <1>5, <1>6

LEMMA StoppingAlters ==
  ASSUME TypeOK, ObjectsInv, NEW c \in Clients, SessionStopping(c)
  PROVE  \/ /\ Altered(Tail(queue))
            /\ \E o \in Objects : c \in object[o].sessions /\ c \notin object'[o].sessions
         \/ /\ UNCHANGED << object, applications >> /\ queue' = Tail(queue)
            /\ \A o \in Objects : c \notin object[o].sessions
<1>1. SUFFICES ASSUME NEW o \in Objects, c \in object[o].sessions,
         NEW less, less = [ object[o] EXCEPT !.sessions = @ \ { c } ],
         NEW r \in IF less.sessions = {} THEN AfterLastSession(less) ELSE { less },
         object' = [ object EXCEPT ![o] = r ],
         IF r.phase = "Gone" /\ object[o].phase # "Gone"
         THEN /\ applications' = Without(o)
              /\ queue' = Append(Tail(queue), << "delete", o >>)
         ELSE UNCHANGED applications /\ queue' = Tail(queue)
       PROVE Altered(Tail(queue)) /\ c \notin object'[o].sessions
  BY DEF SessionStopping
<1>2. object[o] \in ObjectRecord
  BY QueueTyped
<1>3. PICK S : S = object[o].sessions \ { c }
  OBVIOUS
<1>4. less = [ object[o] EXCEPT !.sessions = S ] /\ S \in SUBSET Clients
  <2>1. less = [ object[o] EXCEPT !.sessions = S ]
    BY <1>1, <1>2, <1>3 DEF ObjectRecord
  <2> QED
    BY <1>2, <1>3, <2>1 DEF ObjectRecord
<1>5. less \in ObjectRecord /\ less.phase = object[o].phase /\ less.appId = object[o].appId
      /\ less.sessions = S /\ less.restart = object[o].restart
  <2>1. less \in ObjectRecord
    BY <1>2, <1>4 DEF ObjectRecord
  <2> QED
    BY <1>2, <1>4, <2>1, ObjectGet
<1>6. /\ r \in ObjectRecord /\ r.appId = less.appId /\ r.sessions = less.sessions
      /\ r.restart = less.restart
      /\ r.phase = "Gone" \/ r.phase = less.phase \/ (r.phase \in InModel /\ less.phase \in InModel)
  <2>1. CASE less.sessions = {}
    BY <1>5, <2>1, AfterLast
  <2>2. CASE less.sessions # {}
    BY <1>5, <2>2
  <2> QED
    BY <2>1, <2>2
<1>7. object[o].phase # "none"
  <2>1. object[o].phase = "none" => object[o] = NoObject
    BY DEF ObjectsInv, Existing
  <2>2. NoObject.sessions = {}
    BY DEF NoObject
  <2> QED
    BY <1>1, <2>1, <2>2
<1>8. Alter(o, r)
  BY <1>3, <1>5, <1>6, <1>7 DEF Alter
<1>9. Stays(o, r, Tail(queue)) \/ Leaves(o, r, Tail(queue))
  BY <1>1, <1>5, <1>6, <1>7 DEF Stays, Leaves
<1>10. c \notin object'[o].sessions
  BY <1>1, <1>3, <1>5, <1>6, QueueTyped
<1> QED
  BY <1>1, <1>6, <1>8, <1>9, <1>10 DEF Altered

LEMMA QueueStartAlters ==
  ASSUME TypeOK, ObjectsInv, NEW a \in AppIds, NEW Q, QueueStart(a, Q)
  PROVE  Altered(queue')
<1>1. PICK o \in closing : object' = [ object EXCEPT ![o].restart = TRUE ]
  BY DEF QueueStart, ClosingApps
<1>2. o \in Objects /\ object[o] \in ObjectRecord /\ object[o].phase # "none"
  BY QueueTyped DEF TypeOK, ObjectsInv, InLists
<1>3. PICK r : r = [ object[o] EXCEPT !.restart = TRUE ]
  OBVIOUS
<1>4. r \in ObjectRecord /\ r.phase = object[o].phase /\ Alter(o, r)
  BY <1>2, <1>3 DEF ObjectRecord, Alter
<1>5. object' = [ object EXCEPT ![o] = r ]
  BY <1>1, <1>3
<1>6. Stays(o, r, queue')
  BY <1>4 DEF Stays, QueueStart
<1> QED
  BY <1>2, <1>4, <1>5, <1>6 DEF Altered

-----------------------------------------------------------------------------
(* The steps, seen from the objects *)

LEMMA TailKeeps ==
  ASSUME TypeOK, NEW t, NEW x, Handle(t, x)
  PROVE  /\ queue # << >> /\ Head(queue) = << t, x >>
         /\ Tail(queue) \in Seq(Events)
         /\ \A K : << t, x >> \notin K => Keeps(queue, Tail(queue), K)
<1>1. queue # << >> /\ Head(queue) = << t, x >>
  BY DEF Handle
<1>2. Tail(queue) \in Seq(Events)
  BY <1>1, QueueTyped, Behind
<1>3. ASSUME NEW K, << t, x >> \notin K PROVE Keeps(queue, Tail(queue), K)
  <2>1. Head(queue) \notin K
    BY <1>1, <1>3
  <2> QED
    BY <1>1, <2>1, QueueTyped, KeepsTail
<1> QED
  BY <1>1, <1>2, <1>3

LEMMA AppendKeeps ==
  ASSUME TypeOK, NEW e \in Events
  PROVE  /\ Append(queue, e) \in Seq(Events)
         /\ \A K : e \notin K => Keeps(queue, Append(queue, e), K)
<1>1. Append(queue, e) \in Seq(Events)
  BY QueueTyped, Ahead
<1>2. ASSUME NEW K, e \notin K PROVE Keeps(queue, Append(queue, e), K)
  BY <1>2, QueueTyped, KeepsAppend
<1> QED
  BY <1>1, <1>2

(* Of an event, the sets it is not in. *)
LEMMA Kinds ==
  ASSUME NEW x
  PROVE  /\ << "start", x >> \notin Deletions
         /\ << "launch", x >> \notin Deletions /\ << "launch", x >> \notin Starts
         /\ << "addApp", x >> \notin Deletions /\ << "addApp", x >> \notin Starts
         /\ << "sessionStarting", x >> \notin Deletions /\ << "sessionStarting", x >> \notin Starts
         /\ << "sessionStopping", x >> \notin Deletions /\ << "sessionStopping", x >> \notin Starts
         /\ << "delete", x >> \notin Starts
BY DEF Deletions, Starts

(* startApplication() alters an object, adds one, or leaves them. *)
LEMMA StartAlters ==
  ASSUME TypeOK, ObjectsInv, NEW a \in AppIds, NEW Q, StartApplication(a, Q)
  PROVE  \/ Altered(queue') \/ UNCHANGED << object, applications >>
         \/ ~ HasApp(a) /\ Add(a, "Unknown")
BY QueueStartAlters DEF StartApplication

LEMMA RespawnPosts ==
  ASSUME TypeOK, ObjectsInv, NEW o \in Objects, Respawn(o)
  PROVE  \E e \in Events : /\ e = << "launch", object[o].appId >>
                           /\ e \notin Deletions /\ e \notin Starts
                           /\ Append(queue, e) \in Seq(Events)
                           /\ \A K : e \notin K => Keeps(queue, Append(queue, e), K)
<1>1. object[o].appId \in AppIds
  BY DEF Respawn, ObjectsInv, Existing
<1>2. PICK e \in Events : e = << "launch", object[o].appId >>
  BY <1>1 DEF Events
<1>3. e \notin Deletions /\ e \notin Starts
  BY <1>2, Kinds
<1> QED
  BY <1>2, <1>3, AppendKeeps

(* What is posted to the queue besides deletions. *)
Posts == \E e \in Events : /\ queue' = Append(queue, e)
                           /\ e \notin Deletions /\ e \notin Starts

LEMMA EventTyped ==
  /\ \A c \in Clients : << "sessionStarting", c >> \in Events /\ << "sessionStopping", c >> \in Events
  /\ \A a \in AppIds : << "addApp", a >> \in Events /\ << "start", a >> \in Events
BY DEF Events

LEMMA MirPosts ==
  ASSUME TypeOK, NEW c \in Clients, client[c].state # "dead" => client[c].appId \in AppIds,
         AuthorizeByHint(c) \/ SessionAdded(c) \/ Ends(c)
  PROVE  Posts \/ queue' = queue
<1>1. CASE AuthorizeByHint(c)
  <2>1. client[c].appId \in AppIds
    BY <1>1 DEF AuthorizeByHint
  <2>2. PICK e \in Events : e = << "addApp", client[c].appId >>
    BY <2>1, EventTyped
  <2>3. e \notin Deletions /\ e \notin Starts
    BY <2>2, Kinds
  <2>4. queue' = queue \/ queue' = Append(queue, e)
    BY <1>1, <2>2 DEF AuthorizeByHint
  <2> QED
    BY <2>3, <2>4 DEF Posts
<1>2. CASE SessionAdded(c)
  <2>1. PICK e \in Events : e = << "sessionStarting", c >>
    BY EventTyped
  <2>2. e \notin Deletions /\ e \notin Starts
    BY <2>1, Kinds
  <2>3. queue' = Append(queue, e)
    BY <1>2, <2>1 DEF SessionAdded
  <2> QED
    BY <2>2, <2>3 DEF Posts
<1>3. CASE Ends(c)
  <2>1. PICK e \in Events : e = << "sessionStopping", c >>
    BY EventTyped
  <2>2. e \notin Deletions /\ e \notin Starts
    BY <2>1, Kinds
  <2>3. queue' = queue \/ queue' = Append(queue, e)
    BY <1>3, <2>1 DEF Ends
  <2> QED
    BY <2>2, <2>3 DEF Posts
<1> QED
  BY <1>1, <1>2, <1>3

LEMMA PostsKeep ==
  ASSUME TypeOK, Posts \/ queue' = queue
  PROVE  /\ Keeps(queue, queue', Deletions) /\ Keeps(queue, queue', Starts)
         /\ queue' \in Seq(Events)
<1>1. CASE queue' = queue
  BY <1>1, KeepsSame, QueueTyped
<1>2. CASE Posts
  BY <1>2, AppendKeeps DEF Posts
<1> QED
  BY <1>1, <1>2

ClientsKnown == \A c \in Clients : client[c].state # "dead" => client[c].appId \in AppIds

LEMMA SessionStartingObjects ==
  ASSUME TypeOK, ObjectsInv, NEW c \in Clients, SessionStarting(c)
  PROVE  /\ UNCHANGED << applications, closing >>
         /\ object' \in [ Objects -> ObjectRecord ]
         /\ \A o \in Objects : /\ object'[o].appId = object[o].appId
                               /\ object'[o].restart = object[o].restart
                               /\ object'[o].phase = object[o].phase
         /\ ObjectsInv'
<1>0. UNCHANGED << applications, closing >>
  BY DEF SessionStarting, lists
<1>1. Keeps(queue, queue', Deletions)
  BY TailKeeps, Kinds DEF SessionStarting
<1>2. CASE object' = object
  BY <1>0, <1>1, <1>2, Untouched, QueueTyped
<1>3. CASE object' # object
  <2>1. PICK o : /\ HasApp(authorizedPids[c]) /\ o = FindApp(authorizedPids[c])
                 /\ object' = [ object EXCEPT ![o].sessions = @ \cup { c } ]
    BY <1>3 DEF SessionStarting
  <2>2. o \in Objects /\ object[o] \in ObjectRecord /\ object[o].phase # "none"
    BY <2>1, Found, ListedPhase
  <2>3. PICK S : S = object[o].sessions \cup { c }
    OBVIOUS
  <2>4. S \in SUBSET Clients
    BY <2>2, <2>3 DEF ObjectRecord
  <2>5. PICK r : r = [ object[o] EXCEPT !.sessions = S ]
    OBVIOUS
  <2>6. /\ r \in ObjectRecord /\ r.appId = object[o].appId /\ r.restart = object[o].restart
        /\ r.phase = object[o].phase
    <3>1. r \in ObjectRecord
      BY <2>2, <2>4, <2>5 DEF ObjectRecord
    <3> QED
      BY <2>2, <2>5, <3>1, ObjectGet
  <2>7. object' = [ object EXCEPT ![o] = r ]
    BY <2>1, <2>3, <2>5
  <2>8. ObjectsInv'
    BY <1>0, <1>1, <2>2, <2>6, <2>7, Changed
  <2> QED
    BY <1>0, <2>2, <2>6, <2>7, <2>8, QueueTyped
<1> QED
  BY <1>2, <1>3

LEMMA ObjectsStep ==
  ASSUME TypeOK, ObjectsInv, ClientsKnown, Next
  PROVE  ObjectsInv'
<1>0. Keeps(queue, queue, Deletions)
  BY KeepsSame
<1>1. ASSUME NEW a \in AppIds, ShellStarts(a) \/ QueuedStart(a) PROVE ObjectsInv'
  <2>1. /\ closing' = closing /\ Keeps(queue, queue', Deletions) /\ queue' \in Seq(Events)
        /\ \E Q : StartApplication(a, Q)
    <3>1. CASE ShellStarts(a)
      BY <1>0, <3>1, QueueTyped DEF ShellStarts
    <3>2. CASE QueuedStart(a)
      BY <3>2, TailKeeps, Kinds DEF QueuedStart
    <3> QED
      BY <1>1, <3>1, <3>2
  <2>2. CASE Altered(queue')
    BY <2>1, <2>2, AlteredObjects
  <2>3. CASE UNCHANGED << object, applications >>
    BY <2>1, <2>3, Untouched
  <2>4. CASE Add(a, "Unknown")
    BY <2>1, <2>4, AddedObject
  <2> QED
    BY <2>1, <2>2, <2>3, <2>4, StartAlters
<1>2. ASSUME NEW a \in AppIds, StopApplication(a) PROVE ObjectsInv'
  BY <1>0, <1>2, StopAlters, AlteredObjects, QueueTyped DEF StopApplication
<1>3. ASSUME NEW a \in AppIds, StartedElsewhere(a) PROVE ObjectsInv'
  BY <1>0, <1>3, Untouched DEF StartedElsewhere, lists
<1>4. ASSUME NEW a \in AppIds, Report(a) PROVE ObjectsInv'
  <2>1. CASE ProcessStarting(a)
    <3>1. closing' = closing /\ queue' = queue
      BY <2>1 DEF ProcessStarting
    <3> QED
      BY <1>0, <2>1, <3>1, StartingAlters, AlteredObjects, AddedObject, Untouched, QueueTyped
  <2>2. CASE ProcessFailed(a)
    <3>1. closing' = closing
      BY <2>2 DEF ProcessFailed
    <3> QED
      BY <1>0, <2>2, <3>1, FailedAlters, AlteredObjects, Untouched, QueueTyped
  <2>3. CASE ProcessStopped(a)
    <3>1. closing' = closing
      BY <2>3 DEF ProcessStopped
    <3> QED
      BY <1>0, <2>3, <3>1, StoppedAlters, AlteredObjects, Untouched, QueueTyped
  <2> QED
    BY <1>4, <2>1, <2>2, <2>3 DEF Report
<1>5. ASSUME NEW o \in Objects, Respawn(o) PROVE ObjectsInv'
  <2>1. PICK e \in Events : /\ e = << "launch", object[o].appId >> /\ e \notin Deletions
                            /\ Append(queue, e) \in Seq(Events)
                            /\ Keeps(queue, Append(queue, e), Deletions)
    BY <1>5, RespawnPosts
  <2>2. Altered(Append(queue, e)) /\ closing' = closing
    BY <1>5, <2>1, RespawnAlters DEF Respawn, lists
  <2> QED
    BY <2>1, <2>2, AlteredObjects
<1>6. ASSUME NEW o \in Objects, Ready(o) PROVE ObjectsInv'
  BY <1>0, <1>6, ReadyAlters, AlteredObjects, QueueTyped DEF Ready, lists
<1>7. ASSUME NEW o \in Objects, LastSurfaceCloses(o) PROVE ObjectsInv'
  BY <1>7, ClosingObject
<1>8. ASSUME NEW o \in Objects, StopTimeout(o) PROVE ObjectsInv'
  BY <1>0, <1>8, Untouched DEF StopTimeout, lists
<1>9. ASSUME NEW c \in Clients, AuthorizeInstance(c) \/ \E a \in AppIds : StartedByHand(c, a)
      PROVE  ObjectsInv'
  BY <1>0, <1>9, Untouched DEF AuthorizeInstance, StartedByHand, lists
<1>10. ASSUME NEW c \in Clients, AuthorizeByHint(c) \/ SessionAdded(c) \/ Ends(c)
       PROVE  ObjectsInv'
  <2>1. UNCHANGED << object, applications, closing >>
    BY <1>10 DEF AuthorizeByHint, SessionAdded, Ends, lists
  <2>2. Keeps(queue, queue', Deletions)
    BY <1>10, MirPosts, PostsKeep DEF ClientsKnown
  <2> QED
    BY <2>1, <2>2, Untouched
<1>11. ASSUME NEW a \in AppIds, AddApp(a) PROVE ObjectsInv'
  <2>1. Keeps(queue, queue', Deletions)
    BY <1>11, TailKeeps, Kinds DEF AddApp
  <2> QED
    BY <1>11, <2>1, AddedObject DEF AddApp
<1>12. ASSUME NEW a \in AppIds, QueuedLaunch(a) PROVE ObjectsInv'
  <2>1. Keeps(queue, queue', Deletions)
    BY <1>12, TailKeeps, Kinds DEF QueuedLaunch
  <2> QED
    BY <1>12, <2>1, Untouched DEF QueuedLaunch, lists
<1>13. ASSUME NEW c \in Clients, SessionStarting(c) PROVE ObjectsInv'
  BY <1>13, SessionStartingObjects
<1>14. ASSUME NEW c \in Clients, SessionStopping(c) PROVE ObjectsInv'
  <2>1. Tail(queue) \in Seq(Events) /\ Keeps(queue, Tail(queue), Deletions)
    BY <1>14, TailKeeps, Kinds DEF SessionStopping
  <2>2. closing' = closing
    BY <1>14 DEF SessionStopping
  <2>3. CASE Altered(Tail(queue))
    BY <2>1, <2>2, <2>3, AlteredObjects
  <2>4. CASE UNCHANGED << object, applications >> /\ queue' = Tail(queue)
    BY <2>1, <2>2, <2>4, Untouched
  <2> QED
    BY <1>14, <2>3, <2>4, StoppingAlters
<1>15. ASSUME NEW o \in Objects, Deleted(o) PROVE ObjectsInv'
  BY <1>15, DeletedObject
<1> QED
  BY <1>1, <1>2, <1>3, <1>4, <1>5, <1>6, <1>7, <1>8, <1>9, <1>10, <1>11, <1>12, <1>13, <1>14, <1>15
  DEF Next, Event

LEMMA AddCalm ==
  ASSUME TypeOK, NEW a, NEW s, Add(a, s)
  PROVE  Calm /\ \E o \in Objects : /\ object'[o].appId = a /\ Listed' = Listed \cup { o }
                                    /\ object[o] = NoObject
                                    /\ applications' \in Seq(Objects)
                                    /\ \A p \in Objects : p # o => object'[p] = object[p]
<1>1. PICK o \in Objects :
        /\ object[o] = NoObject
        /\ object' = [ object EXCEPT ![o] = [ NoObject EXCEPT !.appId = a,
                         !.phase = "Starting", !.processState = s ] ]
        /\ applications' = Append(applications, o)
  BY DEF Add
<1>2. PICK r : r = [ NoObject EXCEPT !.appId = a, !.phase = "Starting", !.processState = s ]
  OBVIOUS
<1>3. r.appId = a /\ r.sessions = {} /\ NoObject.restart = FALSE /\ NoObject.phase = "none"
  BY <1>2 DEF NoObject
<1>4. object'[o] = r /\ \A p \in Objects : p # o => object'[p] = object[p]
  BY <1>1, <1>2, QueueTyped
<1>5. Calm
  BY <1>1, <1>3, <1>4 DEF Calm
<1>6. In(applications') = In(applications) \cup { o } /\ applications' \in Seq(Objects)
  BY <1>1, QueueTyped, InAppend, Ahead
<1> QED
  BY <1>1, <1>3, <1>4, <1>5, <1>6, ListedIn

LEMMA AddTyped ==
  ASSUME TypeOK, NEW a \in AppIds, NEW s \in ProcessStates, Add(a, s)
  PROVE  object' \in [ Objects -> ObjectRecord ]
<1>1. PICK o \in Objects :
        object' = [ object EXCEPT ![o] = [ NoObject EXCEPT !.appId = a,
                         !.phase = "Starting", !.processState = s ] ]
  BY DEF Add
<1>2. [ NoObject EXCEPT !.appId = a, !.phase = "Starting", !.processState = s ] \in ObjectRecord
  BY DEF NoObject, ObjectRecord, Phases
<1> QED
  BY <1>1, <1>2, QueueTyped

LEMMA SameCalm == ASSUME object' = object PROVE Calm
BY DEF Calm

LEMMA ClosesCalm ==
  ASSUME TypeOK, NEW o \in Objects, LastSurfaceCloses(o)
  PROVE  Calm /\ object' \in [ Objects -> ObjectRecord ]
<1>1. object' = [ object EXCEPT ![o].phase = "Closing" ]
  BY DEF LastSurfaceCloses
<1>2. object[o] \in ObjectRecord
  BY QueueTyped
<1>3. PICK r : r = [ object[o] EXCEPT !.phase = "Closing" ]
  OBVIOUS
<1>4. r \in ObjectRecord
  BY <1>2, <1>3 DEF ObjectRecord, Phases
<1>5. r.appId = object[o].appId /\ r.sessions = object[o].sessions /\ r.restart = object[o].restart
  BY <1>2, <1>3, ObjectGet
<1>6. object' = [ object EXCEPT ![o] = r ]
  BY <1>1, <1>3
<1>7. object'[o] = r /\ \A p \in Objects : p # o => object'[p] = object[p]
  BY <1>6, QueueTyped
<1>8. object' \in [ Objects -> ObjectRecord ]
  BY <1>4, <1>6, QueueTyped
<1> QED
  BY <1>5, <1>7, <1>8 DEF Calm

LEMMA TriggersStep ==
  ASSUME TypeOK, ObjectsInv, ClientsKnown, QueuedHasTrigger, Next
  PROVE  QueuedHasTrigger'
<1>0. Keeps(queue, queue, Starts) /\ Starts \cap Deletions = {}
  BY KeepsSame DEF Starts, Deletions
<1>1. ASSUME NEW a \in AppIds, ShellStarts(a) \/ QueuedStart(a) PROVE QueuedHasTrigger'
  BY <1>1, ShellStartWaits, StartHandledWaits
<1>2. ASSUME NEW a \in AppIds, StopApplication(a) PROVE QueuedHasTrigger'
  <2>1. Altered(queue) /\ queuedStarts' = queuedStarts /\ closing' = closing
    BY <1>2, StopAlters DEF StopApplication
  <2> QED
    BY <1>0, <2>1, AlteredCalm, AlteredQueue, CalmTriggers, QueueTyped
<1>3. ASSUME NEW a \in AppIds, StartedElsewhere(a) PROVE QueuedHasTrigger'
  BY <1>0, <1>3, SameCalm, CalmTriggers DEF StartedElsewhere, lists
<1>4. ASSUME NEW a \in AppIds, Report(a) PROVE QueuedHasTrigger'
  <2>1. closing' = closing /\ queuedStarts' = queuedStarts
    BY <1>4 DEF Report, ProcessStarting, ProcessFailed, ProcessStopped
  <2>2. \/ Altered(queue) \/ (Add(a, "Running") /\ queue' = queue)
        \/ UNCHANGED << object, applications, queue >>
    BY <1>4, StartingAlters, FailedAlters, StoppedAlters DEF Report
  <2>3. CASE Altered(queue)
    BY <1>0, <2>1, <2>3, AlteredCalm, AlteredQueue, CalmTriggers, QueueTyped
  <2>4. CASE Add(a, "Running") /\ queue' = queue
    BY <1>0, <2>1, <2>4, AddCalm, CalmTriggers
  <2>5. CASE UNCHANGED << object, applications, queue >>
    BY <1>0, <2>1, <2>5, SameCalm, CalmTriggers
  <2> QED
    BY <2>2, <2>3, <2>4, <2>5
<1>5. ASSUME NEW o \in Objects, Respawn(o) PROVE QueuedHasTrigger'
  <2>1. PICK e \in Events : /\ e = << "launch", object[o].appId >> /\ e \notin Starts
                            /\ Append(queue, e) \in Seq(Events)
                            /\ Keeps(queue, Append(queue, e), Starts)
    BY <1>5, RespawnPosts
  <2>2. Altered(Append(queue, e)) /\ closing' = closing /\ queuedStarts' = queuedStarts
    BY <1>5, <2>1, RespawnAlters DEF Respawn, lists
  <2>3. Keeps(Append(queue, e), queue', Starts)
    BY <1>0, <2>1, <2>2, AlteredQueue
  <2>4. Keeps(queue, queue', Starts)
    BY <2>1, <2>3, KeepsBoth
  <2>5. Calm
    BY <2>2, AlteredCalm
  <2> QED
    BY <2>2, <2>4, <2>5, CalmTriggers
<1>6. ASSUME NEW o \in Objects, Ready(o) PROVE QueuedHasTrigger'
  <2>1. Altered(queue) /\ queuedStarts' = queuedStarts /\ closing' = closing
    BY <1>6, ReadyAlters DEF Ready, lists
  <2> QED
    BY <1>0, <2>1, AlteredCalm, AlteredQueue, CalmTriggers, QueueTyped
<1>7. ASSUME NEW o \in Objects, LastSurfaceCloses(o) PROVE QueuedHasTrigger'
  <2>1. queuedStarts' = queuedStarts /\ closing \subseteq closing' /\ queue' = queue
    BY <1>7 DEF LastSurfaceCloses
  <2> QED
    BY <1>0, <1>7, <2>1, ClosesCalm, CalmTriggers
<1>8. ASSUME NEW o \in Objects, StopTimeout(o) PROVE QueuedHasTrigger'
  BY <1>0, <1>8, SameCalm, CalmTriggers DEF StopTimeout, lists
<1>9. ASSUME NEW c \in Clients, AuthorizeInstance(c) \/ \E a \in AppIds : StartedByHand(c, a)
      PROVE  QueuedHasTrigger'
  BY <1>0, <1>9, SameCalm, CalmTriggers DEF AuthorizeInstance, StartedByHand, lists
<1>10. ASSUME NEW c \in Clients, AuthorizeByHint(c) \/ SessionAdded(c) \/ Ends(c)
       PROVE  QueuedHasTrigger'
  <2>1. UNCHANGED << object, queuedStarts, closing >>
    BY <1>10 DEF AuthorizeByHint, SessionAdded, Ends, lists
  <2>2. Keeps(queue, queue', Starts)
    BY <1>10, MirPosts, PostsKeep DEF ClientsKnown
  <2> QED
    BY <2>1, <2>2, SameCalm, CalmTriggers
<1>11. ASSUME NEW a \in AppIds, AddApp(a) PROVE QueuedHasTrigger'
  <2>1. Keeps(queue, queue', Starts) /\ UNCHANGED << queuedStarts, closing >>
    BY <1>11, TailKeeps, Kinds DEF AddApp
  <2>2. Calm
    BY <1>11, AddCalm DEF AddApp
  <2> QED
    BY <2>1, <2>2, CalmTriggers
<1>12. ASSUME NEW a \in AppIds, QueuedLaunch(a) PROVE QueuedHasTrigger'
  <2>1. Keeps(queue, queue', Starts) /\ UNCHANGED << object, queuedStarts, closing >>
    BY <1>12, TailKeeps, Kinds DEF QueuedLaunch, lists
  <2> QED
    BY <2>1, SameCalm, CalmTriggers
<1>13. ASSUME NEW c \in Clients, SessionStarting(c) PROVE QueuedHasTrigger'
  <2>1. Keeps(queue, queue', Starts) /\ UNCHANGED << queuedStarts, closing >>
    BY <1>13, TailKeeps, Kinds DEF SessionStarting, lists
  <2>2. \A o \in Objects : /\ object'[o].appId = object[o].appId
                           /\ object'[o].restart = object[o].restart
    BY <1>13, SessionStartingObjects
  <2>3. closing \subseteq Objects
    BY DEF TypeOK
  <2> QED
    BY <2>1, <2>2, <2>3, TriggersStay
<1>14. ASSUME NEW c \in Clients, SessionStopping(c) PROVE QueuedHasTrigger'
  <2>1. Tail(queue) \in Seq(Events) /\ Keeps(queue, Tail(queue), Starts)
    BY <1>14, TailKeeps, Kinds DEF SessionStopping
  <2>2. closing' = closing /\ queuedStarts' = queuedStarts
    BY <1>14 DEF SessionStopping
  <2>3. CASE Altered(Tail(queue))
    <3>1. Keeps(Tail(queue), queue', Starts)
      BY <1>0, <2>1, <2>3, AlteredQueue
    <3>2. Keeps(queue, queue', Starts)
      BY <2>1, <3>1, KeepsBoth
    <3>3. Calm
      BY <2>3, AlteredCalm
    <3> QED
      BY <2>2, <3>2, <3>3, CalmTriggers
  <2>4. CASE UNCHANGED << object, applications >> /\ queue' = Tail(queue)
    BY <2>1, <2>2, <2>4, SameCalm, CalmTriggers
  <2> QED
    BY <1>14, <2>3, <2>4, StoppingAlters
<1>15. ASSUME NEW o \in Objects, Deleted(o) PROVE QueuedHasTrigger'
  BY <1>15, DeletedTriggers
<1> QED
  BY <1>1, <1>2, <1>3, <1>4, <1>5, <1>6, <1>7, <1>8, <1>9, <1>10, <1>11, <1>12, <1>13, <1>14, <1>15
  DEF Next, Event

-----------------------------------------------------------------------------
(* The clients *)

Comes(c) == << "sessionStarting", c >>
Goes(c) == << "sessionStopping", c >>
EventsOf(c) == { Comes(c), Goes(c) }

(* What is posted of a client.                                              *)
Heard(c) ==
  /\ Once(queue, Comes(c)) /\ Once(queue, Goes(c))
  /\ Comes(c) \in In(queue) =>
       client[c].state = "connected" \/ Followed(queue, Comes(c), Goes(c))
  /\ Goes(c) \in In(queue) => client[c].state = "dead" /\ client[c].appId # NoApp

(* Which object has its session.                                            *)
AtHome(c, o) ==
  /\ Comes(c) \notin In(queue)
  /\ client[c].state = "connected" \/ Goes(c) \in In(queue)
  /\ client[c].appId = object[o].appId
Attached(c) ==
  /\ \A o \in Objects : c \in object[o].sessions => AtHome(c, o)
  /\ \A o, p \in Objects : c \in object[o].sessions /\ c \in object[p].sessions => o = p

(* For which application it was let in.                                     *)
Authorized(c) ==
  authorizedPids[c] # NoApp => /\ authorizedPids[c] = client[c].appId
                               /\ client[c].state = "authorized" \/ Comes(c) \in In(queue)

Known(c) == client[c].state # "dead" => client[c].appId \in AppIds

ClientInv(c) == Heard(c) /\ Attached(c) /\ Authorized(c) /\ Known(c)
ClientsInv == \A c \in Clients : ClientInv(c)

LEMMA ClientsAreKnown == ClientsInv => ClientsKnown
BY DEF ClientsInv, ClientInv, Known, ClientsKnown

LEMMA EventsOfKinds ==
  ASSUME NEW c, NEW x
  PROVE  /\ EventsOf(c) \cap Deletions = {} /\ Comes(c) # Goes(c)
         /\ << "start", x >> \notin EventsOf(c) /\ << "launch", x >> \notin EventsOf(c)
         /\ << "addApp", x >> \notin EventsOf(c) /\ << "delete", x >> \notin EventsOf(c)
         /\ x # c => Comes(x) \notin EventsOf(c) /\ Goes(x) \notin EventsOf(c)
BY DEF EventsOf, Comes, Goes, Deletions

(* Sessions are not added, and who keeps one keeps its application.         *)
SessionsKept(c) ==
  \A o \in Objects : c \in object'[o].sessions =>
                       c \in object[o].sessions /\ object'[o].appId = object[o].appId

LEMMA CalmSessions ==
  ASSUME ObjectsInv, Calm, NEW c PROVE SessionsKept(c)
<1> SUFFICES ASSUME NEW o \in Objects, c \in object'[o].sessions
             PROVE  c \in object[o].sessions /\ object'[o].appId = object[o].appId
  BY DEF SessionsKept
<1>1. c \in object[o].sessions
  BY DEF Calm
<1>2. object[o].phase # "none"
  <2>1. object[o].phase = "none" => object[o] = NoObject
    BY DEF ObjectsInv, Existing
  <2>2. NoObject.sessions = {}
    BY DEF NoObject
  <2> QED
    BY <1>1, <2>1, <2>2
<1> QED
  BY <1>1, <1>2 DEF Calm

(* Nothing happens to a client. *)
LEMMA ClientQuiet ==
  ASSUME NEW c \in Clients, ClientInv(c), Keeps(queue, queue', EventsOf(c)), SessionsKept(c),
         client'[c].state = client[c].state, client'[c].appId = client[c].appId,
         authorizedPids'[c] = authorizedPids[c]
  PROVE  ClientInv(c)'
<1>1. Comes(c) \in EventsOf(c) /\ Goes(c) \in EventsOf(c)
  BY DEF EventsOf
<1>2. /\ Comes(c) \in In(queue') <=> Comes(c) \in In(queue)
      /\ Goes(c) \in In(queue') <=> Goes(c) \in In(queue)
      /\ Once(queue, Comes(c)) => Once(queue', Comes(c))
      /\ Once(queue, Goes(c)) => Once(queue', Goes(c))
      /\ Followed(queue, Comes(c), Goes(c)) => Followed(queue', Comes(c), Goes(c))
  BY <1>1 DEF Keeps
<1>3. Heard(c)'
  BY <1>2 DEF ClientInv, Heard
<1>4. Attached(c)'
  BY <1>2 DEF ClientInv, Attached, AtHome, SessionsKept
<1>5. Authorized(c)' /\ Known(c)'
  BY <1>2 DEF ClientInv, Authorized, Known
<1> QED
  BY <1>3, <1>4, <1>5 DEF ClientInv

(* A process is started where there was none. *)
Born(c, a) ==
  /\ Reusable(c)
  /\ client' = [ client EXCEPT ![c] = [ NoProcess EXCEPT !.state = "launched", !.appId = a ] ]

LEMMA ClientTyped ==
  ASSUME TypeOK
  PROVE  /\ client \in [ Clients -> ClientRecord ] /\ job \in [ AppIds -> Clients \cup { NoClient } ]
         /\ authorizedPids \in [ Clients -> AppIds \cup { NoApp } ]
BY DEF TypeOK

LEMMA BornState ==
  ASSUME TypeOK, NEW c \in Clients, NEW a \in AppIds, Born(c, a)
  PROVE  /\ client[c] = NoProcess /\ client[c].state = "dead" /\ client[c].appId = NoApp
         /\ client'[c].state = "launched" /\ client'[c].appId = a
         /\ client' \in [ Clients -> ClientRecord ]
         /\ \A d \in Clients : d # c => client'[d] = client[d]
<1>1. client[c] = NoProcess
  BY DEF Born, Reusable
<1>2. PICK r : r = [ NoProcess EXCEPT !.state = "launched", !.appId = a ]
  OBVIOUS
<1>3. r.state = "launched" /\ r.appId = a /\ r \in ClientRecord
  BY <1>2 DEF NoProcess, ClientRecord
<1>4. client' = [ client EXCEPT ![c] = r ]
  BY <1>2 DEF Born
<1> QED
  BY <1>1, <1>3, <1>4, ClientTyped DEF NoProcess

LEMMA ClientBorn ==
  ASSUME TypeOK, ClientsInv, NEW c \in Clients, NEW a \in AppIds, Born(c, a),
         Keeps(queue, queue', EventsOf(c)), SessionsKept(c), authorizedPids' = authorizedPids
  PROVE  ClientInv(c)'
<1>1. /\ client[c].state = "dead" /\ client[c].appId = NoApp
      /\ client'[c].state = "launched" /\ client'[c].appId = a
  BY BornState
<1>2. ClientInv(c)
  BY DEF ClientsInv
<1>3. Goes(c) \notin In(queue)
  BY <1>1, <1>2 DEF ClientInv, Heard
<1>4. Comes(c) \notin In(queue)
  <2>1. Followed(queue, Comes(c), Goes(c)) /\ Comes(c) \in In(queue) => Goes(c) \in In(queue)
    BY DEF Followed, In
  <2> QED
    BY <1>1, <1>2, <1>3, <2>1 DEF ClientInv, Heard
<1>5. \A o \in Objects : c \notin object[o].sessions
  BY <1>1, <1>2, <1>3 DEF ClientInv, Attached, AtHome
<1>6. authorizedPids[c] = NoApp
  BY <1>1, <1>2, <1>4 DEF ClientInv, Authorized
<1>7. Comes(c) \in EventsOf(c) /\ Goes(c) \in EventsOf(c)
  BY DEF EventsOf
<1>8. /\ Comes(c) \notin In(queue') /\ Goes(c) \notin In(queue')
      /\ Once(queue', Comes(c)) /\ Once(queue', Goes(c))
  BY <1>2, <1>3, <1>4, <1>7 DEF Keeps, ClientInv, Heard
<1>9. Heard(c)'
  BY <1>8 DEF Heard
<1>10. Attached(c)'
  BY <1>5 DEF Attached, SessionsKept
<1>11. Authorized(c)' /\ Known(c)'
  BY <1>1, <1>6 DEF Authorized, Known
<1> QED
  BY <1>9, <1>10, <1>11 DEF ClientInv

(* Steps that at most start a process. *)
LEMMA ClientsKept ==
  ASSUME TypeOK, ClientsInv, authorizedPids' = authorizedPids,
         \A c \in Clients : Keeps(queue, queue', EventsOf(c)) /\ SessionsKept(c),
         \/ \E c \in Clients, a \in AppIds : Born(c, a)
         \/ \A c \in Clients : /\ client'[c].state = client[c].state
                               /\ client'[c].appId = client[c].appId
  PROVE  ClientsInv'
<1>1. CASE \A c \in Clients : /\ client'[c].state = client[c].state
                              /\ client'[c].appId = client[c].appId
  BY <1>1, ClientQuiet DEF ClientsInv
<1>2. CASE \E c \in Clients, a \in AppIds : Born(c, a)
  <2>1. PICK d \in Clients, a \in AppIds : Born(d, a)
    BY <1>2
  <2>2. ASSUME NEW c \in Clients PROVE ClientInv(c)'
    <3>1. CASE c = d
      BY <2>1, <3>1, ClientBorn
    <3>2. CASE c # d
      <4>1. client'[c] = client[c]
        BY <2>1, <3>2, BornState
      <4> QED
        BY <4>1, ClientQuiet DEF ClientsInv
    <3> QED
      BY <3>1, <3>2
  <2> QED
    BY <2>2 DEF ClientsInv
<1> QED
  BY <1>1, <1>2

(* Mir's thread lets a connection in. *)
LEMMA ClientAccepted ==
  ASSUME TypeOK, ClientsInv, NEW c \in Clients, NEW a \in AppIds, Accept(c, a),
         client[c].state = "launched", a = client[c].appId,
         \A d \in Clients : Keeps(queue, queue', EventsOf(d)), object' = object
  PROVE  ClientsInv'
<1>1. /\ authorizedPids' = [ authorizedPids EXCEPT ![c] = a ]
      /\ client' = [ client EXCEPT ![c].state = "authorized" ]
  BY DEF Accept
<1>2. /\ authorizedPids'[c] = a /\ client'[c].state = "authorized"
      /\ client'[c].appId = client[c].appId
      /\ \A d \in Clients : d # c => /\ client'[d] = client[d]
                                     /\ authorizedPids'[d] = authorizedPids[d]
  BY <1>1, ClientTyped DEF ClientRecord
<1>3. \A d \in Clients : SessionsKept(d)
  BY DEF SessionsKept
<1>4. ClientInv(c)
  BY DEF ClientsInv
<1>5. Goes(c) \notin In(queue)
  BY <1>4 DEF ClientInv, Heard
<1>6. Comes(c) \notin In(queue)
  <2>1. Followed(queue, Comes(c), Goes(c)) /\ Comes(c) \in In(queue) => Goes(c) \in In(queue)
    BY DEF Followed, In
  <2> QED
    BY <1>4, <1>5, <2>1 DEF ClientInv, Heard
<1>7. \A o \in Objects : c \notin object[o].sessions
  BY <1>4, <1>5 DEF ClientInv, Attached, AtHome
<1>8. Comes(c) \in EventsOf(c) /\ Goes(c) \in EventsOf(c)
  BY DEF EventsOf
<1>9. /\ Comes(c) \notin In(queue') /\ Goes(c) \notin In(queue')
      /\ Once(queue', Comes(c)) /\ Once(queue', Goes(c))
  BY <1>4, <1>5, <1>6, <1>8 DEF Keeps, ClientInv, Heard
<1>10. ClientInv(c)'
  <2>1. Heard(c)'
    BY <1>9 DEF Heard
  <2>2. Attached(c)'
    BY <1>7 DEF Attached
  <2>3. Authorized(c)' /\ Known(c)'
    BY <1>2 DEF Authorized, Known
  <2> QED
    BY <2>1, <2>2, <2>3 DEF ClientInv
<1>11. ASSUME NEW d \in Clients, d # c PROVE ClientInv(d)'
  BY <1>2, <1>3, <1>11, ClientQuiet DEF ClientsInv
<1> QED
  BY <1>10, <1>11 DEF ClientsInv

LEMMA EndFollows ==
  ASSUME NEW c \in Clients, ClientInv(c), Goes(c) \notin In(queue)
  PROVE  Comes(c) \in In(queue) => client[c].state = "connected"
<1>1. Followed(queue, Comes(c), Goes(c)) /\ Comes(c) \in In(queue) => Goes(c) \in In(queue)
  BY DEF Followed, In
<1> QED
  BY <1>1 DEF ClientInv, Heard

LEMMA SessionAddedClients ==
  ASSUME TypeOK, ClientsInv, NEW c \in Clients, SessionAdded(c)
  PROVE  ClientsInv'
<1>1. /\ client[c].state = "authorized" /\ object' = object /\ authorizedPids' = authorizedPids
      /\ client' = [ client EXCEPT ![c].state = "connected" ]
      /\ queue' = Append(queue, Comes(c))
  BY DEF SessionAdded, lists, Comes
<1>2. /\ client'[c].state = "connected" /\ client'[c].appId = client[c].appId
      /\ \A d \in Clients : d # c => client'[d] = client[d]
  BY <1>1, ClientTyped DEF ClientRecord
<1>3. ClientInv(c)
  BY DEF ClientsInv
<1>4. Goes(c) \notin In(queue)
  BY <1>1, <1>3 DEF ClientInv, Heard
<1>5. Comes(c) \notin In(queue)
  BY <1>1, <1>3, <1>4, EndFollows
<1>6. \A o \in Objects : c \notin object[o].sessions
  BY <1>1, <1>3, <1>4 DEF ClientInv, Attached, AtHome
<1>7. PICK e \in Events : e = Comes(c)
  BY EventTyped DEF Comes
<1>8. /\ In(queue') = In(queue) \cup { e } /\ e \notin In(queue)
      /\ \A x : Once(queue, x) /\ (x # e \/ e \notin In(queue)) => Once(queue', x)
  <2>1. queue' = Append(queue, e)
    BY <1>1, <1>7
  <2>2. e \notin In(queue)
    BY <1>5, <1>7
  <2> QED
    BY <2>1, <2>2, QueueTyped, InAppend
<1>9. ClientInv(c)'
  <2>1. Comes(c) # Goes(c)
    BY EventsOfKinds
  <2>2. Heard(c)'
    BY <1>2, <1>3, <1>4, <1>7, <1>8, <2>1 DEF ClientInv, Heard
  <2>3. Attached(c)'
    BY <1>1, <1>6 DEF Attached
  <2>4. Authorized(c)' /\ Known(c)'
    BY <1>1, <1>2, <1>3, <1>7, <1>8 DEF ClientInv, Authorized, Known
  <2> QED
    BY <2>2, <2>3, <2>4 DEF ClientInv
<1>10. ASSUME NEW d \in Clients, d # c PROVE ClientInv(d)'
  <2>1. e \notin EventsOf(d)
    BY <1>7, <1>10, EventsOfKinds
  <2>2. Keeps(queue, queue', EventsOf(d))
    BY <1>1, <1>7, <2>1, AppendKeeps
  <2>3. SessionsKept(d)
    BY <1>1 DEF SessionsKept
  <2> QED
    BY <1>1, <1>2, <1>10, <2>2, <2>3, ClientQuiet DEF ClientsInv
<1> QED
  BY <1>9, <1>10 DEF ClientsInv

LEMMA EndsClients ==
  ASSUME TypeOK, ClientsInv, NEW c \in Clients, Ends(c)
  PROVE  ClientsInv'
<1>1. object' = object /\ client[c].state # "dead"
  BY DEF Ends, lists
<1>2. ClientInv(c)
  BY DEF ClientsInv
<1>3. Goes(c) \notin In(queue)
  BY <1>1, <1>2 DEF ClientInv, Heard
<1>4. client[c].appId # NoApp
  BY <1>1, <1>2, NamesAssumption DEF ClientInv, Known
<1>5. ASSUME NEW d \in Clients PROVE SessionsKept(d)
  BY <1>1 DEF SessionsKept
<1>6. CASE client[c].state = "connected"
  <2>1. /\ client' = [ client EXCEPT ![c].state = "dead" ] /\ authorizedPids' = authorizedPids
        /\ queue' = Append(queue, Goes(c))
    BY <1>6 DEF Ends, Goes
  <2>2. /\ client'[c].state = "dead" /\ client'[c].appId = client[c].appId
        /\ \A d \in Clients : d # c => client'[d] = client[d]
    BY <2>1, ClientTyped DEF ClientRecord
  <2>3. PICK e \in Events : e = Goes(c)
    BY EventTyped DEF Goes
  <2>4. /\ In(queue') = In(queue) \cup { e } /\ e \notin In(queue)
        /\ \A x : Once(queue, x) /\ (x # e \/ e \notin In(queue)) => Once(queue', x)
        /\ \A x : x # e => Followed(queue', x, e)
    <3>1. queue' = Append(queue, e)
      BY <2>1, <2>3
    <3>2. e \notin In(queue)
      BY <1>3, <2>3
    <3> QED
      BY <3>1, <3>2, QueueTyped, InAppend
  <2>5. ClientInv(c)'
    <3>1. Comes(c) # Goes(c)
      BY EventsOfKinds
    <3>2. Heard(c)'
      BY <1>2, <1>4, <2>2, <2>3, <2>4, <3>1 DEF ClientInv, Heard
    <3>3. Attached(c)'
      BY <1>1, <1>2, <2>2, <2>3, <2>4, <3>1 DEF ClientInv, Attached, AtHome
    <3>4. Authorized(c)' /\ Known(c)'
      BY <1>2, <1>6, <2>1, <2>2, <2>4 DEF ClientInv, Authorized, Known
    <3> QED
      BY <3>2, <3>3, <3>4 DEF ClientInv
  <2>6. ASSUME NEW d \in Clients, d # c PROVE ClientInv(d)'
    <3>1. e \notin EventsOf(d)
      BY <2>3, <2>6, EventsOfKinds
    <3>2. Keeps(queue, queue', EventsOf(d))
      BY <2>1, <2>3, <3>1, AppendKeeps
    <3> QED
      BY <1>5, <2>1, <2>2, <2>6, <3>2, ClientQuiet DEF ClientsInv
  <2> QED
    BY <2>5, <2>6 DEF ClientsInv
<1>7. CASE client[c].state # "connected"
  <2>1. /\ client' = [ client EXCEPT ![c] = NoProcess ] /\ queue' = queue
        /\ authorizedPids' = [ authorizedPids EXCEPT ![c] = NoApp ]
    BY <1>7 DEF Ends
  <2>2. /\ client'[c].state = "dead" /\ authorizedPids'[c] = NoApp
        /\ \A d \in Clients : d # c => client'[d] = client[d] /\ authorizedPids'[d] = authorizedPids[d]
    BY <2>1, ClientTyped DEF NoProcess
  <2>3. Comes(c) \notin In(queue)
    BY <1>2, <1>3, <1>7, EndFollows
  <2>4. \A o \in Objects : c \notin object[o].sessions
    BY <1>2, <1>3, <1>7 DEF ClientInv, Attached, AtHome
  <2>5. ClientInv(c)'
    <3>1. Heard(c)'
      BY <1>2, <1>3, <2>1, <2>3 DEF ClientInv, Heard
    <3>2. Attached(c)'
      BY <1>1, <2>4 DEF Attached
    <3>3. Authorized(c)' /\ Known(c)'
      BY <2>2 DEF Authorized, Known
    <3> QED
      BY <3>1, <3>2, <3>3 DEF ClientInv
  <2>6. ASSUME NEW d \in Clients, d # c PROVE ClientInv(d)'
    BY <1>5, <2>1, <2>2, <2>6, KeepsSame, ClientQuiet DEF ClientsInv
  <2> QED
    BY <2>5, <2>6 DEF ClientsInv
<1> QED
  BY <1>6, <1>7

LEMMA SessionStartingClients ==
  ASSUME TypeOK, ObjectsInv, ClientsInv, NEW c \in Clients, SessionStarting(c)
  PROVE  ClientsInv'
<1>1. /\ queue # << >> /\ Head(queue) = Comes(c) /\ queue' = Tail(queue)
      /\ client' = client /\ authorizedPids' = [ authorizedPids EXCEPT ![c] = NoApp ]
  BY DEF SessionStarting, Handle, Comes, outside
<1>2. /\ authorizedPids'[c] = NoApp
      /\ \A d \in Clients : d # c => authorizedPids'[d] = authorizedPids[d]
  BY <1>1, ClientTyped
<1>3. ClientInv(c)
  BY DEF ClientsInv
<1>4. PICK e \in Events : e = Comes(c)
  BY EventTyped DEF Comes
<1>5. /\ In(queue) = In(queue') \cup { e }
      /\ Once(queue, e) => e \notin In(queue')
      /\ \A x : Once(queue, x) => Once(queue', x)
      /\ \A y : Followed(queue, e, y) => y \in In(queue')
  BY <1>1, <1>4, QueueTyped, InTail
<1>6. Comes(c) \in In(queue) /\ Comes(c) \notin In(queue')
  BY <1>3, <1>4, <1>5 DEF ClientInv, Heard
<1>7. client[c].state = "connected" \/ Goes(c) \in In(queue')
  BY <1>3, <1>4, <1>5, <1>6 DEF ClientInv, Heard
<1>8. \A o \in Objects : c \notin object[o].sessions
  BY <1>3, <1>6 DEF ClientInv, Attached, AtHome
<1>9. \/ object' = object
      \/ \E o \in Objects : /\ object[o].appId = client[c].appId
                            /\ object' = [ object EXCEPT ![o].sessions = @ \cup { c } ]
  <2>1. CASE authorizedPids[c] # NoApp /\ HasApp(authorizedPids[c])
    <3>1. PICK a : a = authorizedPids[c]
      OBVIOUS
    <3>2. PICK o : o = FindApp(a)
      OBVIOUS
    <3>3. o \in Objects /\ object[o].appId = a
      BY <2>1, <3>1, <3>2, Found
    <3>4. a = client[c].appId
      BY <1>3, <2>1, <3>1 DEF ClientInv, Authorized
    <3>5. object' = [ object EXCEPT ![o].sessions = @ \cup { c } ]
      BY <2>1, <3>1, <3>2 DEF SessionStarting
    <3> QED
      BY <3>3, <3>4, <3>5
  <2>2. CASE ~ (authorizedPids[c] # NoApp /\ HasApp(authorizedPids[c]))
    BY <2>2 DEF SessionStarting
  <2> QED
    BY <2>1, <2>2
<1>10. /\ \A o \in Objects : \A d : d # c /\ d \in object'[o].sessions => d \in object[o].sessions
       /\ \A o \in Objects : c \in object'[o].sessions => object[o].appId = client[c].appId
       /\ \A o, p \in Objects : c \in object'[o].sessions /\ c \in object'[p].sessions => o = p
  <2>1. CASE object' = object
    BY <1>8, <2>1
  <2>2. CASE \E o \in Objects : /\ object[o].appId = client[c].appId
                                /\ object' = [ object EXCEPT ![o].sessions = @ \cup { c } ]
    <3>1. PICK o \in Objects : /\ object[o].appId = client[c].appId
                               /\ object' = [ object EXCEPT ![o].sessions = @ \cup { c } ]
      BY <2>2
    <3>2. /\ object'[o].sessions = object[o].sessions \cup { c }
          /\ \A p \in Objects : p # o => object'[p] = object[p]
      BY <3>1, QueueTyped DEF ObjectRecord
    <3> QED
      BY <1>8, <3>1, <3>2
  <2> QED
    BY <1>9, <2>1, <2>2
<1>11. \A o \in Objects : object'[o].appId = object[o].appId
  BY SessionStartingObjects
<1>12. ClientInv(c)'
  <2>1. Comes(c) # Goes(c)
    BY EventsOfKinds
  <2>2. Goes(c) \in In(queue') => Goes(c) \in In(queue)
    BY <1>5
  <2>3. Heard(c)'
    BY <1>1, <1>3, <1>5, <1>6, <2>2 DEF ClientInv, Heard
  <2>4. Attached(c)'
    BY <1>1, <1>6, <1>7, <1>10, <1>11 DEF Attached, AtHome
  <2>5. Authorized(c)' /\ Known(c)'
    BY <1>1, <1>2, <1>3 DEF ClientInv, Authorized, Known
  <2> QED
    BY <2>3, <2>4, <2>5 DEF ClientInv
<1>13. ASSUME NEW d \in Clients, d # c PROVE ClientInv(d)'
  <2>1. Keeps(queue, queue', EventsOf(d))
    <3>1. Comes(c) \notin EventsOf(d)
      BY <1>13, EventsOfKinds
    <3> QED
      BY <1>1, <3>1, QueueTyped, KeepsTail
  <2>2. SessionsKept(d)
    BY <1>10, <1>11, <1>13 DEF SessionsKept
  <2> QED
    BY <1>1, <1>2, <1>13, <2>1, <2>2, ClientQuiet DEF ClientsInv
<1> QED
  BY <1>12, <1>13 DEF ClientsInv

LEMMA SessionStoppingClients ==
  ASSUME TypeOK, ObjectsInv, ClientsInv, NEW c \in Clients, SessionStopping(c)
  PROVE  /\ ClientsInv' /\ client' = [ client EXCEPT ![c] = NoProcess ]
         /\ client[c].state = "dead"
<1>1. /\ queue # << >> /\ Head(queue) = Goes(c)
      /\ client' = (IF client[c].state = "dead"
                    THEN [ client EXCEPT ![c] = NoProcess ] ELSE client)
      /\ authorizedPids' = authorizedPids
  BY DEF SessionStopping, Handle, Goes
<1>2. PICK e \in Events : e = Goes(c)
  BY EventTyped DEF Goes
<1>3. PICK q : q = Tail(queue)
  OBVIOUS
<1>4. /\ In(queue) = In(q) \cup { e }
      /\ Once(queue, e) => e \notin In(q)
      /\ \A x : Once(queue, x) => Once(q, x)
      /\ \A x : Followed(queue, x, e) /\ Once(queue, e) => x \notin In(queue)
      /\ q \in Seq(Events)
  BY <1>1, <1>2, <1>3, QueueTyped, InTail, Behind
<1>5. ClientInv(c)
  BY DEF ClientsInv
<1>6. client[c].state = "dead" /\ Goes(c) \notin In(q) /\ Once(queue, Goes(c))
  BY <1>2, <1>4, <1>5 DEF ClientInv, Heard
<1>7. Comes(c) \notin In(queue) /\ Comes(c) \notin In(q)
  BY <1>2, <1>4, <1>5, <1>6 DEF ClientInv, Heard
<1>8. authorizedPids[c] = NoApp
  BY <1>5, <1>6, <1>7 DEF ClientInv, Authorized
<1>9. /\ client' = [ client EXCEPT ![c] = NoProcess ] /\ client'[c].state = "dead"
      /\ \A d \in Clients : d # c => client'[d] = client[d]
  BY <1>1, <1>6, ClientTyped DEF NoProcess
<1>10. Altered(q) \/ (UNCHANGED << object, applications >> /\ queue' = q)
  BY <1>3, StoppingAlters
<1>11. Calm
  BY <1>4, <1>10, AlteredCalm, SameCalm
<1>12. \A d \in Clients : SessionsKept(d)
  BY <1>11, CalmSessions
<1>13. ASSUME NEW d \in Clients PROVE Keeps(q, queue', EventsOf(d))
  BY <1>4, <1>10, AlteredQueue, KeepsSame, EventsOfKinds
<1>14. \A o \in Objects : c \notin object'[o].sessions
  <2>1. CASE \A o \in Objects : c \notin object[o].sessions
    BY <1>11, <2>1 DEF Calm
  <2>2. CASE \E o \in Objects : c \in object[o].sessions /\ c \notin object'[o].sessions
    BY <1>5, <1>11, <2>2 DEF ClientInv, Attached, Calm
  <2> QED
    BY <2>1, <2>2, StoppingAlters
<1>15. ClientInv(c)'
  <2>1. Comes(c) \in EventsOf(c) /\ Goes(c) \in EventsOf(c)
    BY DEF EventsOf
  <2>2. /\ Comes(c) \notin In(queue') /\ Goes(c) \notin In(queue')
        /\ Once(queue', Comes(c)) /\ Once(queue', Goes(c))
    BY <1>4, <1>5, <1>6, <1>7, <1>13, <2>1 DEF Keeps, ClientInv, Heard
  <2>3. Heard(c)'
    BY <2>2 DEF Heard
  <2>4. Attached(c)'
    BY <1>14 DEF Attached
  <2>5. Authorized(c)' /\ Known(c)'
    BY <1>1, <1>8, <1>9 DEF Authorized, Known
  <2> QED
    BY <2>3, <2>4, <2>5 DEF ClientInv
<1>16. ASSUME NEW d \in Clients, d # c PROVE ClientInv(d)'
  <2>1. Goes(c) \notin EventsOf(d)
    BY <1>16, EventsOfKinds
  <2>2. Keeps(queue, q, EventsOf(d))
    BY <1>1, <1>3, <2>1, QueueTyped, KeepsTail
  <2>3. Keeps(queue, queue', EventsOf(d))
    BY <1>13, <2>2, KeepsBoth
  <2> QED
    BY <1>1, <1>9, <1>12, <1>16, <2>3, ClientQuiet DEF ClientsInv
<1> QED
  BY <1>6, <1>9, <1>15, <1>16 DEF ClientsInv

-----------------------------------------------------------------------------
(* ubuntu-app-launch and the processes *)

LEMMA LaunchBears ==
  ASSUME TypeOK, NEW a \in AppIds, Launch(a)
  PROVE  \/ UNCHANGED << job, client, reports >>
         \/ /\ \E c \in Clients : /\ Born(c, a) /\ job[a] = NoClient
                                  /\ job' = [ job EXCEPT ![a] = c ]
            /\ reports' = [ reports EXCEPT ![a] = Append(@, << "starting", FALSE >>) ]
BY DEF Launch, Born, outside

LEMMA StartBears ==
  ASSUME TypeOK, NEW a \in AppIds, NEW Q, StartApplication(a, Q)
  PROVE  \/ UNCHANGED << job, client, reports >>
         \/ /\ \E c \in Clients : /\ Born(c, a) /\ job[a] = NoClient
                                  /\ job' = [ job EXCEPT ![a] = c ]
            /\ reports' = [ reports EXCEPT ![a] = Append(@, << "starting", FALSE >>) ]
<1>1. Launch(a) \/ UNCHANGED << job, client, reports >>
  BY DEF StartApplication, QueueStart, outside
<1> QED
  BY <1>1, LaunchBears

LEMMA AskedOnly ==
  ASSUME TypeOK, NEW a, AskToStop(a)
  PROVE  /\ \A c \in Clients : client'[c].state = client[c].state /\ client'[c].appId = client[c].appId
         /\ client' \in [ Clients -> ClientRecord ]
<1>1. client' = [ c \in Clients |-> [ client[c] EXCEPT !.asked = @ \/ job[a] = c ] ]
  BY DEF AskToStop
<1>2. ASSUME NEW c \in Clients
      PROVE  /\ client'[c].state = client[c].state /\ client'[c].appId = client[c].appId
             /\ client'[c] \in ClientRecord
  <2>1. client[c] \in ClientRecord
    BY ClientTyped
  <2>2. PICK b \in BOOLEAN : b = (client[c].asked \/ job[a] = c)
    OBVIOUS
  <2>3. client'[c] = [ client[c] EXCEPT !.asked = b ]
    BY <1>1, <2>1, <2>2 DEF ClientRecord
  <2> QED
    BY <2>1, <2>3 DEF ClientRecord
<1> QED
  BY <1>1, <1>2

LEMMA StopAsks ==
  ASSUME TypeOK, NEW a, StopApplication(a)
  PROVE  /\ \A c \in Clients : client'[c].state = client[c].state /\ client'[c].appId = client[c].appId
         /\ client' \in [ Clients -> ClientRecord ]
<1>1. AskToStop(FindApp(a)) \/ \E b : AskToStop(b) \/ client' = client
  BY DEF StopApplication
<1> QED
  BY <1>1, AskedOnly, ClientTyped

LEMMA ClientsStep ==
  ASSUME TypeOK, ObjectsInv, ClientsInv, Next,
         \A a \in AppIds : job[a] # NoClient => client[job[a]].appId = a
  PROVE  ClientsInv'
<1>0. \A c \in Clients : Keeps(queue, queue, EventsOf(c)) /\ EventsOf(c) \cap Deletions = {}
  BY KeepsSame, EventsOfKinds
<1>a. Calm => \A c \in Clients : SessionsKept(c)
  BY CalmSessions
<1>b. ASSUME NEW q \in Seq(Events), Altered(q) PROVE \A c \in Clients : Keeps(q, queue', EventsOf(c))
  BY <1>0, <1>b, AlteredQueue
<1>1. ASSUME NEW a \in AppIds, ShellStarts(a) \/ QueuedStart(a) PROVE ClientsInv'
  <2>1. /\ authorizedPids' = authorizedPids /\ \E Q : StartApplication(a, Q)
        /\ \A c \in Clients : Keeps(queue, queue', EventsOf(c))
    <3>1. CASE ShellStarts(a)
      BY <1>0, <3>1 DEF ShellStarts
    <3>2. CASE QueuedStart(a)
      BY <3>2, TailKeeps, EventsOfKinds DEF QueuedStart
    <3> QED
      BY <1>1, <3>1, <3>2
  <2>2. Calm
    BY <2>1, StartAlters, AlteredCalm, AddCalm, SameCalm
  <2>3. client' = client \/ \E c \in Clients : Born(c, a)
    BY <2>1, StartBears
  <2> QED
    BY <1>a, <2>1, <2>2, <2>3, ClientsKept
<1>2. ASSUME NEW a \in AppIds, StopApplication(a) PROVE ClientsInv'
  <2>1. Altered(queue) /\ authorizedPids' = authorizedPids
    BY <1>2, StopAlters DEF StopApplication
  <2>2. Calm
    BY <2>1, AlteredCalm
  <2> QED
    BY <1>2, <1>a, <1>b, <2>1, <2>2, StopAsks, ClientsKept, QueueTyped
<1>3. ASSUME NEW a \in AppIds, StartedElsewhere(a) PROVE ClientsInv'
  <2>1. UNCHANGED << object, authorizedPids, queue >>
    BY <1>3 DEF StartedElsewhere
  <2>2. client' = client \/ \E c \in Clients : Born(c, a)
    BY <1>3, LaunchBears DEF StartedElsewhere
  <2> QED
    BY <1>0, <1>a, <2>1, <2>2, SameCalm, ClientsKept
<1>4. ASSUME NEW a \in AppIds, Report(a) PROVE ClientsInv'
  <2>1. client' = client /\ authorizedPids' = authorizedPids
    BY <1>4 DEF Report, ProcessStarting, ProcessFailed, ProcessStopped
  <2>2. \/ Altered(queue) \/ (Add(a, "Running") /\ queue' = queue)
        \/ UNCHANGED << object, applications, queue >>
    BY <1>4, StartingAlters, FailedAlters, StoppedAlters DEF Report
  <2>3. Calm
    BY <2>2, AlteredCalm, AddCalm, SameCalm
  <2>4. \A c \in Clients : Keeps(queue, queue', EventsOf(c))
    BY <1>0, <1>b, <2>2, QueueTyped
  <2> QED
    BY <1>a, <2>1, <2>3, <2>4, ClientsKept
<1>5. ASSUME NEW o \in Objects, Respawn(o) PROVE ClientsInv'
  <2>1. PICK e \in Events : /\ e = << "launch", object[o].appId >>
                            /\ Append(queue, e) \in Seq(Events)
                            /\ \A K : e \notin K => Keeps(queue, Append(queue, e), K)
    BY <1>5, RespawnPosts
  <2>2. Altered(Append(queue, e)) /\ client' = client /\ authorizedPids' = authorizedPids
    BY <1>5, <2>1, RespawnAlters DEF Respawn, outside
  <2>3. Calm
    BY <2>2, AlteredCalm
  <2>4. ASSUME NEW c \in Clients PROVE Keeps(queue, queue', EventsOf(c))
    <3>1. e \notin EventsOf(c)
      BY <2>1, EventsOfKinds
    <3>2. Keeps(queue, Append(queue, e), EventsOf(c))
      BY <2>1, <3>1
    <3>3. Keeps(Append(queue, e), queue', EventsOf(c))
      BY <1>b, <2>1, <2>2
    <3> QED
      BY <3>2, <3>3, KeepsBoth
  <2> QED
    BY <1>a, <2>2, <2>3, <2>4, ClientsKept
<1>6. ASSUME NEW o \in Objects, Ready(o) PROVE ClientsInv'
  <2>1. Altered(queue) /\ client' = client /\ authorizedPids' = authorizedPids
    BY <1>6, ReadyAlters DEF Ready, outside
  <2>2. Calm
    BY <2>1, AlteredCalm
  <2> QED
    BY <1>a, <1>b, <2>1, <2>2, ClientsKept, QueueTyped
<1>7. ASSUME NEW o \in Objects, LastSurfaceCloses(o) PROVE ClientsInv'
  <2>1. client' = client /\ authorizedPids' = authorizedPids /\ queue' = queue
    BY <1>7 DEF LastSurfaceCloses, outside
  <2>2. Calm
    BY <1>7, ClosesCalm
  <2> QED
    BY <1>0, <1>a, <2>1, <2>2, ClientsKept
<1>8. ASSUME NEW o \in Objects, StopTimeout(o) PROVE ClientsInv'
  <2>1. UNCHANGED << object, authorizedPids, queue >> /\ AskToStop(object[o].appId)
    BY <1>8 DEF StopTimeout
  <2> QED
    BY <1>0, <1>a, <2>1, AskedOnly, SameCalm, ClientsKept
<1>9. ASSUME NEW c \in Clients, AuthorizeInstance(c) PROVE ClientsInv'
  <2>1. PICK o \in StartingWith(c) : Accept(c, object[o].appId)
    BY <1>9 DEF AuthorizeInstance
  <2>2. o \in Objects /\ job[object[o].appId] = c /\ object[o].appId \in AppIds
    <3>1. o \in Listed /\ job[object[o].appId] = c
      BY <2>1 DEF StartingWith
    <3>2. o \in Objects /\ object[o].phase # "none"
      BY <3>1, ListedPhase
    <3> QED
      BY <3>1, <3>2 DEF ObjectsInv, Existing
  <2>3. client[c].appId = object[o].appId
    BY <2>2, NamesAssumption
  <2>4. client[c].state = "launched" /\ UNCHANGED << object, queue >>
    BY <1>9 DEF AuthorizeInstance
  <2> QED
    BY <1>0, <2>1, <2>2, <2>3, <2>4, ClientAccepted
<1>10. ASSUME NEW c \in Clients, AuthorizeByHint(c) PROVE ClientsInv'
  <2>1. Accept(c, client[c].appId) /\ client[c].state = "launched" /\ object' = object
    BY <1>10 DEF AuthorizeByHint
  <2>2. client[c].appId \in AppIds
    BY <2>1 DEF ClientsInv, ClientInv, Known
  <2>3. PICK e \in Events : e = << "addApp", client[c].appId >>
    BY <2>2, EventTyped
  <2>4. queue' = queue \/ queue' = Append(queue, e)
    BY <1>10, <2>3 DEF AuthorizeByHint
  <2>5. ASSUME NEW d \in Clients PROVE Keeps(queue, queue', EventsOf(d))
    <3>1. e \notin EventsOf(d)
      BY <2>3, EventsOfKinds
    <3> QED
      BY <1>0, <2>4, <3>1, AppendKeeps
  <2> QED
    BY <2>1, <2>2, <2>5, ClientAccepted
<1>11. ASSUME NEW c \in Clients, NEW a \in AppIds, StartedByHand(c, a) PROVE ClientsInv'
  <2>1. UNCHANGED << object, authorizedPids, queue >> /\ Born(c, a)
    BY <1>11 DEF StartedByHand, Born
  <2> QED
    BY <1>0, <1>a, <2>1, SameCalm, ClientsKept
<1>12. ASSUME NEW c \in Clients, SessionAdded(c) \/ Ends(c) PROVE ClientsInv'
  BY <1>12, SessionAddedClients, EndsClients
<1>13. ASSUME NEW a \in AppIds, AddApp(a) PROVE ClientsInv'
  <2>1. client' = client /\ authorizedPids' = authorizedPids
    BY <1>13 DEF AddApp, outside
  <2>2. \A c \in Clients : Keeps(queue, queue', EventsOf(c))
    BY <1>13, TailKeeps, EventsOfKinds DEF AddApp
  <2>3. Calm
    BY <1>13, AddCalm DEF AddApp
  <2> QED
    BY <1>a, <2>1, <2>2, <2>3, ClientsKept
<1>14. ASSUME NEW a \in AppIds, QueuedLaunch(a) PROVE ClientsInv'
  <2>1. UNCHANGED << object, authorizedPids >>
    BY <1>14 DEF QueuedLaunch
  <2>2. \A c \in Clients : Keeps(queue, queue', EventsOf(c))
    BY <1>14, TailKeeps, EventsOfKinds DEF QueuedLaunch
  <2>3. client' = client \/ \E c \in Clients : Born(c, a)
    BY <1>14, LaunchBears DEF QueuedLaunch, outside
  <2> QED
    BY <1>a, <2>1, <2>2, <2>3, SameCalm, ClientsKept
<1>15. ASSUME NEW c \in Clients, SessionStarting(c) \/ SessionStopping(c) PROVE ClientsInv'
  BY <1>15, SessionStartingClients, SessionStoppingClients
<1>16. ASSUME NEW o \in Objects, Deleted(o) PROVE ClientsInv'
  <2>1. /\ client' = client /\ authorizedPids' = authorizedPids
        /\ object' = [ object EXCEPT ![o] = NoObject ]
    BY <1>16 DEF Deleted, outside
  <2>2. ASSUME NEW c PROVE SessionsKept(c)
    <3>1. NoObject.sessions = {}
      BY DEF NoObject
    <3>2. object'[o] = NoObject /\ \A p \in Objects : p # o => object'[p] = object[p]
      BY <2>1, QueueTyped
    <3> QED
      BY <3>1, <3>2 DEF SessionsKept
  <2>3. /\ Tail(queue) \in Seq(Events)
        /\ \A c \in Clients : Keeps(queue, Tail(queue), EventsOf(c))
    BY <1>16, TailKeeps, EventsOfKinds DEF Deleted
  <2>4. Handle("delete", o) /\ \/ queue' = Tail(queue)
                               \/ queue' = Append(Tail(queue), << "start", object[o].appId >>)
    BY <1>16 DEF Deleted
  <2>5. object[o].appId \in AppIds
    <3>1. << "delete", o >> \in In(queue)
      BY <2>4, TailKeeps, QueueTyped, InTail
    <3> QED
      BY <3>1 DEF ObjectsInv, Deleting, Existing
  <2>6. PICK e \in Events : e = << "start", object[o].appId >>
    BY <2>5, EventTyped
  <2>7. ASSUME NEW c \in Clients PROVE Keeps(queue, queue', EventsOf(c))
    <3>1. e \notin EventsOf(c)
      BY <2>6, EventsOfKinds
    <3>2. Keeps(Tail(queue), Append(Tail(queue), e), EventsOf(c))
      BY <2>3, <3>1, KeepsAppend
    <3>3. queue' = Tail(queue) \/ queue' = Append(Tail(queue), e)
      BY <2>4, <2>6
    <3> QED
      BY <2>3, <3>2, <3>3, KeepsBoth
  <2> QED
    BY <2>1, <2>2, <2>7, ClientsKept
<1> QED
  BY <1>1, <1>2, <1>3, <1>4, <1>5, <1>6, <1>7, <1>8, <1>9, <1>10, <1>11, <1>12, <1>13, <1>14, <1>15, <1>16
  DEF Next, Event

-----------------------------------------------------------------------------
(* Which process is an instance of what *)

Additions == { "addApp" } \X AppIds

Running(c) ==
  client[c].state # "dead" =>
    client[c].appId \in ByHand \/ (client[c].appId \in AppIds /\ job[client[c].appId] = c)
Instance(a) ==
  job[a] # NoClient => client[job[a]].appId = a /\ client[job[a]].state # "dead"
InstancesInv ==
  /\ \A c \in Clients : Running(c)
  /\ \A a \in AppIds : Instance(a)
  /\ \A a \in AppIds : << "addApp", a >> \in In(queue) => a \in ByHand

LEMMA AdditionsKept ==
  ASSUME InstancesInv, Keeps(queue, queue', Additions)
  PROVE  \A a \in AppIds : << "addApp", a >> \in In(queue') => a \in ByHand
BY DEF InstancesInv, Keeps, Additions

LEMMA AdditionKinds ==
  ASSUME NEW x
  PROVE  /\ << "start", x >> \notin Additions /\ << "launch", x >> \notin Additions
         /\ << "delete", x >> \notin Additions
         /\ << "sessionStarting", x >> \notin Additions
         /\ << "sessionStopping", x >> \notin Additions
         /\ Additions \cap Deletions = {}
BY DEF Additions, Deletions

LEMMA JobOfClients ==
  ASSUME TypeOK, NEW a \in AppIds, job[a] # NoClient PROVE job[a] \in Clients
BY DEF TypeOK

LEMMA InstancesKept ==
  ASSUME TypeOK, InstancesInv, job' = job, Keeps(queue, queue', Additions),
         \A c \in Clients : /\ client'[c].appId = client[c].appId
                            /\ client'[c].state = "dead" <=> client[c].state = "dead"
  PROVE  InstancesInv'
<1>1. \A c \in Clients : Running(c)'
  BY DEF InstancesInv, Running
<1>2. \A a \in AppIds : Instance(a)'
  BY JobOfClients DEF InstancesInv, Instance
<1> QED
  BY <1>1, <1>2, AdditionsKept DEF InstancesInv

LEMMA InstancesBorn ==
  ASSUME TypeOK, InstancesInv, NEW c \in Clients, NEW a \in AppIds, Born(c, a),
         Keeps(queue, queue', Additions),
         \/ job[a] = NoClient /\ job' = [ job EXCEPT ![a] = c ]
         \/ job' = job /\ a \in ByHand
  PROVE  InstancesInv'
<1>1. /\ client[c].state = "dead" /\ client'[c].state = "launched" /\ client'[c].appId = a
      /\ \A d \in Clients : d # c => client'[d] = client[d]
  BY BornState
<1>2. \A b \in AppIds : job[b] # c
  BY <1>1, NamesAssumption DEF InstancesInv, Instance
<1>3. /\ \A b \in AppIds : b # a => job'[b] = job[b]
      /\ job'[a] = c \/ (job'[a] = job[a] /\ a \in ByHand)
      /\ job'[a] = c => job[a] = NoClient
  BY <1>2, ClientTyped
<1>4. ASSUME NEW d \in Clients PROVE Running(d)'
  <2>1. CASE d = c
    BY <1>1, <1>3, <2>1 DEF Running
  <2>2. CASE d # c
    <3>1. Running(d) /\ client'[d] = client[d] /\ d # NoClient
      BY <1>1, <2>2, NamesAssumption DEF InstancesInv
    <3> QED
      BY <1>3, <3>1 DEF Running
  <2> QED
    BY <2>1, <2>2
<1>5. ASSUME NEW b \in AppIds PROVE Instance(b)'
  <2>1. CASE job'[b] = c
    <3>1. b = a
      BY <1>2, <1>3, <2>1
    <3> QED
      BY <1>1, <2>1, <3>1 DEF Instance
  <2>2. CASE job'[b] # c
    <3>1. job'[b] = job[b]
      BY <1>3, <2>2
    <3>2. job[b] # NoClient => client'[job[b]] = client[job[b]]
      BY <1>1, <1>2, JobOfClients
    <3> QED
      BY <3>1, <3>2 DEF InstancesInv, Instance
  <2> QED
    BY <2>1, <2>2
<1> QED
  BY <1>4, <1>5, AdditionsKept DEF InstancesInv

(* A process that is no more is no instance. *)
LEMMA InstancesDead ==
  ASSUME TypeOK, InstancesInv, NEW c \in Clients, Keeps(queue, queue', Additions),
         client'[c].state = "dead",
         \A d \in Clients : d # c => client'[d] = client[d],
         job' = [ a \in AppIds |-> IF job[a] = c THEN NoClient ELSE job[a] ]
  PROVE  InstancesInv'
<1>1. \A a \in AppIds : job'[a] = IF job[a] = c THEN NoClient ELSE job[a]
  OBVIOUS
<1>2. ASSUME NEW d \in Clients PROVE Running(d)'
  BY <1>1, <1>2 DEF InstancesInv, Running
<1>3. ASSUME NEW a \in AppIds PROVE Instance(a)'
  BY <1>1, <1>3, JobOfClients DEF InstancesInv, Instance
<1> QED
  BY <1>2, <1>3, AdditionsKept DEF InstancesInv

LEMMA AcceptedState ==
  ASSUME TypeOK, NEW c \in Clients, NEW s \in { "authorized", "connected" },
         client' = [ client EXCEPT ![c].state = s ], client[c].state # "dead"
  PROVE  /\ \A d \in Clients : /\ client'[d].appId = client[d].appId
                               /\ client'[d].state = "dead" <=> client[d].state = "dead"
         /\ client' \in [ Clients -> ClientRecord ]
<1>1. client[c] \in ClientRecord
  BY ClientTyped
<1>2. PICK r : r = [ client[c] EXCEPT !.state = s ]
  OBVIOUS
<1>3. r \in ClientRecord /\ r.appId = client[c].appId /\ r.state = s /\ s # "dead"
  BY <1>1, <1>2 DEF ClientRecord
<1>4. client' = [ client EXCEPT ![c] = r ]
  BY <1>2
<1> QED
  BY <1>3, <1>4, ClientTyped

LEMMA InstancesStep ==
  ASSUME TypeOK, ObjectsInv, ClientsInv, InstancesInv, Next
  PROVE  InstancesInv'
<1>0. Keeps(queue, queue, Additions) /\ Additions \cap Deletions = {}
  BY KeepsSame, AdditionKinds
<1>a. ASSUME NEW q \in Seq(Events), Altered(q) PROVE Keeps(q, queue', Additions)
  BY <1>0, <1>a, AlteredQueue
<1>1. ASSUME NEW a \in AppIds, ShellStarts(a) \/ QueuedStart(a) PROVE InstancesInv'
  <2>1. Keeps(queue, queue', Additions) /\ \E Q : StartApplication(a, Q)
    <3>1. CASE ShellStarts(a)
      BY <1>0, <3>1 DEF ShellStarts
    <3>2. CASE QueuedStart(a)
      BY <3>2, TailKeeps, AdditionKinds DEF QueuedStart
    <3> QED
      BY <1>1, <3>1, <3>2
  <2>2. \/ UNCHANGED << job, client >>
        \/ \E c \in Clients : /\ Born(c, a) /\ job[a] = NoClient
                              /\ job' = [ job EXCEPT ![a] = c ]
    BY <2>1, StartBears
  <2> QED
    BY <2>1, <2>2, InstancesBorn, InstancesKept
<1>2. ASSUME NEW a \in AppIds, StopApplication(a) PROVE InstancesInv'
  <2>1. Altered(queue) /\ job' = job
    BY <1>2, StopAlters DEF StopApplication
  <2> QED
    BY <1>2, <1>a, <2>1, StopAsks, InstancesKept, QueueTyped
<1>3. ASSUME NEW a \in AppIds, StartedElsewhere(a) \/ QueuedLaunch(a) PROVE InstancesInv'
  <2>1. Keeps(queue, queue', Additions)
    BY <1>0, <1>3, TailKeeps, AdditionKinds DEF StartedElsewhere, QueuedLaunch
  <2>2. \/ UNCHANGED << job, client >>
        \/ \E c \in Clients : /\ Born(c, a) /\ job[a] = NoClient
                              /\ job' = [ job EXCEPT ![a] = c ]
    BY <1>3, LaunchBears DEF StartedElsewhere, QueuedLaunch, outside
  <2> QED
    BY <2>1, <2>2, InstancesBorn, InstancesKept
<1>4. ASSUME NEW a \in AppIds, Report(a) PROVE InstancesInv'
  <2>1. UNCHANGED << job, client >>
    BY <1>4 DEF Report, ProcessStarting, ProcessFailed, ProcessStopped
  <2>2. \/ Altered(queue) \/ queue' = queue
    BY <1>4, StartingAlters, FailedAlters, StoppedAlters DEF Report
  <2>3. Keeps(queue, queue', Additions)
    BY <1>0, <1>a, <2>2, QueueTyped
  <2> QED
    BY <2>1, <2>3, InstancesKept
<1>5. ASSUME NEW o \in Objects, Respawn(o) PROVE InstancesInv'
  <2>1. PICK e \in Events : /\ e = << "launch", object[o].appId >>
                            /\ Append(queue, e) \in Seq(Events)
                            /\ \A K : e \notin K => Keeps(queue, Append(queue, e), K)
    BY <1>5, RespawnPosts
  <2>2. queue' = Append(queue, e) /\ UNCHANGED << job, client >>
    BY <1>5, <2>1 DEF Respawn, outside
  <2>3. e \notin Additions
    BY <2>1, AdditionKinds
  <2> QED
    BY <2>1, <2>2, <2>3, InstancesKept
<1>6. ASSUME NEW o \in Objects, Ready(o) \/ LastSurfaceCloses(o) PROVE InstancesInv'
  <2>1. UNCHANGED << job, client, queue >>
    BY <1>6 DEF Ready, LastSurfaceCloses, outside
  <2> QED
    BY <1>0, <2>1, InstancesKept
<1>7. ASSUME NEW o \in Objects, StopTimeout(o) PROVE InstancesInv'
  <2>1. UNCHANGED << job, queue >> /\ AskToStop(object[o].appId)
    BY <1>7 DEF StopTimeout
  <2> QED
    BY <1>0, <2>1, AskedOnly, InstancesKept
<1>8. ASSUME NEW c \in Clients, AuthorizeInstance(c) PROVE InstancesInv'
  <2>1. /\ client' = [ client EXCEPT ![c].state = "authorized" ] /\ client[c].state = "launched"
        /\ UNCHANGED << job, queue >>
    BY <1>8 DEF AuthorizeInstance, Accept
  <2> QED
    BY <1>0, <2>1, AcceptedState, InstancesKept
<1>9. ASSUME NEW c \in Clients, AuthorizeByHint(c) PROVE InstancesInv'
  <2>1. /\ client' = [ client EXCEPT ![c].state = "authorized" ] /\ client[c].state = "launched"
        /\ job' = job
    BY <1>9 DEF AuthorizeByHint, Accept
  <2>2. \A d \in Clients : /\ client'[d].appId = client[d].appId
                           /\ client'[d].state = "dead" <=> client[d].state = "dead"
    BY <2>1, AcceptedState
  <2>3. PICK b : b = client[c].appId
    OBVIOUS
  <2>4. b \in ByHand
    BY <1>9, <2>3 DEF AuthorizeByHint, InstancesInv, Running
  <2>5. b \in AppIds
    BY <2>4, StartsAssumption
  <2>6. PICK e \in Events : e = << "addApp", b >>
    BY <2>5, EventTyped
  <2>7. queue' = queue \/ queue' = Append(queue, e)
    BY <1>9, <2>3, <2>6 DEF AuthorizeByHint
  <2>8. In(queue') \subseteq In(queue) \cup { e }
    <3>1. In(Append(queue, e)) = In(queue) \cup { e }
      BY QueueTyped, AppendIn
    <3> QED
      BY <2>7, <3>1
  <2>9. ASSUME NEW a \in AppIds, << "addApp", a >> \in In(queue') PROVE a \in ByHand
    <3>1. CASE << "addApp", a >> \in In(queue)
      BY <3>1 DEF InstancesInv
    <3>2. CASE << "addApp", a >> = e
      BY <2>4, <2>6, <3>2
    <3> QED
      BY <2>8, <2>9, <3>1, <3>2
  <2>10. \A d \in Clients : Running(d)'
    BY <2>1, <2>2 DEF InstancesInv, Running
  <2>11. \A a \in AppIds : Instance(a)'
    BY <2>1, <2>2, JobOfClients DEF InstancesInv, Instance
  <2> QED
    BY <2>9, <2>10, <2>11 DEF InstancesInv
<1>10. ASSUME NEW c \in Clients, SessionAdded(c) PROVE InstancesInv'
  <2>1. /\ client' = [ client EXCEPT ![c].state = "connected" ] /\ client[c].state = "authorized"
        /\ job' = job /\ queue' = Append(queue, << "sessionStarting", c >>)
    BY <1>10 DEF SessionAdded
  <2>2. PICK e \in Events : e = << "sessionStarting", c >> /\ queue' = Append(queue, e)
    BY <2>1, EventTyped
  <2>3. e \notin Additions
    BY <2>2, AdditionKinds
  <2>4. Keeps(queue, queue', Additions)
    BY <2>2, <2>3, AppendKeeps
  <2> QED
    BY <2>1, <2>4, AcceptedState, InstancesKept
<1>11. ASSUME NEW c \in Clients, Ends(c) PROVE InstancesInv'
  <2>1. job' = [ a \in AppIds |-> IF job[a] = c THEN NoClient ELSE job[a] ]
    BY <1>11 DEF Ends
  <2>2. client' = [ client EXCEPT ![c].state = "dead" ] \/ client' = [ client EXCEPT ![c] = NoProcess ]
    BY <1>11 DEF Ends
  <2>3. client'[c].state = "dead" /\ \A d \in Clients : d # c => client'[d] = client[d]
    BY <2>2, ClientTyped DEF ClientRecord, NoProcess
  <2>4. PICK e \in Events : e = << "sessionStopping", c >>
    BY EventTyped
  <2>5. queue' = queue \/ queue' = Append(queue, e)
    BY <1>11, <2>4 DEF Ends
  <2>6. e \notin Additions
    BY <2>4, AdditionKinds
  <2>7. Keeps(queue, queue', Additions)
    BY <1>0, <2>5, <2>6, AppendKeeps
  <2> QED
    BY <2>1, <2>3, <2>7, InstancesDead
<1>12. ASSUME NEW c \in Clients, NEW a \in AppIds, StartedByHand(c, a) PROVE InstancesInv'
  <2>1. UNCHANGED << job, queue >> /\ Born(c, a) /\ a \in ByHand
    BY <1>12 DEF StartedByHand, Born
  <2> QED
    BY <1>0, <2>1, InstancesBorn
<1>13. ASSUME NEW a \in AppIds, AddApp(a) PROVE InstancesInv'
  <2>1. /\ queue # << >> /\ queue' = Tail(queue) /\ UNCHANGED << job, client >>
    BY <1>13 DEF AddApp, Handle, outside
  <2>2. In(queue') \subseteq In(queue)
    BY <2>1, QueueTyped, InTail
  <2>3. \A c \in Clients : Running(c)'
    BY <2>1 DEF InstancesInv, Running
  <2>4. \A b \in AppIds : Instance(b)'
    BY <2>1 DEF InstancesInv, Instance
  <2> QED
    BY <2>2, <2>3, <2>4 DEF InstancesInv
<1>14. ASSUME NEW c \in Clients, SessionStarting(c) PROVE InstancesInv'
  <2>1. Keeps(queue, queue', Additions)
    BY <1>14, TailKeeps, AdditionKinds DEF SessionStarting
  <2> QED
    BY <1>14, <2>1, InstancesKept DEF SessionStarting, outside
<1>15. ASSUME NEW c \in Clients, SessionStopping(c) PROVE InstancesInv'
  <2>1. Tail(queue) \in Seq(Events) /\ Keeps(queue, Tail(queue), Additions)
    BY <1>15, TailKeeps, AdditionKinds DEF SessionStopping
  <2>2. Keeps(Tail(queue), queue', Additions)
    BY <1>0, <1>15, <1>a, <2>1, StoppingAlters, KeepsSame
  <2>3. Keeps(queue, queue', Additions)
    BY <2>1, <2>2, KeepsBoth
  <2>4. client' = [ client EXCEPT ![c] = NoProcess ] /\ client[c].state = "dead" /\ job' = job
    BY <1>15, SessionStoppingClients DEF SessionStopping
  <2>5. client'[c].state = "dead" /\ \A d \in Clients : d # c => client'[d] = client[d]
    BY <2>4, ClientTyped DEF NoProcess
  <2>6. \A a \in AppIds : job[a] # c
    BY <2>4, NamesAssumption DEF InstancesInv, Instance
  <2>7. \A d \in Clients : Running(d)'
    BY <2>4, <2>5 DEF InstancesInv, Running
  <2>8. \A a \in AppIds : Instance(a)'
    BY <2>4, <2>5, <2>6, JobOfClients DEF InstancesInv, Instance
  <2> QED
    BY <2>3, <2>7, <2>8, AdditionsKept DEF InstancesInv
<1>16. ASSUME NEW o \in Objects, Deleted(o) PROVE InstancesInv'
  <2>1. UNCHANGED << job, client >> /\ Handle("delete", o)
        /\ \/ queue' = Tail(queue)
           \/ queue' = Append(Tail(queue), << "start", object[o].appId >>)
    BY <1>16 DEF Deleted, outside
  <2>2. /\ Tail(queue) \in Seq(Events) /\ Keeps(queue, Tail(queue), Additions)
    BY <2>1, TailKeeps, AdditionKinds
  <2>5. object[o].appId \in AppIds
    <3>1. << "delete", o >> \in In(queue)
      BY <2>1, TailKeeps, QueueTyped, InTail
    <3> QED
      BY <3>1 DEF ObjectsInv, Deleting, Existing
  <2>6. PICK e \in Events : e = << "start", object[o].appId >>
    BY <2>5, EventTyped
  <2>7. Keeps(queue, queue', Additions)
    <3>1. e \notin Additions
      BY <2>6, AdditionKinds
    <3>2. Keeps(Tail(queue), Append(Tail(queue), e), Additions)
      BY <2>2, <3>1, KeepsAppend
    <3>3. queue' = Tail(queue) \/ queue' = Append(Tail(queue), e)
      BY <2>1, <2>6
    <3> QED
      BY <2>2, <3>2, <3>3, KeepsBoth
  <2> QED
    BY <2>1, <2>7, InstancesKept
<1> QED
  BY <1>1, <1>2, <1>3, <1>4, <1>5, <1>6, <1>7, <1>8, <1>9, <1>10, <1>11, <1>12, <1>13, <1>14, <1>15, <1>16
  DEF Next, Event

-----------------------------------------------------------------------------
(* One entry of an application *)

Singles ==
  \A o, p \in Listed :
    object[o].appId = object[p].appId /\ object[o].appId \notin ByHand => o = p

LEMMA SinglesAreOne == ASSUME TypeOK, ObjectsInv, Singles PROVE OnePerLaunched
<1> SUFFICES ASSUME NEW i \in DOMAIN applications, NEW j \in DOMAIN applications,
                    object[applications[i]].appId = object[applications[j]].appId,
                    object[applications[i]].appId \notin ByHand
             PROVE  i = j
  BY DEF OnePerLaunched
<1>1. applications[i] \in Listed /\ applications[j] \in Listed
  BY DEF Listed
<1>2. applications[i] = applications[j]
  BY <1>1 DEF Singles
<1>3. Once(applications, applications[i])
  BY <1>1, ListedPhase DEF ObjectsInv, ListedOnce
<1> QED
  BY <1>2, <1>3 DEF Once

LEMMA SinglesKept ==
  ASSUME TypeOK, ObjectsInv, Singles, Listed' \subseteq Listed,
         \A o \in Listed : object'[o].appId = object[o].appId
  PROVE  Singles'
BY DEF Singles

LEMMA SinglesCalm ==
  ASSUME TypeOK, ObjectsInv, Singles, Listed' \subseteq Listed, Calm
  PROVE  Singles'
<1>1. \A o \in Listed : object'[o].appId = object[o].appId
  BY ListedPhase DEF Calm
<1> QED
  BY <1>1, SinglesKept

LEMMA SinglesAdded ==
  ASSUME TypeOK, ObjectsInv, Singles, NEW a, NEW s, Add(a, s), ~ HasApp(a) \/ a \in ByHand
  PROVE  Singles'
<1>1. PICK o \in Objects : /\ object'[o].appId = a /\ Listed' = Listed \cup { o }
                           /\ object[o] = NoObject
                           /\ \A p \in Objects : p # o => object'[p] = object[p]
  BY AddCalm
<1>2. o \notin Listed
  <2>1. object[o].phase = "none"
    BY <1>1 DEF NoObject
  <2> QED
    BY <2>1, ListedPhase
<1>3. \A p \in Listed : p \in Objects /\ p # o /\ object'[p] = object[p]
  BY <1>1, <1>2, ListedPhase
<1>4. \A p \in Listed : object[p].appId = a => a \in ByHand
  BY DEF HasApp
<1> SUFFICES ASSUME NEW x \in Listed', NEW y \in Listed',
                    object'[x].appId = object'[y].appId, object'[x].appId \notin ByHand
             PROVE  x = y
  BY DEF Singles
<1>5. CASE x \in Listed /\ y \in Listed
  BY <1>3, <1>5 DEF Singles
<1>6. CASE x = o \/ y = o
  BY <1>1, <1>3, <1>4, <1>6
<1> QED
  BY <1>1, <1>5, <1>6

LEMMA ListedSame == applications' = applications => Listed' = Listed
BY DEF Listed

LEMMA SinglesStep ==
  ASSUME TypeOK, ObjectsInv, InstancesInv, Singles, Next
  PROVE  Singles'
<1>1. ASSUME NEW a \in AppIds, ShellStarts(a) \/ QueuedStart(a) PROVE Singles'
  <2>1. \E Q : StartApplication(a, Q)
    BY <1>1 DEF ShellStarts, QueuedStart
  <2>2. CASE Altered(queue')
    BY <2>2, AlteredCalm, SinglesCalm
  <2>3. CASE UNCHANGED << object, applications >>
    BY <2>3, SameCalm, ListedSame, SinglesCalm
  <2>4. CASE ~ HasApp(a) /\ Add(a, "Unknown")
    BY <2>4, SinglesAdded
  <2> QED
    BY <2>1, <2>2, <2>3, <2>4, StartAlters
<1>2. ASSUME NEW a \in AppIds, StopApplication(a) PROVE Singles'
  BY <1>2, StopAlters, AlteredCalm, SinglesCalm
<1>3. ASSUME NEW a \in AppIds, StartedElsewhere(a) \/ QueuedLaunch(a) PROVE Singles'
  BY <1>3, SameCalm, ListedSame, SinglesCalm DEF StartedElsewhere, QueuedLaunch, lists
<1>4. ASSUME NEW a \in AppIds, Report(a) PROVE Singles'
  <2>1. CASE Altered(queue)
    BY <2>1, AlteredCalm, SinglesCalm
  <2>2. CASE ~ HasApp(a) /\ Add(a, "Running")
    BY <2>2, SinglesAdded
  <2>3. CASE UNCHANGED << object, applications, queue >>
    BY <2>3, SameCalm, ListedSame, SinglesCalm
  <2> QED
    BY <1>4, <2>1, <2>2, <2>3, StartingAlters, FailedAlters, StoppedAlters DEF Report
<1>5. ASSUME NEW o \in Objects, Respawn(o) \/ Ready(o) PROVE Singles'
  BY <1>5, RespawnAlters, ReadyAlters, AlteredCalm, SinglesCalm
<1>6. ASSUME NEW o \in Objects, LastSurfaceCloses(o) PROVE Singles'
  <2>1. applications' = Without(o)
    BY <1>6 DEF LastSurfaceCloses
  <2>2. Listed' \subseteq Listed
    BY <2>1, Removed, ListedIn DEF ObjectsInv, ListedOnce
  <2> QED
    BY <1>6, <2>2, ClosesCalm, SinglesCalm
<1>7. ASSUME NEW o \in Objects, StopTimeout(o) PROVE Singles'
  BY <1>7, SameCalm, ListedSame, SinglesCalm DEF StopTimeout, lists
<1>8. ASSUME NEW c \in Clients, \/ AuthorizeInstance(c) \/ AuthorizeByHint(c) \/ SessionAdded(c)
                                \/ Ends(c) \/ \E a \in AppIds : StartedByHand(c, a)
      PROVE  Singles'
  <2>1. UNCHANGED << object, applications >>
    BY <1>8 DEF AuthorizeInstance, AuthorizeByHint, SessionAdded, Ends, StartedByHand, lists
  <2> QED
    BY <2>1, SameCalm, ListedSame, SinglesCalm
<1>9. ASSUME NEW a \in AppIds, AddApp(a) PROVE Singles'
  <2>1. << "addApp", a >> \in In(queue)
    BY <1>9, TailKeeps, QueueTyped, InTail DEF AddApp
  <2>2. a \in ByHand
    BY <2>1 DEF InstancesInv
  <2> QED
    BY <1>9, <2>2, SinglesAdded DEF AddApp
<1>10. ASSUME NEW c \in Clients, SessionStarting(c) PROVE Singles'
  BY <1>10, SessionStartingObjects, ListedSame, ListedPhase, SinglesKept
<1>11. ASSUME NEW c \in Clients, SessionStopping(c) PROVE Singles'
  <2>1. CASE Altered(Tail(queue))
    BY <2>1, AlteredCalm, SinglesCalm
  <2>2. CASE UNCHANGED << object, applications >>
    BY <2>2, SameCalm, ListedSame, SinglesCalm
  <2> QED
    BY <1>11, <2>1, <2>2, StoppingAlters
<1>12. ASSUME NEW o \in Objects, Deleted(o) PROVE Singles'
  <2>1. /\ object' = [ object EXCEPT ![o] = NoObject ] /\ applications' = applications
        /\ Handle("delete", o)
    BY <1>12 DEF Deleted
  <2>2. << "delete", o >> \in In(queue)
    BY <2>1, TailKeeps, QueueTyped, InTail
  <2>3. object[o].phase = "Gone"
    BY <2>2 DEF ObjectsInv, Deleting
  <2>4. o \notin Listed
    BY <2>3, ListedPhase
  <2>5. \A p \in Listed : object'[p].appId = object[p].appId
    BY <2>1, <2>4, ListedPhase, QueueTyped
  <2> QED
    BY <2>1, <2>5, ListedSame, SinglesKept
<1> QED
  BY <1>1, <1>2, <1>3, <1>4, <1>5, <1>6, <1>7, <1>8, <1>9, <1>10, <1>11, <1>12 DEF Next, Event

-----------------------------------------------------------------------------
(* Types *)

ObjectTypes ==
  /\ object' \in [ Objects -> ObjectRecord ]
  /\ applications' \in Seq(Objects)
  /\ queue' \in Seq(Events)
OutsideTypes ==
  /\ job' \in [ AppIds -> Clients \cup { NoClient } ]
  /\ client' \in [ Clients -> ClientRecord ]
  /\ reports' \in [ AppIds -> Seq(Reports) ]

LEMMA SameTypes ==
  ASSUME TypeOK, UNCHANGED << object, applications >>, queue' \in Seq(Events) PROVE ObjectTypes
BY QueueTyped DEF ObjectTypes

LEMMA AddTypes ==
  ASSUME TypeOK, NEW a \in AppIds, NEW s \in ProcessStates, Add(a, s), queue' \in Seq(Events)
  PROVE  ObjectTypes
<1>1. object' \in [ Objects -> ObjectRecord ]
  BY AddTyped
<1>2. applications' \in Seq(Objects)
  BY AddCalm
<1> QED
  BY <1>1, <1>2 DEF ObjectTypes

LEMMA AlterTypes ==
  ASSUME TypeOK, ObjectsInv, NEW q \in Seq(Events), Altered(q) PROVE ObjectTypes
BY AlteredTypes DEF ObjectTypes

LEMMA StatesKnown == "Unknown" \in ProcessStates /\ "Running" \in ProcessStates
BY DEF ProcessStates

LEMMA ObjectTypesStep ==
  ASSUME TypeOK, ObjectsInv, ClientsKnown, Next
  PROVE  ObjectTypes
<1>1. ASSUME NEW a \in AppIds, ShellStarts(a) \/ QueuedStart(a) PROVE ObjectTypes
  <2>1. queue' \in Seq(Events) /\ \E Q : StartApplication(a, Q)
    BY <1>1, TailKeeps, QueueTyped DEF ShellStarts, QueuedStart
  <2>2. CASE Altered(queue')
    BY <2>1, <2>2, AlterTypes
  <2>3. CASE UNCHANGED << object, applications >>
    BY <2>1, <2>3, SameTypes
  <2>4. CASE Add(a, "Unknown")
    BY <2>1, <2>4, AddTypes, StatesKnown
  <2> QED
    BY <2>1, <2>2, <2>3, <2>4, StartAlters
<1>2. ASSUME NEW a \in AppIds, StopApplication(a) PROVE ObjectTypes
  BY <1>2, StopAlters, AlterTypes, QueueTyped
<1>3. ASSUME NEW a \in AppIds, StartedElsewhere(a) \/ QueuedLaunch(a) PROVE ObjectTypes
  <2>1. queue' \in Seq(Events)
    BY <1>3, TailKeeps, QueueTyped DEF StartedElsewhere, QueuedLaunch
  <2> QED
    BY <1>3, <2>1, SameTypes DEF StartedElsewhere, QueuedLaunch, lists
<1>4. ASSUME NEW a \in AppIds, Report(a) PROVE ObjectTypes
  <2>1. CASE Altered(queue)
    BY <2>1, AlterTypes, QueueTyped
  <2>2. CASE Add(a, "Running") /\ queue' = queue
    BY <2>2, AddTypes, StatesKnown, QueueTyped
  <2>3. CASE UNCHANGED << object, applications, queue >>
    BY <2>3, SameTypes, QueueTyped
  <2> QED
    BY <1>4, <2>1, <2>2, <2>3, StartingAlters, FailedAlters, StoppedAlters DEF Report
<1>5. ASSUME NEW o \in Objects, Respawn(o) PROVE ObjectTypes
  <2>1. Append(queue, << "launch", object[o].appId >>) \in Seq(Events)
    BY <1>5, RespawnPosts
  <2> QED
    BY <1>5, <2>1, RespawnAlters, AlterTypes
<1>6. ASSUME NEW o \in Objects, Ready(o) PROVE ObjectTypes
  BY <1>6, ReadyAlters, AlterTypes, QueueTyped
<1>7. ASSUME NEW o \in Objects, LastSurfaceCloses(o) PROVE ObjectTypes
  <2>1. applications' = Without(o) /\ queue' = queue
    BY <1>7 DEF LastSurfaceCloses
  <2>2. applications' \in Seq(Objects)
    BY <2>1, Removed DEF ObjectsInv, ListedOnce
  <2> QED
    BY <1>7, <2>1, <2>2, ClosesCalm, QueueTyped DEF ObjectTypes
<1>8. ASSUME NEW o \in Objects, StopTimeout(o) PROVE ObjectTypes
  BY <1>8, SameTypes, QueueTyped DEF StopTimeout, lists
<1>9. ASSUME NEW c \in Clients, AuthorizeInstance(c) \/ \E a \in AppIds : StartedByHand(c, a)
      PROVE  ObjectTypes
  BY <1>9, SameTypes, QueueTyped DEF AuthorizeInstance, StartedByHand, lists
<1>10. ASSUME NEW c \in Clients, AuthorizeByHint(c) \/ SessionAdded(c) \/ Ends(c)
       PROVE  ObjectTypes
  <2>1. UNCHANGED << object, applications >>
    BY <1>10 DEF AuthorizeByHint, SessionAdded, Ends, lists
  <2>2. queue' \in Seq(Events)
    BY <1>10, MirPosts, PostsKeep DEF ClientsKnown
  <2> QED
    BY <2>1, <2>2, SameTypes
<1>11. ASSUME NEW a \in AppIds, AddApp(a) PROVE ObjectTypes
  BY <1>11, TailKeeps, AddTypes, StatesKnown DEF AddApp
<1>12. ASSUME NEW c \in Clients, SessionStarting(c) PROVE ObjectTypes
  BY <1>12, TailKeeps, SessionStartingObjects, QueueTyped DEF SessionStarting, ObjectTypes
<1>13. ASSUME NEW c \in Clients, SessionStopping(c) PROVE ObjectTypes
  <2>1. Tail(queue) \in Seq(Events)
    BY <1>13, TailKeeps DEF SessionStopping
  <2> QED
    BY <1>13, <2>1, StoppingAlters, AlterTypes, SameTypes
<1>14. ASSUME NEW o \in Objects, Deleted(o) PROVE ObjectTypes
  <2>1. Handle("delete", o) /\ applications' = applications
        /\ object' = [ object EXCEPT ![o] = NoObject ]
        /\ \/ queue' = Tail(queue)
           \/ queue' = Append(Tail(queue), << "start", object[o].appId >>)
    BY <1>14 DEF Deleted
  <2>2. Tail(queue) \in Seq(Events)
    BY <2>1, TailKeeps
  <2>3. object[o].appId \in AppIds
    <3>1. << "delete", o >> \in In(queue)
      BY <2>1, TailKeeps, QueueTyped, InTail
    <3> QED
      BY <3>1 DEF ObjectsInv, Deleting, Existing
  <2>4. PICK e \in Events : e = << "start", object[o].appId >>
    BY <2>3, EventTyped
  <2>5. Append(Tail(queue), e) \in Seq(Events)
    BY <2>2, Ahead
  <2>6. NoObject \in ObjectRecord
    BY DEF NoObject, ObjectRecord, Phases, ProcessStates
  <2>7. object' \in [ Objects -> ObjectRecord ]
    BY <2>1, <2>6, QueueTyped
  <2> QED
    BY <2>1, <2>2, <2>4, <2>5, <2>7, QueueTyped DEF ObjectTypes
<1> QED
  BY <1>1, <1>2, <1>3, <1>4, <1>5, <1>6, <1>7, <1>8, <1>9, <1>10, <1>11, <1>12, <1>13, <1>14
  DEF Next, Event

LEMMA ReportTyped ==
  ASSUME TypeOK
  PROVE  /\ reports \in [ AppIds -> Seq(Reports) ]
         /\ << "starting", FALSE >> \in Reports /\ << "failed", FALSE >> \in Reports
         /\ \A b \in BOOLEAN : << "stopped", b >> \in Reports
BY DEF TypeOK, Reports

LEMMA BornTypes ==
  ASSUME TypeOK, NEW c \in Clients, NEW a \in AppIds, Born(c, a),
         job' = [ job EXCEPT ![a] = c ],
         reports' = [ reports EXCEPT ![a] = Append(@, << "starting", FALSE >>) ]
  PROVE  OutsideTypes
<1>1. client' \in [ Clients -> ClientRecord ]
  BY BornState
<1>2. job' \in [ AppIds -> Clients \cup { NoClient } ]
  BY ClientTyped
<1>3. PICK e \in Reports : e = << "starting", FALSE >>
  BY ReportTyped
<1>4. Append(reports[a], e) \in Seq(Reports)
  BY ReportTyped, Ahead
<1>5. reports' \in [ AppIds -> Seq(Reports) ]
  BY <1>3, <1>4, ReportTyped
<1> QED
  BY <1>1, <1>2, <1>5 DEF OutsideTypes

LEMMA OutsideSame ==
  ASSUME TypeOK, UNCHANGED << job, client, reports >> PROVE OutsideTypes
BY DEF TypeOK, OutsideTypes

LEMMA OutsideClient ==
  ASSUME TypeOK, UNCHANGED << job, reports >>, client' \in [ Clients -> ClientRecord ]
  PROVE  OutsideTypes
BY DEF TypeOK, OutsideTypes

LEMMA ReportHandled ==
  ASSUME TypeOK, NEW a \in AppIds, NEW what, Reported(what, a), UNCHANGED << job, client >>
  PROVE  OutsideTypes
<1>1. reports[a] # << >> /\ reports' = [ reports EXCEPT ![a] = Tail(@) ]
  BY DEF Reported
<1>2. Tail(reports[a]) \in Seq(Reports)
  BY <1>1, ReportTyped, Behind
<1>3. reports' \in [ AppIds -> Seq(Reports) ]
  BY <1>1, <1>2, ReportTyped
<1> QED
  BY <1>3, ClientTyped DEF OutsideTypes

LEMMA EndsTypes ==
  ASSUME TypeOK, NEW c \in Clients, Ends(c) PROVE OutsideTypes
<1>1. job' \in [ AppIds -> Clients \cup { NoClient } ]
  BY ClientTyped DEF Ends
<1>2. client' \in [ Clients -> ClientRecord ]
  <2>1. client[c] \in ClientRecord
    BY ClientTyped
  <2>2. [ client[c] EXCEPT !.state = "dead" ] \in ClientRecord /\ NoProcess \in ClientRecord
    BY <2>1 DEF ClientRecord, NoProcess
  <2>3. \/ client' = [ client EXCEPT ![c] = [ client[c] EXCEPT !.state = "dead" ] ]
        \/ client' = [ client EXCEPT ![c] = NoProcess ]
    BY DEF Ends
  <2> QED
    BY <2>2, <2>3, ClientTyped
<1>3. reports' \in [ AppIds -> Seq(Reports) ]
  <2>1. PICK b \in BOOLEAN : b = client[c].asked
    BY ClientTyped DEF ClientRecord
  <2>2. PICK last \in { << << "stopped", b >> >>, << << "failed", FALSE >>, << "stopped", b >> >> } :
          reports' = [ a \in AppIds |-> IF job[a] = c THEN reports[a] \o last ELSE reports[a] ]
    BY <2>1 DEF Ends
  <2>3. PICK x \in Reports, y \in Reports : x = << "failed", FALSE >> /\ y = << "stopped", b >>
    BY ReportTyped
  <2>4. << y >> \in Seq(Reports) /\ << x, y >> \in Seq(Reports)
    OBVIOUS
  <2>5. last \in Seq(Reports)
    BY <2>2, <2>3, <2>4
  <2>6. \A a \in AppIds : reports[a] \o last \in Seq(Reports) /\ reports[a] \in Seq(Reports)
    BY <2>5, ReportTyped, ConcatProperties
  <2> QED
    BY <2>2, <2>6
<1> QED
  BY <1>1, <1>2, <1>3 DEF OutsideTypes

LEMMA OutsideTypesStep ==
  ASSUME TypeOK, ObjectsInv, ClientsInv, Next
  PROVE  OutsideTypes
<1>1. ASSUME NEW a \in AppIds, ShellStarts(a) \/ QueuedStart(a) PROVE OutsideTypes
  <2>1. \E Q : StartApplication(a, Q)
    BY <1>1 DEF ShellStarts, QueuedStart
  <2> QED
    BY <2>1, StartBears, BornTypes, OutsideSame
<1>2. ASSUME NEW a \in AppIds, StopApplication(a) PROVE OutsideTypes
  BY <1>2, StopAsks, OutsideClient DEF StopApplication
<1>3. ASSUME NEW a \in AppIds, StartedElsewhere(a) \/ QueuedLaunch(a) PROVE OutsideTypes
  BY <1>3, LaunchBears, BornTypes, OutsideSame DEF StartedElsewhere, QueuedLaunch, outside
<1>4. ASSUME NEW a \in AppIds, Report(a) PROVE OutsideTypes
  BY <1>4, ReportHandled DEF Report, ProcessStarting, ProcessFailed, ProcessStopped
<1>5. ASSUME NEW o \in Objects, Respawn(o) \/ Ready(o) \/ LastSurfaceCloses(o) PROVE OutsideTypes
  BY <1>5, OutsideSame DEF Respawn, Ready, LastSurfaceCloses, outside
<1>6. ASSUME NEW o \in Objects, StopTimeout(o) PROVE OutsideTypes
  BY <1>6, AskedOnly, OutsideClient DEF StopTimeout
<1>7. ASSUME NEW c \in Clients, AuthorizeInstance(c) PROVE OutsideTypes
  <2>1. /\ client' = [ client EXCEPT ![c].state = "authorized" ] /\ client[c].state = "launched"
        /\ UNCHANGED << job, reports >>
    BY <1>7 DEF AuthorizeInstance, Accept
  <2> QED
    BY <2>1, AcceptedState, OutsideClient
<1>8. ASSUME NEW c \in Clients, AuthorizeByHint(c) PROVE OutsideTypes
  <2>1. /\ client' = [ client EXCEPT ![c].state = "authorized" ] /\ client[c].state = "launched"
        /\ UNCHANGED << job, reports >>
    BY <1>8 DEF AuthorizeByHint, Accept
  <2> QED
    BY <2>1, AcceptedState, OutsideClient
<1>9. ASSUME NEW c \in Clients, SessionAdded(c) PROVE OutsideTypes
  <2>1. /\ client' = [ client EXCEPT ![c].state = "connected" ] /\ client[c].state = "authorized"
        /\ UNCHANGED << job, reports >>
    BY <1>9 DEF SessionAdded
  <2> QED
    BY <2>1, AcceptedState, OutsideClient
<1>10. ASSUME NEW c \in Clients, Ends(c) PROVE OutsideTypes
  BY <1>10, EndsTypes
<1>11. ASSUME NEW c \in Clients, NEW a \in AppIds, StartedByHand(c, a) PROVE OutsideTypes
  <2>1. UNCHANGED << job, reports >> /\ Born(c, a)
    BY <1>11 DEF StartedByHand, Born
  <2> QED
    BY <2>1, BornState, OutsideClient
<1>12. ASSUME NEW a \in AppIds, AddApp(a) PROVE OutsideTypes
  BY <1>12, OutsideSame DEF AddApp, outside
<1>13. ASSUME NEW c \in Clients, SessionStarting(c) PROVE OutsideTypes
  BY <1>13, OutsideSame DEF SessionStarting, outside
<1>14. ASSUME NEW c \in Clients, SessionStopping(c) PROVE OutsideTypes
  <2>1. client' = [ client EXCEPT ![c] = NoProcess ] /\ UNCHANGED << job, reports >>
    BY <1>14, SessionStoppingClients DEF SessionStopping
  <2>2. NoProcess \in ClientRecord
    BY DEF NoProcess, ClientRecord
  <2> QED
    BY <2>1, <2>2, ClientTyped, OutsideClient
<1>15. ASSUME NEW o \in Objects, Deleted(o) PROVE OutsideTypes
  BY <1>15, OutsideSame DEF Deleted, outside
<1> QED
  BY <1>1, <1>2, <1>3, <1>4, <1>5, <1>6, <1>7, <1>8, <1>9, <1>10, <1>11, <1>12, <1>13, <1>14, <1>15
  DEF Next, Event

(* The variables that only a few handlers write. *)
LEMMA ListTypesStep ==
  ASSUME TypeOK, ObjectsInv, ClientsInv, Next
  PROVE  /\ closing' \subseteq Objects /\ queuedStarts' \subseteq AppIds
         /\ authorizedPids' \in [ Clients -> AppIds \cup { NoApp } ]
<1>0. /\ closing \subseteq Objects /\ queuedStarts \subseteq AppIds
      /\ authorizedPids \in [ Clients -> AppIds \cup { NoApp } ]
  BY DEF TypeOK
<1>1. closing' \subseteq Objects
  BY <1>0 DEF Next, Event, ShellStarts, StopApplication, StartedElsewhere, Report, ProcessStarting,
    ProcessFailed, ProcessStopped, Respawn, Ready, LastSurfaceCloses, StopTimeout, AuthorizeInstance,
    AuthorizeByHint, SessionAdded, Ends, StartedByHand, AddApp, QueuedStart, QueuedLaunch,
    SessionStarting, SessionStopping, Deleted, lists
<1>2. queuedStarts' \subseteq AppIds
  <2>1. ASSUME NEW a \in AppIds, NEW Q \in SUBSET AppIds, StartApplication(a, Q)
        PROVE  queuedStarts' \subseteq AppIds
    BY <2>1 DEF StartApplication, QueueStart
  <2>2. ASSUME NEW a \in AppIds, ShellStarts(a) PROVE queuedStarts' \subseteq AppIds
    BY <1>0, <2>1, <2>2 DEF ShellStarts
  <2>3. ASSUME NEW a \in AppIds, QueuedStart(a) PROVE queuedStarts' \subseteq AppIds
    BY <1>0, <2>1, <2>3 DEF QueuedStart
  <2>4. (\E a \in AppIds : ShellStarts(a) \/ QueuedStart(a)) \/ queuedStarts' = queuedStarts
    BY DEF Next, Event, StopApplication, StartedElsewhere, Report, ProcessStarting,
      ProcessFailed, ProcessStopped, Respawn, Ready, LastSurfaceCloses, StopTimeout, AuthorizeInstance,
      AuthorizeByHint, SessionAdded, Ends, StartedByHand, AddApp, QueuedLaunch,
      SessionStarting, SessionStopping, Deleted, lists
  <2> QED
    BY <1>0, <2>2, <2>3, <2>4
<1>3. authorizedPids' \in [ Clients -> AppIds \cup { NoApp } ]
  <2>1. ASSUME NEW c \in Clients, AuthorizeInstance(c) PROVE authorizedPids' \in [ Clients -> AppIds \cup { NoApp } ]
    <3>1. PICK o \in Listed : authorizedPids' = [ authorizedPids EXCEPT ![c] = object[o].appId ]
      BY <2>1 DEF AuthorizeInstance, StartingWith, Accept
    <3>2. object[o].appId \in AppIds \cup { NoApp }
      BY ListedPhase DEF ObjectRecord
    <3> QED
      BY <1>0, <3>1, <3>2
  <2>2. ASSUME NEW c \in Clients, AuthorizeByHint(c) PROVE authorizedPids' \in [ Clients -> AppIds \cup { NoApp } ]
    <3>1. authorizedPids' = [ authorizedPids EXCEPT ![c] = client[c].appId ]
      BY <2>2 DEF AuthorizeByHint, Accept
    <3>2. client[c].appId \in AppIds \cup { NoApp }
      BY ClientTyped DEF ClientRecord
    <3> QED
      BY <1>0, <3>1, <3>2
  <2>3. ASSUME NEW c \in Clients, Ends(c) \/ SessionStarting(c) PROVE authorizedPids' \in [ Clients -> AppIds \cup { NoApp } ]
    BY <1>0, <2>3 DEF Ends, SessionStarting
  <2>4. \/ \E c \in Clients : \/ AuthorizeInstance(c) \/ AuthorizeByHint(c)
                              \/ Ends(c) \/ SessionStarting(c)
        \/ authorizedPids' = authorizedPids
    BY DEF Next, Event, ShellStarts, StopApplication, StartedElsewhere, Report, ProcessStarting,
      ProcessFailed, ProcessStopped, Respawn, Ready, LastSurfaceCloses, StopTimeout, 
      SessionAdded, StartedByHand, AddApp, QueuedStart, QueuedLaunch, SessionStopping, Deleted
  <2> QED
    BY <1>0, <2>1, <2>2, <2>3, <2>4
<1> QED
  BY <1>1, <1>2, <1>3

-----------------------------------------------------------------------------
(* The invariant and the theorems *)

IInv == TypeOK /\ ObjectsInv /\ QueuedHasTrigger /\ ClientsInv /\ InstancesInv /\ Singles

LEMMA InvariantInit == Init => IInv
<1> SUFFICES ASSUME Init PROVE IInv
  OBVIOUS
<1>1. /\ object = [ o \in Objects |-> NoObject ] /\ applications = << >> /\ closing = {}
      /\ queuedStarts = {} /\ authorizedPids = [ c \in Clients |-> NoApp ] /\ queue = << >>
      /\ job = [ a \in AppIds |-> NoClient ] /\ client = [ c \in Clients |-> NoProcess ]
      /\ reports = [ a \in AppIds |-> << >> ]
  BY DEF Init
<1>2. NoObject \in ObjectRecord /\ NoObject.phase = "none" /\ NoObject.sessions = {}
      /\ NoProcess \in ClientRecord /\ NoProcess.state = "dead"
  BY DEF NoObject, ObjectRecord, Phases, ProcessStates, NoProcess, ClientRecord
<1>3. DOMAIN applications = {} /\ DOMAIN queue = {} /\ applications \in Seq(Objects) /\ queue \in Seq(Events)
  BY <1>1
<1>4. Listed = {} /\ In(queue) = {}
  BY <1>3 DEF Listed, In
<1>5. TypeOK
  BY <1>1, <1>2, <1>3 DEF TypeOK
<1>6. ObjectsInv
  BY <1>1, <1>2, <1>3, <1>4 DEF ObjectsInv, ListedOnce, Once, InLists, InModel, Existing, Deleting
<1>7. QueuedHasTrigger
  BY <1>1 DEF QueuedHasTrigger
<1>8. ClientsInv
  BY <1>1, <1>2, <1>3, <1>4 DEF ClientsInv, ClientInv, Heard, Once, Attached, Authorized, Known
<1>9. InstancesInv
  BY <1>1, <1>2, <1>4 DEF InstancesInv, Running, Instance
<1>10. Singles
  BY <1>4 DEF Singles
<1> QED
  BY <1>5, <1>6, <1>7, <1>8, <1>9, <1>10 DEF IInv

LEMMA InvariantKept == IInv /\ [Next]_vars => IInv'
<1> SUFFICES ASSUME IInv, [Next]_vars PROVE IInv'
  OBVIOUS
<1>0. TypeOK /\ ObjectsInv /\ QueuedHasTrigger /\ ClientsInv /\ InstancesInv /\ Singles /\ ClientsKnown
  BY ClientsAreKnown DEF IInv
<1>1. CASE Next
  <2>1. \A a \in AppIds : job[a] # NoClient => client[job[a]].appId = a
    BY <1>0 DEF InstancesInv, Instance
  <2>2. TypeOK'
    BY <1>0, <1>1, ObjectTypesStep, OutsideTypesStep, ListTypesStep DEF TypeOK, ObjectTypes, OutsideTypes
  <2>3. ObjectsInv'
    BY <1>0, <1>1, ObjectsStep
  <2>4. QueuedHasTrigger'
    BY <1>0, <1>1, TriggersStep
  <2>5. ClientsInv'
    BY <1>0, <1>1, <2>1, ClientsStep
  <2>6. InstancesInv'
    BY <1>0, <1>1, InstancesStep
  <2>7. Singles'
    BY <1>0, <1>1, SinglesStep
  <2> QED
    BY <2>2, <2>3, <2>4, <2>5, <2>6, <2>7 DEF IInv
<1>2. CASE UNCHANGED vars
  BY <1>0, <1>2 DEF vars, IInv, TypeOK, ObjectsInv, ListedOnce, InLists, Existing, Deleting, Listed,
     QueuedHasTrigger, Posted, ClientsInv, ClientInv, Heard, Attached, AtHome, Authorized, Known,
     InstancesInv, Running, Instance, Singles
<1> QED
  BY <1>1, <1>2

LEMMA Invariance == Spec => []IInv
BY InvariantInit, InvariantKept, PTL DEF Spec

(* The state of the lists, entries, sessions and reports is well typed,     *)
(* whichever handlers of application_manager.cpp run in whatever order.     *)
THEOREM TypeCorrect == Spec => []TypeOK
<1>1. IInv => TypeOK
  BY DEF IInv
<1> QED
  BY <1>1, Invariance, PTL

(* An application that is only started by ubuntu-app-launch has one entry   *)
(* in the model: startApplication() and onProcessStarting() look for it     *)
(* before they add one, and addApp() is only posted for others.             *)
THEOREM OneEntryEach == Spec => []OnePerLaunched
<1>1. IInv => OnePerLaunched
  BY SinglesAreOne DEF IInv
<1> QED
  BY <1>1, Invariance, PTL

(* A start that startApplication() queued behind a closing application will *)
(* be triggered by the destruction of what closes, or is posted.            *)
THEOREM StartsTriggered == Spec => []QueuedHasTrigger
<1>1. IInv => QueuedHasTrigger
  BY DEF IInv
<1> QED
  BY <1>1, Invariance, PTL

(* A session is only given to an application its process is an instance of, *)
(* however many applications start or end between authorizeSession() and    *)
(* onSessionStarting().                                                     *)
THEOREM SessionsAreAtHome == Spec => []SessionsAtHome
<1>1. IInv => SessionsAtHome
  <2> SUFFICES ASSUME IInv, NEW o \in Objects, NEW c \in object[o].sessions
               PROVE  client[c].appId = object[o].appId
    BY DEF SessionsAtHome
  <2>1. c \in Clients
    BY QueueTyped DEF IInv, ObjectRecord
  <2> QED
    BY <2>1 DEF IInv, ClientsInv, ClientInv, Attached, AtHome
<1> QED
  BY <1>1, Invariance, PTL

(* Every Application object is in the model, or closing, or its deletion is *)
(* posted, exactly once, when it stopped.                                   *)
THEOREM ObjectsAreKept == Spec => []EveryObjectKept
<1>1. IInv => EveryObjectKept
  <2> SUFFICES ASSUME IInv, NEW o \in Objects
      PROVE /\ object[o] # NoObject => o \in Listed \cup closing \/ Posted(<< "delete", o >>)
            /\ o \in Listed => object[o].phase \in { "Starting", "Working", "Resumable" }
            /\ o \in closing => object[o].phase \in { "Closing", "Gone" }
            /\ Cardinality({ i \in DOMAIN queue : queue[i] = << "delete", o >> })
                 = IF object[o].phase = "Gone" THEN 1 ELSE 0
    BY DEF EveryObjectKept
  <2>1. InLists(o) /\ Existing(o) /\ Deleting(o) /\ object[o].phase \in Phases
    BY QueueTyped DEF IInv, ObjectsInv
  <2>2. object[o] # NoObject => o \in Listed \cup closing \/ Posted(<< "delete", o >>)
    BY <2>1, PostedIn DEF InLists, Existing, Deleting, Phases, InModel
  <2>3. /\ o \in Listed => object[o].phase \in { "Starting", "Working", "Resumable" }
        /\ o \in closing => object[o].phase \in { "Closing", "Gone" }
    BY <2>1 DEF InLists, InModel
  <2> DEFINE W == { i \in DOMAIN queue : queue[i] = << "delete", o >> }
  <2>4. CASE object[o].phase = "Gone"
    <3>1. PICK i \in DOMAIN queue : queue[i] = << "delete", o >>
      BY <2>1, <2>4 DEF Deleting, In
    <3>2. W = { i }
      BY <2>1, <3>1 DEF Deleting, Once
    <3>3. Cardinality({ i }) = 1
      BY FS_Singleton
    <3> QED
      BY <2>2, <2>3, <2>4, <3>2, <3>3
  <2>5. CASE object[o].phase # "Gone"
    <3>1. W = {}
      BY <2>1, <2>5 DEF Deleting, In
    <3>2. Cardinality({}) = 0
      BY FS_EmptySet
    <3> QED
      BY <2>2, <2>3, <2>5, <3>1, <3>2
  <2> QED
    BY <2>4, <2>5
<1> QED
  BY <1>1, Invariance, PTL

===============================================================================
