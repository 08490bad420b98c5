----------------------- MODULE SurfaceManagerProofs -------------------------
(* Of the surfaces of clients and the lists of them: nothing dangles, the   *)
(* lists agree and nothing leaks, whatever the windows, sessions, roles and *)
(* items are.                                                               *)
EXTENDS SurfaceManager, RowsProofs

------------------------------------------------------------------------------
(* The invariant, by its parts: of the sessions and their lists m, of the   *)
(* surfaces f, of the views, and of the notices on their way.               *)

(* A list that combines the lists R of T, each in its order.                *)
Comb(l, R, T) ==
  /\ l \in Seq(Windows) /\ IsInjective(l)
  /\ ToSet(l) = UNION { ToSet(R[s]) : s \in T }
  /\ \A s \in T : \A x, y \in Windows : Before(R[s], x, y) => Before(l, x, y)

(* A session that is gone, or never was, has left no trace.                 *)
NoTrace(m, s) ==
  /\ m.rows[s] = << >> /\ m.closing[s] = {} /\ m.prompts[s] = << >> /\ m.parent[s] = None
  /\ s \notin m.known \cup m.attached \cup m.asking

SessionRight(m, f, s) ==
  /\ ~ Exists(m, s) => NoTrace(m, s)
  /\ m.parent[s] # None => Exists(m, m.parent[s])
  /\ s \notin Above(m, s)
  /\ \A w \in ToSet(m.rows[s]) \cup m.closing[s] : f[w].session = s /\ f[w].ready
  /\ Comb(m.prompts[s], m.rows, Below(m, s))

ModelRight(m, f) ==
  /\ m \in Model
  /\ \A s \in Sessions : SessionRight(m, f, s)
  /\ Comb(m.appRows, m.rows, m.attached)
  /\ m.proxied # None => m.proxied \in m.attached
  /\ m.prompted \subseteq m.asking

(* A session that has died is kept by a surface or a child.                 *)
Kept_(m, s) == m.object[s] = "zombie" => m.rows[s] # << >> \/ ChildrenOf(m, s) # {}

IsThere(f, w) == f[w].object \in { "alive", "doomed" }

SurfaceRight(m, f, w) ==
  /\ ~ IsThere(f, w) => f[w].session = None /\ ~ f[w].ready /\ f[w].children = << >>
  /\ f[w].session # None => Exists(m, f[w].session)
  /\ \A v \in ToSet(f[w].children) : IsThere(f, v)

SurfacesRight(m, f) == f \in [ Windows -> Surface ] /\ \A w \in Windows : SurfaceRight(m, f, w)

ViewsRight ==
  /\ known \subseteq Windows /\ taken \subseteq Windows
  /\ \A w \in Windows :
       /\ w \in known => surface[w].object = "alive"
       /\ surface[w].object = "alive" /\ w \notin known => surface[w].views # {} /\ ~ surface[w].live
       /\ surface[w].object \in { "doomed", "gone" } /\ w \notin taken => surface[w].views = {}
       /\ surface[w].object = "none" => surface[w].views = {}

Notices ==
  [ kind : { "appAdded", "appRemoved", "promptStarting", "promptStopping", "providerRemoved" },
    session : Sessions ]
  \cup [ kind : { "providerAdded" }, session : Sessions, of : Sessions ]
  \cup [ kind : { "windowAdded" }, window : Windows, session : Sessions, parent : Windows \cup { None } ]
  \cup [ kind : { "windowReady", "focus", "windowRemoved" }, window : Windows ]

Pending(k, w) == \E i \in DOMAIN notices : notices[i].kind = k /\ notices[i].window = w
PendingOf(k, s) == \E i \in DOMAIN notices : notices[i].kind = k /\ notices[i].session = s

(* What is announced is announced once, and is not yet there.               *)
Differ(n, o) ==
  n.kind = o.kind =>
    /\ n.kind \in { "appAdded", "providerAdded" } => n.session # o.session
    /\ n.kind \in { "windowAdded", "windowReady" } => n.window # o.window

Fits(n, m, f) ==
  /\ n.kind = "appAdded" => m.object[n.session] = "none"
  /\ n.kind = "windowAdded" => f[n.window].object = "none"
  /\ n.kind = "windowReady" => ~ f[n.window].ready
  /\ n.kind = "providerAdded" => m.parent[n.session] = None

Announced ==
  /\ notices \in Seq(Notices)
  /\ \A i, j \in DOMAIN notices : i # j => Differ(notices[i], notices[j])
  /\ \A i \in DOMAIN notices : Fits(notices[i], model, surface)

(* What Mir has not done, nobody has heard of.                              *)
MirRight ==
  /\ window \in [ Windows -> [ state : { "none", "new", "drawn", "closed" },
                              client : Sessions \cup { None } ] ]
  /\ client \in [ Sessions -> { "none", "running", "ended" } ]
  /\ prompt \in [ Sessions -> { "none", "running", "ended" } ]
  /\ provides \in [ Sessions -> Sessions \cup { None } ]

UnheardSession(s) ==
  /\ client[s] = "none" => model.object[s] = "none" /\ ~ PendingOf("appAdded", s)
  /\ provides[s] = None => model.parent[s] = None /\ ~ PendingOf("providerAdded", s)

UnheardWindow(w) ==
  /\ window[w].state = "none" => surface[w].object = "none" /\ ~ Pending("windowAdded", w)
  /\ window[w].state \in { "none", "new" } => ~ surface[w].ready /\ ~ Pending("windowReady", w)

Unheard ==
  MirRight /\ (\A s \in Sessions : UnheardSession(s)) /\ (\A w \in Windows : UnheardWindow(w))

KeptAll(m) == \A s \in Sessions : Kept_(m, s)

(* Nobody provides for itself, and what is or will be the parent of a       *)
(* provider is the session it provides for.                                 *)
NoticeOf(n) == n.kind = "providerAdded" => n.of = provides[n.session]
Provided ==
  /\ \A s \in Sessions : s \notin AboveIn(provides, s)
  /\ \A s \in Sessions : model.parent[s] \in { None, provides[s] }
  /\ \A i \in DOMAIN notices : NoticeOf(notices[i])

Whole ==
  /\ ModelRight(model, surface) /\ SurfacesRight(model, surface)
  /\ KeptAll(model) /\ ViewsRight /\ Announced /\ Unheard /\ Provided
------------------------------------------------------------------------------
(* The parent of a session, its parent and so on.                           *)

Parents == [ Sessions -> Sessions \cup { None } ]
UnderIn(P, s) == { d \in Sessions : s \in AboveIn(P, d) }

LEMMA AboveSome ==
  ASSUME NEW P, NEW s \in Sessions
  PROVE  AboveIn(P, s) \subseteq Sessions /\ (P[s] = None => AboveIn(P, s) = {})
BY DEF AboveIn

LEMMA AboveIs ==
  ASSUME NEW P \in Parents, NEW s \in Sessions, P[s] # None
  PROVE  P[s] \in AboveIn(P, s) /\ Upward(P, AboveIn(P, s))
<1>1. \A a : a \in AboveIn(P, s) <=>
        a \in Sessions /\ \A F \in SUBSET Sessions : P[s] \in F /\ Upward(P, F) => a \in F
  BY DEF AboveIn
<1>2. P[s] \in Sessions
  BY DEF Parents
<1>3. ASSUME NEW a \in AboveIn(P, s), P[a] # None PROVE P[a] \in AboveIn(P, s)
  <2>1. a \in Sessions
    BY <1>1
  <2>2. P[a] \in Sessions
    BY <1>3, <2>1 DEF Parents
  <2>3. ASSUME NEW F \in SUBSET Sessions, P[s] \in F, Upward(P, F) PROVE P[a] \in F
    BY <1>1, <1>3, <2>3 DEF Upward
  <2> QED
    BY <1>1, <2>2, <2>3
<1> QED
  BY <1>1, <1>2, <1>3 DEF Upward

LEMMA AboveLeast ==
  ASSUME NEW P, NEW s \in Sessions, NEW F \in SUBSET Sessions,
         P[s] # None => P[s] \in F, Upward(P, F)
  PROVE  AboveIn(P, s) \subseteq F
BY DEF AboveIn

LEMMA AboveUpward ==
  ASSUME NEW P \in Parents, NEW s \in Sessions
  PROVE  Upward(P, AboveIn(P, s))
<1>1. CASE P[s] = None
  BY <1>1, AboveSome DEF Upward
<1>2. CASE P[s] # None
  BY <1>2, AboveIs
<1> QED
  BY <1>1, <1>2

LEMMA AboveTrans ==
  ASSUME NEW P \in Parents, NEW s \in Sessions, NEW a \in AboveIn(P, s)
  PROVE  AboveIn(P, a) \subseteq AboveIn(P, s)
<1>1. Upward(P, AboveIn(P, s)) /\ AboveIn(P, s) \in SUBSET Sessions
  BY AboveUpward, AboveSome
<1>2. P[a] # None => P[a] \in AboveIn(P, s)
  BY <1>1 DEF Upward
<1> QED
  BY <1>1, <1>2, AboveLeast

LEMMA AboveStep ==
  ASSUME NEW P \in Parents, NEW s \in Sessions, P[s] # None
  PROVE  AboveIn(P, s) = { P[s] } \cup AboveIn(P, P[s])
<1>0. P[s] \in Sessions
  BY DEF Parents
<1>1. P[s] \in AboveIn(P, s) /\ AboveIn(P, P[s]) \subseteq AboveIn(P, s)
  BY AboveIs, AboveTrans
<1>2. Upward(P, AboveIn(P, P[s])) /\ AboveIn(P, P[s]) \subseteq Sessions
  BY <1>0, AboveUpward, AboveSome
<1>3. P[P[s]] # None => P[P[s]] \in AboveIn(P, P[s])
  BY <1>0, AboveIs
<1>4. PICK F \in SUBSET Sessions : F = { P[s] } \cup AboveIn(P, P[s])
  BY <1>0, <1>2
<1>5. Upward(P, F)
  BY <1>2, <1>3, <1>4 DEF Upward
<1>6. AboveIn(P, s) \subseteq F
  BY <1>4, <1>5, AboveLeast
<1> QED
  BY <1>1, <1>4, <1>6

(* Of two above the same one is above the other.                            *)
LEMMA AboveLinear ==
  ASSUME NEW P \in Parents, NEW s \in Sessions, NEW a \in AboveIn(P, s), NEW b \in AboveIn(P, s)
  PROVE  a = b \/ a \in AboveIn(P, b) \/ b \in AboveIn(P, a)
<1>0. a \in Sessions /\ b \in Sessions /\ P[s] # None
  BY AboveSome
<1>1. PICK F \in SUBSET Sessions :
        F = { x \in Sessions : x = b \/ x \in AboveIn(P, b) \/ b \in AboveIn(P, x) }
  OBVIOUS
<1>2. ASSUME NEW x \in F, P[x] # None PROVE P[x] \in F
  <2>0. P[x] \in Sessions /\ x \in Sessions
    BY <1>2 DEF Parents
  <2>1. CASE x = b
    BY <1>1, <1>2, <2>0, <2>1, AboveIs
  <2>2. CASE x \in AboveIn(P, b)
    <3>1. P[x] \in AboveIn(P, b)
      BY <1>0, <1>2, <2>2, AboveUpward DEF Upward
    <3> QED
      BY <1>1, <2>0, <3>1
  <2>3. CASE b \in AboveIn(P, x)
    <3>1. AboveIn(P, x) = { P[x] } \cup AboveIn(P, P[x])
      BY <1>2, <2>0, AboveStep
    <3> QED
      BY <1>1, <2>0, <2>3, <3>1
  <2> QED
    BY <1>1, <2>1, <2>2, <2>3
<1>3. P[s] \in F
  <2>0. P[s] \in Sessions
    BY <1>0 DEF Parents
  <2>1. AboveIn(P, s) = { P[s] } \cup AboveIn(P, P[s])
    BY <1>0, AboveStep
  <2> QED
    BY <1>1, <2>0, <2>1
<1>4. Upward(P, F)
  BY <1>2 DEF Upward
<1>5. AboveIn(P, s) \subseteq F
  BY <1>3, <1>4, AboveLeast
<1> QED
  BY <1>1, <1>5

LEMMA AboveFewer ==
  ASSUME NEW P \in Parents, NEW Q \in Parents, \A t \in Sessions : P[t] \in { None, Q[t] },
         NEW s \in Sessions
  PROVE  AboveIn(P, s) \subseteq AboveIn(Q, s)
<1>1. Upward(Q, AboveIn(Q, s)) /\ AboveIn(Q, s) \in SUBSET Sessions
  BY AboveUpward, AboveSome
<1>2. Upward(P, AboveIn(Q, s))
  BY <1>1 DEF Upward
<1>3. P[s] # None => P[s] \in AboveIn(Q, s)
  BY AboveIs
<1> QED
  BY <1>1, <1>2, <1>3, AboveLeast

(* Nothing changes where no parent does.                                    *)
LEMMA AboveSame ==
  ASSUME NEW P \in Parents, NEW Q \in Parents, NEW s \in Sessions,
         Q[s] = P[s], \A t \in AboveIn(P, s) : Q[t] = P[t]
  PROVE  AboveIn(Q, s) = AboveIn(P, s)
<1>1. Upward(P, AboveIn(P, s)) /\ AboveIn(P, s) \in SUBSET Sessions
  BY AboveUpward, AboveSome
<1>2. Upward(Q, AboveIn(P, s))
  BY <1>1 DEF Upward
<1>3. Q[s] # None => Q[s] \in AboveIn(P, s)
  BY AboveIs
<1>4. AboveIn(Q, s) \subseteq AboveIn(P, s)
  BY <1>1, <1>2, <1>3, AboveLeast
<1>5. Upward(Q, AboveIn(Q, s)) /\ AboveIn(Q, s) \in SUBSET Sessions
  BY AboveUpward, AboveSome
<1>6. Upward(P, AboveIn(Q, s))
  BY <1>4, <1>5 DEF Upward
<1>7. P[s] # None => P[s] \in AboveIn(Q, s)
  BY AboveIs
<1>8. AboveIn(P, s) \subseteq AboveIn(Q, s)
  BY <1>5, <1>6, <1>7, AboveLeast
<1> QED
  BY <1>4, <1>8

(* One that has no parent gets one that is not below it.                    *)
LEMMA AboveGrown ==
  ASSUME NEW P \in Parents, NEW Q \in Parents, NEW c \in Sessions, NEW s \in Sessions,
         P[c] = None, c \notin { s } \cup AboveIn(P, s),
         Q[c] = s, \A d \in Sessions \ { c } : Q[d] = P[d]
  PROVE  /\ \A x \in Sessions : AboveIn(Q, x) =
              IF x = c \/ c \in AboveIn(P, x) THEN AboveIn(P, x) \cup { s } \cup AboveIn(P, s)
              ELSE AboveIn(P, x)
         /\ \A y \in Sessions : UnderIn(Q, y) =
              IF y \in { s } \cup AboveIn(P, s) THEN UnderIn(P, y) \cup { c } \cup UnderIn(P, c)
              ELSE UnderIn(P, y)
<1>0. s # None
  BY NoneAssumption
<1>1. AboveIn(Q, s) = AboveIn(P, s)
  <2>1. \A t \in AboveIn(P, s) : t \in Sessions \ { c }
    BY AboveSome
  <2> QED
    BY <2>1, AboveSame
<1>2. AboveIn(Q, c) = { s } \cup AboveIn(P, s) /\ AboveIn(P, c) = {}
  BY <1>0, <1>1, AboveStep, AboveSome
<1>3. ASSUME NEW x \in Sessions, x # c, c \notin AboveIn(P, x) PROVE AboveIn(Q, x) = AboveIn(P, x)
  <2>1. \A t \in AboveIn(P, x) : t \in Sessions \ { c }
    BY <1>3, AboveSome
  <2> QED
    BY <1>3, <2>1, AboveSame
<1>4. ASSUME NEW x \in Sessions, c \in AboveIn(P, x)
      PROVE  AboveIn(Q, x) = AboveIn(P, x) \cup { s } \cup AboveIn(P, s)
  <2>1. \A t \in Sessions : P[t] \in { None, Q[t] }
    OBVIOUS
  <2>2. AboveIn(P, x) \subseteq AboveIn(Q, x)
    BY <2>1, AboveFewer
  <2>3. AboveIn(Q, c) \subseteq AboveIn(Q, x)
    BY <1>4, <2>2, AboveTrans
  <2>4. PICK F \in SUBSET Sessions : F = AboveIn(P, x) \cup { s } \cup AboveIn(P, s)
    BY AboveSome
  <2>5. Upward(P, AboveIn(P, x)) /\ Upward(P, AboveIn(P, s)) /\ (P[s] # None => P[s] \in AboveIn(P, s))
    BY AboveUpward, AboveIs
  <2>6. Upward(Q, F)
    <3> SUFFICES ASSUME NEW a \in F, Q[a] # None PROVE Q[a] \in F
      BY DEF Upward
    <3>1. CASE a = c
      BY <2>4, <3>1
    <3>2. CASE a # c
      <4>1. Q[a] = P[a]
        BY <3>2
      <4> QED
        BY <2>4, <2>5, <4>1 DEF Upward
    <3> QED
      BY <3>1, <3>2
  <2>7. x # c
    BY <1>2, <1>4
  <2>8. Q[x] = P[x] /\ P[x] # None
    BY <1>4, <2>7, AboveSome
  <2>9. Q[x] \in F
    BY <2>4, <2>8, AboveIs
  <2>10. AboveIn(Q, x) \subseteq F
    BY <2>6, <2>9, AboveLeast
  <2> QED
    BY <1>2, <2>2, <2>3, <2>4, <2>10
<1>5. \A x \in Sessions : AboveIn(Q, x) =
        IF x = c \/ c \in AboveIn(P, x) THEN AboveIn(P, x) \cup { s } \cup AboveIn(P, s)
        ELSE AboveIn(P, x)
  BY <1>2, <1>3, <1>4
<1>6. \A y \in Sessions : UnderIn(Q, y) =
        IF y \in { s } \cup AboveIn(P, s) THEN UnderIn(P, y) \cup { c } \cup UnderIn(P, c)
        ELSE UnderIn(P, y)
  BY <1>5 DEF UnderIn
<1> QED
  BY <1>5, <1>6

(* All below one are parted from their parents.                             *)
Parted(P, Q, D) ==
  /\ \A x \in Sessions : AboveIn(Q, x) = IF x \in D THEN {} ELSE AboveIn(P, x)
  /\ \A x \in Sessions \ D : AboveIn(P, x) \cap D = {}
  /\ \A y \in Sessions : UnderIn(Q, y) = UnderIn(P, y) \ D

LEMMA AboveCut ==
  ASSUME NEW P \in Parents, NEW Q \in Parents, NEW s \in Sessions,
         NEW D, D = { s } \cup UnderIn(P, s),
         \A d \in Sessions : Q[d] = IF d \in D THEN None ELSE P[d]
  PROVE  Parted(P, Q, D)
<1>1. ASSUME NEW x \in Sessions \ D, NEW a \in AboveIn(P, x), a \in D PROVE FALSE
  <2>1. a = s \/ s \in AboveIn(P, a)
    BY <1>1 DEF UnderIn
  <2>2. s \in AboveIn(P, x)
    BY <1>1, <2>1, AboveTrans
  <2> QED
    BY <2>2 DEF UnderIn
<1>2. ASSUME NEW x \in Sessions \ D PROVE AboveIn(Q, x) = AboveIn(P, x)
  <2>1. \A t \in AboveIn(P, x) : t \in Sessions \ D
    BY <1>1, AboveSome
  <2> QED
    BY <2>1, AboveSame
<1>3. \A x \in Sessions \cap D : AboveIn(Q, x) = {}
  BY AboveSome
<1>4. \A x \in Sessions : AboveIn(Q, x) = IF x \in D THEN {} ELSE AboveIn(P, x)
  BY <1>2, <1>3
<1> QED
  BY <1>1, <1>4 DEF UnderIn, Parted

------------------------------------------------------------------------------
(* Lists of surfaces.                                                       *)

LEMMA RaisedIs ==
  ASSUME NEW l \in Rows, NEW w \in Windows
  PROVE  /\ Raised(l, w) \in Rows /\ ToSet(Raised(l, w)) = ToSet(l)
         /\ w \notin ToSet(l) => Raised(l, w) = l
         /\ w \in ToSet(l) => \A x, y : Before(Raised(l, w), x, y) <=>
              ((Before(l, x, y) /\ x # w /\ y # w) \/ (x = w /\ y \in ToSet(l) \ { w }))
<1>0. l \in Seq(Windows) /\ IsInjective(l)
  BY DEF Rows
<1>1. Contains(l, w) <=> w \in ToSet(l)
  BY <1>0 DEF Contains, ToSet
<1>2. CASE w \notin ToSet(l)
  BY <1>1, <1>2 DEF Raised
<1>3. CASE w \in ToSet(l)
  <2>1. PICK K : K = { w }
    OBVIOUS
  <2>2. PICK u : u = Without(l, K)
    OBVIOUS
  <2>3. /\ u \in Seq(Windows)
        /\ ToSet(u) = ToSet(l) \ K
        /\ IsInjective(u)
        /\ \A x, y : Before(u, x, y) <=> (Before(l, x, y) /\ x \notin K /\ y \notin K)
    BY <1>0, <2>2, Without_
  <2>4. << w >> \in Seq(Windows)
    OBVIOUS
  <2>5. PICK e \in Seq(Windows) : e = << w >>
    BY <2>4
  <2>6. ToSet(e) = { w } /\ IsInjective(e) /\ \A x, y : ~ Before(e, x, y)
    <3>1. Len(e) = 1 /\ e[1] = w /\ DOMAIN e = { 1 }
      BY <2>5
    <3> QED
      BY <3>1 DEF ToSet, IsInjective, Before
  <2>7. PICK r : r = e \o u
    OBVIOUS
  <2>8. /\ r \in Seq(Windows)
        /\ ToSet(r) = ToSet(e) \cup ToSet(u)
        /\ IsInjective(e) /\ IsInjective(u) /\ ToSet(e) \cap ToSet(u) = {} => IsInjective(r)
        /\ \A x, y : Before(r, x, y) <=>
             (Before(e, x, y) \/ Before(u, x, y) \/ (x \in ToSet(e) /\ y \in ToSet(u)))
    BY <2>3, <2>7, Joined
  <2>9. Raised(l, w) = r
    BY <1>1, <1>3, <2>1, <2>2, <2>5, <2>7 DEF Raised
  <2>10. r \in Rows /\ ToSet(r) = ToSet(l)
    BY <1>3, <2>1, <2>3, <2>6, <2>8 DEF Rows
  <2>11. \A x, y : Before(r, x, y) <=>
           ((Before(l, x, y) /\ x # w /\ y # w) \/ (x = w /\ y \in ToSet(l) \ { w }))
    BY <2>1, <2>3, <2>6, <2>8
  <2> QED
    BY <1>3, <2>9, <2>10, <2>11
<1> QED
  BY <1>2, <1>3

LEMMA Prepended ==
  ASSUME NEW l \in Rows, NEW w \in Windows, w \notin ToSet(l)
  PROVE  /\ << w >> \o l \in Rows /\ ToSet(<< w >> \o l) = ToSet(l) \cup { w }
         /\ \A x, y : Before(<< w >> \o l, x, y) <=> (Before(l, x, y) \/ (x = w /\ y \in ToSet(l)))
<1>0. l \in Seq(Windows) /\ IsInjective(l)
  BY DEF Rows
<1>4. << w >> \in Seq(Windows)
  OBVIOUS
<1>5. PICK e \in Seq(Windows) : e = << w >>
  BY <1>4
<1>6. ToSet(e) = { w } /\ IsInjective(e) /\ \A x, y : ~ Before(e, x, y)
  <2>1. Len(e) = 1 /\ e[1] = w /\ DOMAIN e = { 1 }
    BY <1>5
  <2> QED
    BY <2>1 DEF ToSet, IsInjective, Before
<1>7. PICK r : r = e \o l
  OBVIOUS
<1>8. /\ r \in Seq(Windows)
      /\ ToSet(r) = ToSet(e) \cup ToSet(l)
      /\ IsInjective(e) /\ IsInjective(l) /\ ToSet(e) \cap ToSet(l) = {} => IsInjective(r)
      /\ \A x, y : Before(r, x, y) <=>
           (Before(e, x, y) \/ Before(l, x, y) \/ (x \in ToSet(e) /\ y \in ToSet(l)))
  BY <1>0, <1>7, Joined
<1>9. r \in Rows /\ ToSet(r) = ToSet(l) \cup { w }
  BY <1>0, <1>6, <1>8 DEF Rows
<1>10. \A x, y : Before(r, x, y) <=> (Before(l, x, y) \/ (x = w /\ y \in ToSet(l)))
  BY <1>6, <1>8
<1>11. r = << w >> \o l
  BY <1>5, <1>7
<1> HIDE <1>7
<1> QED
  BY <1>9, <1>10, <1>11

LEMMA WithoutRow ==
  ASSUME NEW l \in Rows, NEW K
  PROVE  /\ Without(l, K) \in Rows /\ ToSet(Without(l, K)) = ToSet(l) \ K
         /\ \A x, y : Before(Without(l, K), x, y) <=> (Before(l, x, y) /\ x \notin K /\ y \notin K)
<1>0. l \in Seq(Windows) /\ IsInjective(l)
  BY DEF Rows
<1> QED
  BY <1>0, Without_ DEF Rows

LEMMA JoinedRows ==
  ASSUME NEW k \in Rows, NEW l \in Rows, ToSet(k) \cap ToSet(l) = {}
  PROVE  /\ k \o l \in Rows /\ ToSet(k \o l) = ToSet(k) \cup ToSet(l)
         /\ \A x, y : Before(k, x, y) \/ Before(l, x, y) => Before(k \o l, x, y)
<1>0. k \in Seq(Windows) /\ IsInjective(k) /\ l \in Seq(Windows) /\ IsInjective(l)
  BY DEF Rows
<1>1. PICK r : r = k \o l
  OBVIOUS
<1>2. /\ r \in Seq(Windows)
      /\ ToSet(r) = ToSet(k) \cup ToSet(l)
      /\ IsInjective(k) /\ IsInjective(l) /\ ToSet(k) \cap ToSet(l) = {} => IsInjective(r)
      /\ \A x, y : Before(r, x, y) <=>
           (Before(k, x, y) \/ Before(l, x, y) \/ (x \in ToSet(k) /\ y \in ToSet(l)))
  BY <1>0, <1>1, Joined
<1>3. r \in Rows /\ ToSet(r) = ToSet(k) \cup ToSet(l)
        /\ \A x, y : Before(k, x, y) \/ Before(l, x, y) => Before(r, x, y)
  BY <1>0, <1>2 DEF Rows
<1> QED
  BY <1>1, <1>3

LEMMA RowElements ==
  ASSUME NEW l \in Rows PROVE ToSet(l) \subseteq Windows
<1>1. l \in Seq(Windows) /\ DOMAIN l = 1 .. Len(l)
  BY DEF Rows
<1> QED
  BY <1>1 DEF ToSet

LEMMA EmptyRow == << >> \in Rows /\ ToSet(<< >>) = {} /\ \A x, y : ~ Before(<< >>, x, y)
BY DEF Rows, ToSet, IsInjective, Before

LEMMA NoElements ==
  ASSUME NEW l \in Rows
  PROVE  ToSet(l) = {} <=> l = << >>
<1>0. l \in Seq(Windows) /\ Len(l) \in Nat /\ DOMAIN l = 1 .. Len(l)
  BY DEF Rows
<1>1. ASSUME l # << >> PROVE ToSet(l) # {}
  <2>1. 1 \in DOMAIN l
    BY <1>0, <1>1
  <2> QED
    BY <2>1 DEF ToSet
<1> QED
  BY <1>1, EmptyRow

------------------------------------------------------------------------------
(* Lists that combine others.                                               *)

LEMMA CombIs ==
  ASSUME NEW l, NEW R, NEW T, Comb(l, R, T)
  PROVE  l \in Rows /\ \A s \in T : ToSet(R[s]) \subseteq ToSet(l)
BY DEF Comb, Rows

LEMMA CombNone ==
  ASSUME NEW R PROVE Comb(<< >>, R, {})
BY EmptyRow DEF Comb, Rows

LEMMA CombSame ==
  ASSUME NEW l, NEW R, NEW P, NEW T, Comb(l, R, T), \A s \in T : P[s] = R[s]
  PROVE  Comb(l, P, T)
BY DEF Comb

LEMMA CombRaise ==
  ASSUME NEW T \in SUBSET Sessions, NEW R \in [ Sessions -> Rows ], NEW l, Comb(l, R, T),
         NEW w \in Windows, NEW P, \A s \in Sessions : P[s] = Raised(R[s], w)
  PROVE  Comb(Raised(l, w), P, T)
<1>0. l \in Rows /\ \A s \in T : ToSet(R[s]) \subseteq ToSet(l)
  BY CombIs
<1>1. PICK k : k = Raised(l, w)
  OBVIOUS
<1>2. /\ k \in Rows /\ ToSet(k) = ToSet(l)
      /\ w \notin ToSet(l) => k = l
      /\ w \in ToSet(l) => \A x, y : Before(k, x, y) <=>
              ((Before(l, x, y) /\ x # w /\ y # w) \/ (x = w /\ y \in ToSet(l) \ { w }))
  BY <1>0, <1>1, RaisedIs
<1>3. \A s \in T : /\ ToSet(P[s]) = ToSet(R[s])
                   /\ w \notin ToSet(R[s]) => P[s] = R[s]
                   /\ w \in ToSet(R[s]) => \A x, y : Before(P[s], x, y) <=>
                        ((Before(R[s], x, y) /\ x # w /\ y # w) \/ (x = w /\ y \in ToSet(R[s]) \ { w }))
  BY RaisedIs
<1>4. ToSet(k) = UNION { ToSet(P[s]) : s \in T }
  BY <1>2, <1>3 DEF Comb
<1>5. ASSUME NEW s \in T, NEW x \in Windows, NEW y \in Windows, Before(P[s], x, y)
      PROVE  Before(k, x, y)
  <2>1. \A a, b \in Windows : Before(R[s], a, b) => Before(l, a, b)
    BY DEF Comb
  <2>2. CASE w \in ToSet(R[s])
    <3>1. w \in ToSet(l) /\ \A a \in ToSet(R[s]) : a \in ToSet(l)
      BY <1>0, <2>2
    <3> QED
      BY <1>2, <1>3, <1>5, <2>1, <2>2, <3>1
  <2>3. CASE w \notin ToSet(R[s])
    <3>1. Before(R[s], x, y) /\ Before(l, x, y)
      BY <1>3, <1>5, <2>1, <2>3
    <3>2. x # w /\ y # w
      BY <2>3, <3>1, BeforeElements
    <3> QED
      BY <1>2, <3>1, <3>2
  <2> QED
    BY <2>2, <2>3
<1>6. k \in Seq(Windows) /\ IsInjective(k)
  BY <1>2 DEF Rows
<1>7. Comb(k, P, T)
  BY <1>4, <1>5, <1>6 DEF Comb
<1> QED
  BY <1>1, <1>7

LEMMA CombPrepend ==
  ASSUME NEW T \in SUBSET Sessions, NEW R \in [ Sessions -> Rows ], NEW l, Comb(l, R, T),
         NEW w \in Windows, w \notin ToSet(l), NEW c \in T,
         NEW P, P[c] = << w >> \o R[c], \A s \in T \ { c } : P[s] = R[s]
  PROVE  Comb(<< w >> \o l, P, T)
<1>0. l \in Rows /\ (\A s \in T : ToSet(R[s]) \subseteq ToSet(l)) /\ R[c] \in Rows
  BY CombIs
<1>1. PICK k : k = << w >> \o l
  OBVIOUS
<1>2. /\ k \in Rows /\ ToSet(k) = ToSet(l) \cup { w }
      /\ \A x, y : Before(k, x, y) <=> (Before(l, x, y) \/ (x = w /\ y \in ToSet(l)))
  BY <1>0, <1>1, Prepended
<1>3. /\ ToSet(P[c]) = ToSet(R[c]) \cup { w }
      /\ \A x, y : Before(P[c], x, y) <=> (Before(R[c], x, y) \/ (x = w /\ y \in ToSet(R[c])))
  BY <1>0, Prepended
<1>4. ToSet(l) = UNION { ToSet(R[s]) : s \in T }
  BY DEF Comb
<1>5. ToSet(k) = UNION { ToSet(P[s]) : s \in T }
  <2>1. ASSUME NEW x \in ToSet(k) PROVE \E s \in T : x \in ToSet(P[s])
    <3>1. CASE x = w
      BY <1>3, <3>1
    <3>2. CASE x \in ToSet(l)
      <4>1. PICK s \in T : x \in ToSet(R[s])
        BY <1>4, <3>2
      <4> QED
        BY <1>3, <4>1
    <3> QED
      BY <1>2, <3>1, <3>2
  <2>2. ASSUME NEW s \in T PROVE ToSet(P[s]) \subseteq ToSet(k)
    BY <1>0, <1>2, <1>3
  <2> QED
    BY <2>1, <2>2
<1>6. ASSUME NEW s \in T, NEW x \in Windows, NEW y \in Windows, Before(P[s], x, y)
      PROVE  Before(k, x, y)
  <2>1. Before(R[s], x, y) => Before(l, x, y)
    BY DEF Comb
  <2>2. CASE s = c
    BY <1>0, <1>2, <1>3, <1>6, <2>1, <2>2
  <2>3. CASE s # c
    BY <1>2, <1>6, <2>1, <2>3
  <2> QED
    BY <2>2, <2>3
<1>7. k \in Seq(Windows) /\ IsInjective(k)
  BY <1>2 DEF Rows
<1>8. Comb(k, P, T)
  BY <1>5, <1>6, <1>7 DEF Comb
<1> QED
  BY <1>1, <1>8

LEMMA CombRemove ==
  ASSUME NEW T \in SUBSET Sessions, NEW R \in [ Sessions -> Rows ], NEW l, Comb(l, R, T),
         NEW w \in Windows, NEW c \in T, \A s \in T \ { c } : w \notin ToSet(R[s]),
         NEW P, P[c] = Without(R[c], { w }), \A s \in T \ { c } : P[s] = R[s]
  PROVE  Comb(Without(l, { w }), P, T)
<1>0. l \in Rows /\ (\A s \in T : ToSet(R[s]) \subseteq ToSet(l)) /\ R[c] \in Rows
  BY CombIs
<1>1. PICK k : k = Without(l, { w })
  OBVIOUS
<1>2. /\ k \in Rows /\ ToSet(k) = ToSet(l) \ { w }
      /\ \A x, y : Before(k, x, y) <=> (Before(l, x, y) /\ x \notin { w } /\ y \notin { w })
  BY <1>0, <1>1, WithoutRow
<1>3. /\ ToSet(P[c]) = ToSet(R[c]) \ { w }
      /\ \A x, y : Before(P[c], x, y) <=> (Before(R[c], x, y) /\ x \notin { w } /\ y \notin { w })
  BY <1>0, WithoutRow
<1>4. ToSet(l) = UNION { ToSet(R[s]) : s \in T }
  BY DEF Comb
<1>5. ToSet(k) = UNION { ToSet(P[s]) : s \in T }
  <2>1. ASSUME NEW x \in ToSet(k) PROVE \E s \in T : x \in ToSet(P[s])
    <3>1. x \in ToSet(l) /\ x # w
      BY <1>2
    <3>2. PICK s \in T : x \in ToSet(R[s])
      BY <1>4, <3>1
    <3> QED
      BY <1>3, <3>1, <3>2
  <2>2. ASSUME NEW s \in T PROVE ToSet(P[s]) \subseteq ToSet(k)
    BY <1>0, <1>2, <1>3
  <2> QED
    BY <2>1, <2>2
<1>6. ASSUME NEW s \in T, NEW x \in Windows, NEW y \in Windows, Before(P[s], x, y)
      PROVE  Before(k, x, y)
  <2>1. Before(R[s], x, y) => Before(l, x, y)
    BY DEF Comb
  <2>2. CASE s = c
    BY <1>2, <1>3, <1>6, <2>1, <2>2
  <2>3. CASE s # c
    <3>1. P[s] = R[s] /\ w \notin ToSet(R[s])
      BY <2>3
    <3>2. x \in ToSet(R[s]) /\ y \in ToSet(R[s])
      BY <1>6, <3>1, BeforeElements
    <3> QED
      BY <1>2, <1>6, <2>1, <3>1, <3>2
  <2> QED
    BY <2>2, <2>3
<1>7. k \in Seq(Windows) /\ IsInjective(k)
  BY <1>2 DEF Rows
<1>8. Comb(k, P, T)
  BY <1>5, <1>6, <1>7 DEF Comb
<1> QED
  BY <1>1, <1>8

LEMMA CombOne ==
  ASSUME NEW R, NEW c, R[c] \in Rows
  PROVE  Comb(R[c], R, { c })
BY DEF Comb, Rows

LEMMA CombJoin ==
  ASSUME NEW R, NEW U, NEW T, NEW k, Comb(k, R, U), NEW l, Comb(l, R, T),
         ToSet(k) \cap ToSet(l) = {}
  PROVE  Comb(k \o l, R, U \cup T)
<1>0. k \in Rows /\ l \in Rows
  BY CombIs
<1>1. PICK j : j = k \o l
  OBVIOUS
<1>2. /\ j \in Rows /\ ToSet(j) = ToSet(k) \cup ToSet(l)
      /\ \A x, y : Before(k, x, y) \/ Before(l, x, y) => Before(j, x, y)
  BY <1>0, <1>1, JoinedRows
<1>3. /\ ToSet(l) = UNION { ToSet(R[s]) : s \in T }
      /\ \A s \in T : \A x, y \in Windows : Before(R[s], x, y) => Before(l, x, y)
      /\ ToSet(k) = UNION { ToSet(R[s]) : s \in U }
      /\ \A s \in U : \A x, y \in Windows : Before(R[s], x, y) => Before(k, x, y)
  BY DEF Comb
<1>4. ToSet(j) = UNION { ToSet(R[s]) : s \in U \cup T }
  BY <1>2, <1>3
<1>5. \A s \in U \cup T : \A x, y \in Windows : Before(R[s], x, y) => Before(j, x, y)
  BY <1>2, <1>3
<1>6. j \in Seq(Windows) /\ IsInjective(j)
  BY <1>2 DEF Rows
<1>7. Comb(j, R, U \cup T)
  BY <1>4, <1>5, <1>6 DEF Comb
<1> QED
  BY <1>1, <1>7

LEMMA CombAdd ==
  ASSUME NEW R, NEW T, NEW l, Comb(l, R, T), NEW c, R[c] \in Rows, ToSet(R[c]) \cap ToSet(l) = {}
  PROVE  Comb(R[c] \o l, R, T \cup { c })
<1>1. Comb(R[c], R, { c })
  BY CombOne
<1>2. Comb(R[c] \o l, R, { c } \cup T)
  BY <1>1, CombJoin
<1>3. { c } \cup T = T \cup { c }
  OBVIOUS
<1> QED
  BY <1>2, <1>3

(* All lists of some, and no row of the others, are dropped.                *)
LEMMA CombDrop ==
  ASSUME NEW R, NEW T, NEW l, Comb(l, R, T), NEW D, NEW K,
         \A s \in T \ D : ToSet(R[s]) \cap K = {}, \A s \in T \cap D : ToSet(R[s]) \subseteq K,
         NEW P, \A s \in T \ D : P[s] = R[s]
  PROVE  Comb(Without(l, K), P, T \ D)
<1>0. l \in Rows /\ (\A s \in T : ToSet(R[s]) \subseteq ToSet(l))
  BY CombIs
<1>1. PICK k : k = Without(l, K)
  OBVIOUS
<1>2. /\ k \in Rows /\ ToSet(k) = ToSet(l) \ K
      /\ \A x, y : Before(k, x, y) <=> (Before(l, x, y) /\ x \notin K /\ y \notin K)
  BY <1>0, <1>1, WithoutRow
<1>3. ToSet(l) = UNION { ToSet(R[s]) : s \in T }
      /\ \A s \in T : \A x, y \in Windows : Before(R[s], x, y) => Before(l, x, y)
  BY DEF Comb
<1>4. ToSet(k) = UNION { ToSet(P[s]) : s \in T \ D }
  <2>1. ASSUME NEW x \in ToSet(k) PROVE \E s \in T \ D : x \in ToSet(P[s])
    <3>1. x \in ToSet(l) /\ x \notin K
      BY <1>2
    <3>2. PICK s \in T : x \in ToSet(R[s])
      BY <1>3, <3>1
    <3>3. s \in T \ D
      BY <3>1, <3>2
    <3> QED
      BY <3>2, <3>3
  <2>2. ASSUME NEW s \in T \ D PROVE ToSet(P[s]) \subseteq ToSet(k)
    BY <1>0, <1>2
  <2> QED
    BY <2>1, <2>2
<1>5. ASSUME NEW s \in T \ D, NEW x \in Windows, NEW y \in Windows, Before(P[s], x, y)
      PROVE  Before(k, x, y)
  <2>1. x \in ToSet(R[s]) /\ y \in ToSet(R[s]) /\ Before(R[s], x, y)
    BY <1>5, BeforeElements
  <2>2. x \notin K /\ y \notin K
    BY <2>1
  <2> QED
    BY <1>2, <1>3, <2>1, <2>2
<1>6. k \in Seq(Windows) /\ IsInjective(k)
  BY <1>2 DEF Rows
<1>7. Comb(k, P, T \ D)
  BY <1>4, <1>5, <1>6 DEF Comb
<1> QED
  BY <1>1, <1>7

(* What the property says of such a list.                                   *)
LEMMA CombCombines ==
  ASSUME NEW l, NEW T \in SUBSET Sessions, model.rows \in [ Sessions -> Rows ], Comb(l, model.rows, T)
  PROVE  Combines(l, T)
<1>0. l \in Seq(Windows) /\ IsInjective(l) /\ ToSet(l) = UNION { ToSet(model.rows[s]) : s \in T }
  BY DEF Comb
<1>1. ASSUME NEW s \in T PROVE Kept(l, ToSet(model.rows[s])) = model.rows[s]
  <2>1. PICK r \in Rows : r = model.rows[s]
    OBVIOUS
  <2>2. PICK K : K = ToSet(r)
    OBVIOUS
  <2>3. PICK k : k = Kept(l, K)
    OBVIOUS
  <2>4. /\ k \in Seq(Windows)
        /\ ToSet(k) = ToSet(l) \cap K
        /\ IsInjective(k)
        /\ \A x, y : Before(k, x, y) <=> (Before(l, x, y) /\ x \in K /\ y \in K)
    BY <1>0, <2>3, KeptRow
  <2>5. r \in Seq(Windows) /\ IsInjective(r)
    BY DEF Rows
  <2>6. ToSet(r) = ToSet(k)
    BY <1>0, <2>1, <2>2, <2>4
  <2>7. ASSUME NEW x, NEW y, Before(r, x, y) PROVE Before(k, x, y)
    <3>1. x \in K /\ y \in K
      BY <2>2, <2>7, BeforeElements
    <3>2. x \in Windows /\ y \in Windows
      BY <2>1, <2>2, <3>1, RowElements
    <3>3. Before(l, x, y)
      BY <2>1, <2>7, <3>2 DEF Comb
    <3> QED
      BY <2>4, <3>1, <3>3
  <2>8. r = k
    BY <2>4, <2>5, <2>6, <2>7, SameOrder
  <2> QED
    BY <2>1, <2>2, <2>3, <2>8
<1> QED
  BY <1>0, <1>1 DEF Combines

------------------------------------------------------------------------------
(* The sessions and their lists, field by field.                            *)

LEMMA ModelFields ==
  ASSUME NEW m \in Model
  PROVE  /\ m.object \in [ Sessions -> { "none", "live", "zombie", "doomed", "gone" } ]
         /\ m.known \in SUBSET Sessions
         /\ m.rows \in [ Sessions -> Rows ] /\ m.closing \in [ Sessions -> SUBSET Windows ]
         /\ m.parent \in [ Sessions -> Sessions \cup { None } ]
         /\ m.prompts \in [ Sessions -> Seq(Windows) ]
         /\ m.attached \in SUBSET Sessions /\ m.appRows \in Seq(Windows)
         /\ m.proxied \in Sessions \cup { None } /\ m.prompted \in SUBSET Sessions
         /\ m.asking \in SUBSET Sessions /\ m.stopped \in SUBSET Sessions
BY DEF Model

LEMMA NoneApart == None \notin Windows /\ None \notin Sessions
BY NoneAssumption

LEMMA ModelParts ==
  ASSUME NEW m, NEW f, ModelRight(m, f)
  PROVE  /\ m \in Model /\ Comb(m.appRows, m.rows, m.attached)
         /\ \A s \in Sessions :
              /\ ~ Exists(m, s) => NoTrace(m, s)
              /\ m.parent[s] # None => Exists(m, m.parent[s])
              /\ s \notin Above(m, s)
              /\ \A w \in ToSet(m.rows[s]) \cup m.closing[s] : f[w].session = s /\ f[w].ready
              /\ Comb(m.prompts[s], m.rows, Below(m, s))
         /\ m.proxied # None => m.proxied \in m.attached
         /\ m.prompted \subseteq m.asking
BY DEF ModelRight, SessionRight

(* The same parents, the same families.                                     *)
LEMMA SameFamily ==
  ASSUME NEW m, NEW n, n.parent = m.parent, NEW s
  PROVE  /\ Above(n, s) = Above(m, s) /\ Below(n, s) = Below(m, s)
         /\ ChildrenOf(n, s) = ChildrenOf(m, s)
BY DEF Above, Below, ChildrenOf

LEMMA Family ==
  ASSUME NEW m \in Model, NEW s \in Sessions
  PROVE  /\ m.parent \in Parents /\ Above(m, s) \in SUBSET Sessions /\ Below(m, s) \in SUBSET Sessions
         /\ Above(m, s) = AboveIn(m.parent, s) /\ Below(m, s) = UnderIn(m.parent, s)
         /\ \A d \in Sessions : d \in Below(m, s) <=> s \in Above(m, d)
BY ModelFields, AboveSome DEF Above, Below, UnderIn, Parents

(* Who is above or below another is there.                                  *)
LEMMA FamilyExists ==
  ASSUME NEW m, NEW f, ModelRight(m, f), NEW s \in Sessions
  PROVE  (\A a \in Above(m, s) : Exists(m, a)) /\ (\A d \in Below(m, s) : Exists(m, d))
<1>0. m \in Model /\ m.parent \in Parents
  BY ModelParts, Family
<1>1. PICK F \in SUBSET Sessions : F = { a \in Sessions : Exists(m, a) }
  OBVIOUS
<1>2. \A t \in Sessions : m.parent[t] \in Sessions \cup { None }
  BY <1>0 DEF Parents
<1>3. \A t \in Sessions : m.parent[t] # None => m.parent[t] \in F
  BY <1>1, <1>2, ModelParts
<1>4. Upward(m.parent, F)
  BY <1>3 DEF Upward
<1>5. Above(m, s) \subseteq F
  BY <1>3, <1>4, AboveLeast DEF Above
<1>6. ASSUME NEW d \in Below(m, s) PROVE Exists(m, d)
  <2>1. d \in Sessions /\ s \in AboveIn(m.parent, d)
    BY DEF Below, Above
  <2>2. m.parent[d] # None
    BY <2>1, AboveSome
  <2> QED
    BY <2>1, <2>2, ModelParts DEF NoTrace
<1> QED
  BY <1>1, <1>5, <1>6

(* Lists of different sessions have nothing in common.                      *)
LEMMA Apart ==
  ASSUME NEW m, NEW f, ModelRight(m, f), NEW s \in Sessions, NEW t \in Sessions, s # t
  PROVE  ToSet(m.rows[s]) \cap ToSet(m.rows[t]) = {}
<1>1. \A u \in Sessions : \A w \in ToSet(m.rows[u]) : f[w].session = u
  BY ModelParts
<1> QED
  BY <1>1

(* The same but for what has become of sessions that exist.                 *)
Alike(m, n) ==
  /\ n \in Model /\ \A s \in Sessions : Exists(n, s) <=> Exists(m, s)
  /\ n.known = m.known /\ n.rows = m.rows /\ n.closing = m.closing /\ n.parent = m.parent
  /\ n.prompts = m.prompts /\ n.attached = m.attached /\ n.appRows = m.appRows
  /\ n.proxied = m.proxied /\ n.prompted = m.prompted /\ n.asking = m.asking

LEMMA AlikeRight ==
  ASSUME NEW m, NEW n, NEW f, ModelRight(m, f), Alike(m, n)
  PROVE  ModelRight(n, f)
<1>1. ASSUME NEW s \in Sessions PROVE SessionRight(n, f, s)
  <2>1. SessionRight(m, f, s)
    BY DEF ModelRight
  <2>2. Below(n, s) = Below(m, s) /\ Above(n, s) = Above(m, s)
    BY SameFamily DEF Alike
  <2>3. m.parent[s] \in Sessions \cup { None }
    BY ModelFields DEF ModelRight
  <2> QED
    BY <2>1, <2>2, <2>3 DEF Alike, SessionRight, NoTrace
<1> QED
  BY <1>1 DEF ModelRight, Alike

(* What no operation undoes: a session that was never there, no parent.     *)
Steady(m, n) ==
  \A s \in Sessions : /\ m.object[s] = "none" => n.object[s] = "none"
                      /\ n.parent[s] \in { None, m.parent[s] }

LEMMA DeleteIf ==
  ASSUME NEW m \in Model, NEW s \in Sessions, NEW n, n = DeleteIfZombieAndEmpty(m, s)
  PROVE  /\ Alike(m, n) /\ Steady(m, n)
         /\ \A t \in Sessions : n.object[t] # m.object[t] =>
              t = s /\ m.object[t] = "zombie" /\ n.object[t] = "doomed"
         /\ (\A t \in Sessions \ { s } : Kept_(m, t)) => KeptAll(n)
<1>1. CASE m.object[s] = "zombie" /\ ChildrenOf(m, s) = {} /\ m.rows[s] = << >>
  <2>1. n = [ m EXCEPT !.object[s] = "doomed" ]
    BY <1>1 DEF DeleteIfZombieAndEmpty
  <2>2. n \in Model
    <3>1. PICK o \in [ Sessions -> { "none", "live", "zombie", "doomed", "gone" } ] :
            o = [ m.object EXCEPT ![s] = "doomed" ]
      BY ModelFields
    <3>2. n = [ m EXCEPT !.object = o ]
      BY <2>1, <3>1
    <3> QED
      BY <3>1, <3>2 DEF Model
  <2>3. /\ n.known = m.known /\ n.rows = m.rows /\ n.closing = m.closing /\ n.parent = m.parent
        /\ n.prompts = m.prompts /\ n.attached = m.attached /\ n.appRows = m.appRows
        /\ n.proxied = m.proxied /\ n.prompted = m.prompted /\ n.asking = m.asking
    BY <2>1 DEF Model
  <2>4. n.object[s] = "doomed" /\ \A t \in Sessions \ { s } : n.object[t] = m.object[t]
    BY <2>1 DEF Model
  <2>5. \A t \in Sessions : Exists(n, t) <=> Exists(m, t)
    BY <1>1, <2>4 DEF Exists
  <2>6. Alike(m, n)
    BY <2>2, <2>3, <2>5 DEF Alike
  <2>7. ASSUME NEW t \in Sessions, t # s, Kept_(m, t) PROVE Kept_(n, t)
    BY <2>3, <2>4, <2>7 DEF Kept_, ChildrenOf
  <2>8. Kept_(n, s)
    BY <2>4 DEF Kept_
  <2> QED
    BY <1>1, <2>3, <2>4, <2>6, <2>7, <2>8 DEF Steady, KeptAll
<1>2. CASE ~ (m.object[s] = "zombie" /\ ChildrenOf(m, s) = {} /\ m.rows[s] = << >>)
  <2>1. n = m
    BY <1>2 DEF DeleteIfZombieAndEmpty
  <2>2. Kept_(m, s)
    BY <1>2 DEF Kept_
  <2> QED
    BY <2>1, <2>2 DEF Alike, Steady, KeptAll
<1> QED
  BY <1>1, <1>2

(* Surfaces that no session has listed may change.                          *)
LEMMA OtherSurfaces ==
  ASSUME NEW m, NEW f, NEW g, ModelRight(m, f),
         \A s \in Sessions : \A w \in ToSet(m.rows[s]) \cup m.closing[s] :
           f[w].session = s /\ f[w].ready => g[w].session = s /\ g[w].ready
  PROVE  ModelRight(m, g)
<1>1. ASSUME NEW s \in Sessions PROVE SessionRight(m, g, s)
  <2>1. SessionRight(m, f, s)
    BY DEF ModelRight
  <2> QED
    BY <2>1 DEF SessionRight
<1> QED
  BY <1>1 DEF ModelRight

(* Another row of a session, and of the lists that track it.                *)
PromptLists == [ Sessions -> Seq(Windows) ]
Rowed(m, s, r, a, q) == [ m EXCEPT !.rows[s] = r, !.appRows = a, !.prompts = q ]

LEMMA RowFields ==
  ASSUME NEW m \in Model, NEW s \in Sessions, NEW r \in Rows, NEW a \in Seq(Windows),
         NEW q \in PromptLists,
         NEW n, n = Rowed(m, s, r, a, q)
  PROVE  /\ n \in Model /\ n.object = m.object /\ n.known = m.known /\ n.closing = m.closing
         /\ n.parent = m.parent /\ n.attached = m.attached /\ n.proxied = m.proxied
         /\ n.prompted = m.prompted /\ n.asking = m.asking
         /\ n.rows[s] = r /\ (\A t \in Sessions \ { s } : n.rows[t] = m.rows[t])
         /\ n.appRows = a /\ n.prompts = q
<1>1. m.rows \in [ Sessions -> Rows ]
  BY ModelFields
<1>2. PICK R \in [ Sessions -> Rows ] : R = [ m.rows EXCEPT ![s] = r ]
  BY <1>1
<1>3. n = [ m EXCEPT !.rows = R, !.appRows = a, !.prompts = q ]
  BY <1>2 DEF Rowed
<1>4. n \in Model /\ n.rows = R
  BY <1>3 DEF Model, PromptLists
<1>5. R[s] = r /\ \A t \in Sessions \ { s } : R[t] = m.rows[t]
  BY <1>1, <1>2
<1> QED
  BY <1>3, <1>4, <1>5 DEF Model

(* The row is changed in the list of a session, and in every list that      *)
(* tracks it: they still combine those they track.                          *)
ListedRight(m, g) ==
  \A t \in Sessions : \A w \in ToSet(m.rows[t]) \cup m.closing[t] : g[w].session = t /\ g[w].ready

LEMMA RowRight ==
  ASSUME NEW m, NEW f, NEW g, ModelRight(m, f), NEW s \in Sessions, NEW n \in Model,
         \A t \in Sessions : Exists(n, t) <=> Exists(m, t),
         n.known = m.known, n.parent = m.parent, n.attached = m.attached, n.proxied = m.proxied,
         n.prompted = m.prompted, n.asking = m.asking,
         \A t \in Sessions \ { s } : n.rows[t] = m.rows[t],
         Exists(m, s),
         ListedRight(n, g),
         \A t \in Sessions : ~ Exists(m, t) => n.closing[t] = {},
         s \in m.attached => Comb(n.appRows, n.rows, m.attached),
         s \notin m.attached => n.appRows = m.appRows,
         \A p \in Sessions : p \in Above(m, s) => Comb(n.prompts[p], n.rows, Below(m, p)),
         \A p \in Sessions : p \notin Above(m, s) => n.prompts[p] = m.prompts[p]
  PROVE  ModelRight(n, g)
<1>0. m \in Model
  BY ModelParts
<1>1. Comb(n.appRows, n.rows, n.attached)
  <2>1. CASE s \in m.attached
    BY <2>1
  <2>2. CASE s \notin m.attached
    <3>1. \A t \in m.attached : n.rows[t] = m.rows[t]
      BY <1>0, <2>2, ModelFields
    <3>2. Comb(m.appRows, m.rows, m.attached)
      BY ModelParts
    <3> QED
      BY <2>2, <3>1, <3>2, CombSame
  <2> QED
    BY <2>1, <2>2
<1>2. ASSUME NEW t \in Sessions PROVE SessionRight(n, g, t)
  <2>1. Below(n, t) = Below(m, t) /\ Above(n, t) = Above(m, t)
    BY SameFamily
  <2>2. Comb(n.prompts[t], n.rows, Below(n, t))
    <3>1. CASE t \in Above(m, s)
      BY <2>1, <3>1
    <3>2. CASE t \notin Above(m, s)
      <4>1. \A c \in Below(m, t) : n.rows[c] = m.rows[c]
        BY <3>2 DEF Below
      <4>2. Comb(m.prompts[t], m.rows, Below(m, t))
        BY ModelParts
      <4> QED
        BY <2>1, <3>2, <4>1, <4>2, CombSame
    <3> QED
      BY <3>1, <3>2
  <2>3. ASSUME ~ Exists(n, t) PROVE NoTrace(n, t)
    <3>1. ~ Exists(m, t) /\ t # s
      BY <2>3
    <3>2. NoTrace(m, t)
      BY <3>1, ModelParts
    <3>3. t \notin Above(m, s)
      BY <3>1, FamilyExists
    <3> QED
      BY <3>1, <3>2, <3>3 DEF NoTrace
  <2>4. (n.parent[t] # None => Exists(n, n.parent[t])) /\ t \notin Above(n, t)
    <3>1. m.parent[t] \in Sessions \cup { None }
      BY <1>0, ModelFields
    <3> QED
      BY <2>1, <3>1, ModelParts
  <2> QED
    BY <2>2, <2>3, <2>4 DEF SessionRight, ListedRight
<1> QED
  BY <1>1, <1>2, ModelParts DEF ModelRight

LEMMA HasExists ==
  ASSUME NEW m, NEW f, ModelRight(m, f), NEW s \in Sessions,
         m.rows[s] # << >> \/ m.closing[s] # {} \/ m.parent[s] # None
           \/ s \in m.known \cup m.attached \cup m.asking
  PROVE  Exists(m, s)
BY ModelParts DEF NoTrace

RowLess(m, n, s, w) ==
  \A t \in Sessions : /\ Exists(n, t) <=> Exists(m, t)
                      /\ ToSet(n.rows[t]) \subseteq ToSet(m.rows[t])
                      /\ t = s => w \notin ToSet(n.rows[t])

LEMMA RemoveRowRight ==
  ASSUME NEW m, NEW f, ModelRight(m, f), NEW s \in Sessions, NEW w \in Windows,
         NEW n, n = RemoveRow(m, s, w)
  PROVE  /\ ModelRight(n, f) /\ Steady(m, n) /\ (KeptAll(m) => KeptAll(n))
         /\ n.closing = m.closing /\ RowLess(m, n, s, w)
<1>0. m \in Model /\ m.rows[s] \in Rows /\ m.rows[s] \in Seq(Windows)
  BY ModelParts, ModelFields DEF Rows
<1>1. Contains(m.rows[s], w) <=> w \in ToSet(m.rows[s])
  BY <1>0 DEF Contains, ToSet
<1>2. CASE w \notin ToSet(m.rows[s])
  <2>1. n = m
    BY <1>1, <1>2 DEF RemoveRow
  <2> QED
    BY <1>2, <2>1 DEF Steady, RowLess
<1>3. CASE w \in ToSet(m.rows[s])
  <2>0. Exists(m, s)
    BY <1>3, HasExists, EmptyRow
  <2>1. PICK r : r = Without(m.rows[s], { w })
    OBVIOUS
  <2>2. r \in Rows /\ ToSet(r) = ToSet(m.rows[s]) \ { w }
    BY <1>0, <2>1, WithoutRow
  <2>3. PICK a : a = IF s \in m.attached THEN Without(m.appRows, { w }) ELSE m.appRows
    OBVIOUS
  <2>4. a \in Seq(Windows)
    BY <1>0, <2>3, ModelFields, Without_
  <2>5. PICK q : q = [ p \in Sessions |-> IF p \in Above(m, s) THEN Without(m.prompts[p], { w })
                                                                  ELSE m.prompts[p] ]
    OBVIOUS
  <2>6. /\ q \in PromptLists
        /\ \A p \in Sessions : q[p] = IF p \in Above(m, s) THEN Without(m.prompts[p], { w })
                                                         ELSE m.prompts[p]
    <3>1. \A p \in Sessions : m.prompts[p] \in Seq(Windows)
      BY <1>0, ModelFields
    <3>2. \A p \in Sessions : Without(m.prompts[p], { w }) \in Seq(Windows)
      BY <3>1, Without_
    <3> QED
      BY <2>5, <3>1, <3>2 DEF PromptLists
  <2>7. PICK o : o = Rowed(m, s, r, a, q)
    OBVIOUS
  <2>8. /\ o \in Model /\ o.object = m.object /\ o.known = m.known /\ o.closing = m.closing
        /\ o.parent = m.parent /\ o.attached = m.attached /\ o.proxied = m.proxied
        /\ o.prompted = m.prompted /\ o.asking = m.asking
        /\ o.rows[s] = r /\ (\A t \in Sessions \ { s } : o.rows[t] = m.rows[t])
        /\ o.appRows = a /\ o.prompts = q
    BY <1>0, <2>2, <2>4, <2>6, <2>7, RowFields
  <2>9. n = DeleteIfZombieAndEmpty(o, s)
    BY <1>1, <1>3, <2>1, <2>3, <2>5, <2>7 DEF RemoveRow, Rowed
  <2>10. m.rows \in [ Sessions -> Rows ] /\ m.attached \in SUBSET Sessions
    BY <1>0, ModelFields
  <2>11. \A t \in Sessions \ { s } : w \notin ToSet(m.rows[t])
    BY <1>3, Apart
  <2>12. ASSUME s \in m.attached PROVE Comb(o.appRows, o.rows, m.attached)
    <3>1. Comb(m.appRows, m.rows, m.attached)
      BY ModelParts
    <3>2. \A t \in m.attached \ { s } : o.rows[t] = m.rows[t] /\ w \notin ToSet(m.rows[t])
      BY <2>8, <2>10, <2>11
    <3>3. o.appRows = Without(m.appRows, { w }) /\ o.rows[s] = Without(m.rows[s], { w })
      BY <2>1, <2>3, <2>8, <2>12
    <3> QED
      BY <2>10, <2>12, <3>1, <3>2, <3>3, CombRemove
  <2>13. ASSUME NEW p \in Sessions, p \in Above(m, s)
         PROVE  Comb(o.prompts[p], o.rows, Below(m, p))
    <3>1. Comb(m.prompts[p], m.rows, Below(m, p))
      BY ModelParts
    <3>2. Below(m, p) \in SUBSET Sessions /\ s \in Below(m, p)
      BY <2>13 DEF Below
    <3>3. \A t \in Below(m, p) \ { s } : o.rows[t] = m.rows[t] /\ w \notin ToSet(m.rows[t])
      BY <2>8, <2>11, <3>2
    <3>4. o.prompts[p] = Without(m.prompts[p], { w }) /\ o.rows[s] = Without(m.rows[s], { w })
      BY <2>1, <2>6, <2>8, <2>13
    <3> QED
      BY <2>10, <3>1, <3>2, <3>3, <3>4, CombRemove
  <2>14. \A t \in Sessions : ToSet(o.rows[t]) \subseteq ToSet(m.rows[t])
    BY <2>2, <2>8
  <2>15. ModelRight(o, f)
    <3>1. \A t \in Sessions : Exists(o, t) <=> Exists(m, t)
      BY <2>8 DEF Exists
    <3>2. ListedRight(o, f)
      BY <2>8, <2>14, ModelParts DEF ListedRight
    <3>3. \A t \in Sessions : ~ Exists(m, t) => o.closing[t] = {}
      BY <2>8, ModelParts DEF NoTrace
    <3>4. \A p \in Sessions : p \notin Above(m, s) => o.prompts[p] = m.prompts[p]
      BY <2>6, <2>8
    <3>5. s \notin m.attached => o.appRows = m.appRows
      BY <2>3, <2>8
    <3> QED
      BY <2>0, <2>8, <2>12, <2>13, <3>1, <3>2, <3>3, <3>4, <3>5, RowRight
  <2>16. /\ Alike(o, n) /\ Steady(o, n)
         /\ (\A t \in Sessions \ { s } : Kept_(o, t)) => KeptAll(n)
    BY <2>8, <2>9, DeleteIf
  <2>17. ModelRight(n, f)
    BY <2>15, <2>16, AlikeRight
  <2>18. KeptAll(m) => KeptAll(n)
    <3>1. KeptAll(m) => \A t \in Sessions \ { s } : Kept_(o, t)
      BY <2>8 DEF KeptAll, Kept_, ChildrenOf
    <3> QED
      BY <2>16, <3>1
  <2>19. Steady(m, n)
    BY <2>8, <2>16 DEF Steady
  <2>20. n.closing = m.closing /\ n.rows = o.rows
    BY <2>8, <2>16 DEF Alike
  <2>21. \A t \in Sessions : Exists(n, t) <=> Exists(m, t)
    <3>1. \A t \in Sessions : Exists(o, t) <=> Exists(m, t)
      BY <2>8 DEF Exists
    <3> QED
      BY <2>16, <3>1 DEF Alike
  <2> QED
    <3>1. RowLess(m, n, s, w)
      BY <2>2, <2>8, <2>14, <2>20, <2>21 DEF RowLess
    <3> QED
      BY <2>17, <2>18, <2>19, <2>20, <3>1
<1> QED
  BY <1>2, <1>3

LEMMA PrependRowRight ==
  ASSUME NEW m, NEW f, NEW g, ModelRight(m, f), NEW s \in Sessions, Exists(m, s),
         NEW w \in Windows, f[w].session = s, ~ f[w].ready, g[w].session = s, g[w].ready,
         \A v \in Windows \ { w } : g[v].session = f[v].session /\ g[v].ready = f[v].ready,
         NEW n, n = PrependRow(m, s, w)
  PROVE  /\ ModelRight(n, g) /\ Steady(m, n) /\ (KeptAll(m) => KeptAll(n))
         /\ \A t \in Sessions : Exists(n, t) <=> Exists(m, t)
<1>0. /\ m \in Model /\ m.rows \in [ Sessions -> Rows ] /\ m.attached \in SUBSET Sessions
      /\ m.closing \in [ Sessions -> SUBSET Windows ]
  BY ModelParts, ModelFields
<1>1. \A t \in Sessions : w \notin ToSet(m.rows[t])
  BY ModelParts
<1>2. PICK r : r = << w >> \o m.rows[s]
  OBVIOUS
<1>3. r \in Rows /\ ToSet(r) = ToSet(m.rows[s]) \cup { w }
  BY <1>0, <1>1, <1>2, Prepended
<1>4. PICK a : a = IF s \in m.attached THEN << w >> \o m.appRows ELSE m.appRows
  OBVIOUS
<1>5. a \in Seq(Windows)
  BY <1>0, <1>4, ModelFields
<1>6. PICK q : q = [ p \in Sessions |-> IF p \in Above(m, s) THEN << w >> \o m.prompts[p]
                                                           ELSE m.prompts[p] ]
  OBVIOUS
<1>7. /\ q \in PromptLists
      /\ \A p \in Sessions : q[p] = IF p \in Above(m, s) THEN << w >> \o m.prompts[p]
                                                       ELSE m.prompts[p]
  <2>1. \A p \in Sessions : m.prompts[p] \in Seq(Windows)
    BY <1>0, ModelFields
  <2>2. \A p \in Sessions : << w >> \o m.prompts[p] \in Seq(Windows)
    BY <2>1
  <2> QED
    BY <1>6, <2>1, <2>2 DEF PromptLists
<1>8. n = Rowed(m, s, r, a, q)
  BY <1>2, <1>4, <1>6 DEF PrependRow, Rowed
<1>9. /\ n \in Model /\ n.object = m.object /\ n.known = m.known /\ n.closing = m.closing
      /\ n.parent = m.parent /\ n.attached = m.attached /\ n.proxied = m.proxied
      /\ n.prompted = m.prompted /\ n.asking = m.asking
      /\ n.rows[s] = r /\ (\A t \in Sessions \ { s } : n.rows[t] = m.rows[t])
      /\ n.appRows = a /\ n.prompts = q
  BY <1>0, <1>3, <1>5, <1>7, <1>8, RowFields
<1>10. ASSUME NEW l, NEW T \in SUBSET Sessions, Comb(l, m.rows, T), s \in T
       PROVE  Comb(<< w >> \o l, n.rows, T)
  <2>1. w \notin ToSet(l)
    BY <1>1, <1>10 DEF Comb
  <2>2. n.rows[s] = << w >> \o m.rows[s] /\ \A t \in T \ { s } : n.rows[t] = m.rows[t]
    BY <1>2, <1>9
  <2> QED
    BY <1>0, <1>10, <2>1, <2>2, CombPrepend
<1>11. ASSUME s \in m.attached PROVE Comb(n.appRows, n.rows, m.attached)
  <2>1. n.appRows = << w >> \o m.appRows
    BY <1>4, <1>9, <1>11
  <2>2. Comb(m.appRows, m.rows, m.attached)
    BY ModelParts
  <2>3. Comb(<< w >> \o m.appRows, n.rows, m.attached)
    BY <1>0, <1>10, <1>11, <2>2
  <2> QED
    BY <2>1, <2>3
<1>12. ASSUME NEW p \in Sessions, p \in Above(m, s)
       PROVE  Comb(n.prompts[p], n.rows, Below(m, p))
  <2>1. Comb(m.prompts[p], m.rows, Below(m, p))
    BY ModelParts
  <2>2. Below(m, p) \in SUBSET Sessions /\ s \in Below(m, p)
    BY <1>12 DEF Below
  <2>3. n.prompts[p] = << w >> \o m.prompts[p]
    BY <1>7, <1>9, <1>12
  <2>4. Comb(<< w >> \o m.prompts[p], n.rows, Below(m, p))
    BY <1>10, <2>1, <2>2
  <2> QED
    BY <2>3, <2>4
<1>13. \A t \in Sessions : Exists(n, t) <=> Exists(m, t)
  BY <1>9 DEF Exists
<1>14. ASSUME NEW t \in Sessions, NEW v \in ToSet(n.rows[t]) \cup n.closing[t]
       PROVE  g[v].session = t /\ g[v].ready
  <2>0. v \in Windows
    <3>1. n.rows[t] \in Rows /\ n.closing[t] \subseteq Windows
      BY <1>9, ModelFields
    <3> QED
      BY <1>14, <3>1, RowElements
  <2>1. CASE v \in ToSet(m.rows[t]) \cup m.closing[t]
    <3>1. f[v].session = t /\ f[v].ready
      BY <2>1, ModelParts
    <3>2. v # w
      BY <3>1
    <3> QED
      BY <2>0, <3>1, <3>2
  <2>2. CASE t = s /\ v = w
    BY <2>2
  <2> QED
    BY <1>3, <1>9, <1>14, <2>1, <2>2
<1>15. ModelRight(n, g)
  <2>1. \A t \in Sessions : ~ Exists(m, t) => n.closing[t] = {}
    BY <1>9, ModelParts DEF NoTrace
  <2>2. \A p \in Sessions : p \notin Above(m, s) => n.prompts[p] = m.prompts[p]
    BY <1>7, <1>9
  <2>3. s \notin m.attached => n.appRows = m.appRows
    BY <1>4, <1>9
  <2>4. ListedRight(n, g)
    BY <1>14 DEF ListedRight
  <2>5. \A p \in Sessions : p \in Above(m, s) => Comb(n.prompts[p], n.rows, Below(m, p))
    BY <1>12
  <2>6. s \in m.attached => Comb(n.appRows, n.rows, m.attached)
    BY <1>11
  <2>7. /\ n \in Model /\ n.known = m.known /\ n.parent = m.parent /\ n.attached = m.attached
        /\ n.proxied = m.proxied /\ n.prompted = m.prompted /\ n.asking = m.asking
        /\ \A t \in Sessions \ { s } : n.rows[t] = m.rows[t]
    BY <1>9
  <2> QED
    BY <1>13, <2>1, <2>2, <2>3, <2>4, <2>5, <2>6, <2>7, RowRight
<1>16. Steady(m, n)
  BY <1>9 DEF Steady
<1>17. ASSUME NEW t \in Sessions, Kept_(m, t) PROVE Kept_(n, t)
  <2>1. ChildrenOf(n, t) = ChildrenOf(m, t)
    BY <1>9 DEF ChildrenOf
  <2>2. m.rows[t] # << >> => n.rows[t] # << >>
    <3>1. w \in ToSet(r)
      BY <1>3
    <3>2. r # << >>
      BY <3>1, EmptyRow
    <3> QED
      BY <1>9, <3>2
  <2> QED
    BY <1>9, <1>17, <2>1, <2>2 DEF Kept_
<1> QED
  BY <1>13, <1>15, <1>16, <1>17 DEF KeptAll

LEMMA RaiseRowsRight ==
  ASSUME NEW m, NEW f, ModelRight(m, f), NEW w \in Windows, NEW n, n = RaiseRows(m, w)
  PROVE  /\ ModelRight(n, f) /\ Steady(m, n) /\ (KeptAll(m) => KeptAll(n))
         /\ \A t \in Sessions : Exists(n, t) <=> Exists(m, t)
<1>0. /\ m \in Model /\ m.rows \in [ Sessions -> Rows ] /\ m.attached \in SUBSET Sessions
      /\ m.parent \in [ Sessions -> Sessions \cup { None } ]
  BY ModelParts, ModelFields
<1>1. PICK R : R = [ s \in Sessions |-> Raised(m.rows[s], w) ]
  OBVIOUS
<1>2. PICK a : a = Raised(m.appRows, w)
  OBVIOUS
<1>3. PICK q : q = [ s \in Sessions |-> Raised(m.prompts[s], w) ]
  OBVIOUS
<1>4. \A s \in Sessions : /\ R[s] = Raised(m.rows[s], w) /\ q[s] = Raised(m.prompts[s], w)
                          /\ R[s] \in Rows /\ ToSet(R[s]) = ToSet(m.rows[s])
  BY <1>0, <1>1, <1>3, RaisedIs
<1>5. R \in [ Sessions -> Rows ]
  <2>1. \A s \in Sessions : Raised(m.rows[s], w) \in Rows
    BY <1>0, RaisedIs
  <2> QED
    BY <1>1, <2>1
<1>6. \A s \in Sessions : Comb(q[s], R, Below(m, s))
  <2> TAKE s \in Sessions
  <2>1. Comb(m.prompts[s], m.rows, Below(m, s))
    BY ModelParts
  <2>2. Below(m, s) \in SUBSET Sessions
    BY DEF Below
  <2>3. \A t \in Sessions : R[t] = Raised(m.rows[t], w)
    BY <1>4
  <2>4. Comb(Raised(m.prompts[s], w), R, Below(m, s))
    BY <1>0, <2>1, <2>2, <2>3, CombRaise
  <2> QED
    BY <1>4, <2>4
<1>7. Comb(a, R, m.attached)
  <2>1. Comb(m.appRows, m.rows, m.attached)
    BY ModelParts
  <2>2. \A t \in Sessions : R[t] = Raised(m.rows[t], w)
    BY <1>4
  <2> QED
    BY <1>0, <1>2, <2>1, <2>2, CombRaise
<1>8. a \in Seq(Windows) /\ q \in [ Sessions -> Seq(Windows) ]
  <2>1. a \in Seq(Windows) /\ \A s \in Sessions : q[s] \in Seq(Windows)
    BY <1>6, <1>7 DEF Comb
  <2>2. \A s \in Sessions : Raised(m.prompts[s], w) \in Seq(Windows)
    BY <1>4, <2>1
  <2> QED
    BY <1>3, <2>1, <2>2
<1>9. n = [ m EXCEPT !.rows = R, !.appRows = a, !.prompts = q ]
  BY <1>1, <1>2, <1>3 DEF RaiseRows
<1>10. /\ n \in Model /\ n.object = m.object /\ n.known = m.known /\ n.closing = m.closing
       /\ n.parent = m.parent /\ n.attached = m.attached /\ n.proxied = m.proxied
       /\ n.prompted = m.prompted /\ n.asking = m.asking
       /\ n.rows = R /\ n.appRows = a /\ n.prompts = q
  BY <1>0, <1>5, <1>8, <1>9 DEF Model
<1>11. \A s \in Sessions : /\ R[s] = << >> <=> m.rows[s] = << >>
                           /\ m.prompts[s] = << >> => q[s] = << >>
  <2>1. ASSUME NEW s \in Sessions, m.prompts[s] = << >> PROVE q[s] = << >>
    <3>1. q[s] = Raised(<< >>, w)
      BY <1>4, <2>1
    <3>2. Raised(<< >>, w) \in Rows /\ ToSet(Raised(<< >>, w)) = ToSet(<< >>)
      BY EmptyRow, RaisedIs
    <3> QED
      BY <3>1, <3>2, EmptyRow, NoElements
  <2>2. \A s \in Sessions : R[s] = << >> <=> m.rows[s] = << >>
    BY <1>0, <1>4, NoElements
  <2> QED
    BY <2>1, <2>2
<1>12. \A s \in Sessions : /\ Exists(n, s) <=> Exists(m, s)
                           /\ ChildrenOf(n, s) = ChildrenOf(m, s)
                           /\ Below(n, s) = Below(m, s) /\ Above(n, s) = Above(m, s)
  BY <1>10, SameFamily DEF Exists
<1>13. ASSUME NEW s \in Sessions PROVE SessionRight(n, f, s)
  <2>1. SessionRight(m, f, s)
    BY DEF ModelRight
  <2>2. ~ Exists(n, s) => NoTrace(n, s)
    BY <1>10, <1>11, <1>12, <2>1 DEF SessionRight, NoTrace
  <2>3. (n.parent[s] # None => Exists(n, n.parent[s])) /\ s \notin Above(n, s)
    BY <1>0, <1>10, <1>12, <2>1 DEF SessionRight
  <2>4. \A v \in ToSet(n.rows[s]) \cup n.closing[s] : f[v].session = s /\ f[v].ready
    BY <1>4, <1>10, <2>1 DEF SessionRight
  <2>5. Comb(n.prompts[s], n.rows, Below(n, s))
    BY <1>6, <1>10, <1>12
  <2> QED
    BY <2>2, <2>3, <2>4, <2>5 DEF SessionRight
<1>14. ModelRight(n, f)
  BY <1>7, <1>10, <1>13, ModelParts DEF ModelRight
<1>15. Steady(m, n)
  BY <1>10 DEF Steady
<1>16. KeptAll(m) => KeptAll(n)
  BY <1>10, <1>11, <1>12 DEF KeptAll, Kept_
<1> QED
  BY <1>12, <1>14, <1>15, <1>16

NoneLeft(m) ==
  \A t \in Sessions : ~ Exists(m, t) => t \notin m.known \cup m.attached \cup m.asking
AllRight(m, f) == \A s \in Sessions : SessionRight(m, f, s)

LEMMA SameKept ==
  ASSUME NEW m, NEW n, KeptAll(m), n.rows = m.rows, n.parent = m.parent,
         \A s \in Sessions : n.object[s] = m.object[s] \/ n.object[s] # "zombie"
  PROVE  KeptAll(n)
BY DEF KeptAll, Kept_, ChildrenOf

LEMMA SameSessions ==
  ASSUME NEW m, NEW f, ModelRight(m, f), NEW n \in Model,
         \A t \in Sessions : Exists(m, t) => Exists(n, t),
         n.rows = m.rows, n.closing = m.closing, n.parent = m.parent, n.prompts = m.prompts,
         NoneLeft(n)
  PROVE  AllRight(n, f)
<1>0. m \in Model /\ m.parent \in [ Sessions -> Sessions \cup { None } ]
  BY ModelParts, ModelFields
<1>1. \A s \in Sessions : Below(n, s) = Below(m, s) /\ Above(n, s) = Above(m, s)
  BY SameFamily
<1>2. ASSUME NEW s \in Sessions PROVE SessionRight(n, f, s)
  <2>1. SessionRight(m, f, s)
    BY DEF ModelRight
  <2>2. ~ Exists(n, s) => NoTrace(n, s)
    BY <2>1 DEF SessionRight, NoTrace, NoneLeft
  <2>3. (n.parent[s] # None => Exists(n, n.parent[s])) /\ s \notin Above(n, s)
    BY <1>0, <1>1, <2>1 DEF SessionRight
  <2> QED
    BY <1>1, <2>1, <2>2, <2>3 DEF SessionRight
<1> QED
  BY <1>2 DEF AllRight

LEMMA AttachRight ==
  ASSUME NEW m, NEW f, ModelRight(m, f), NEW s \in Sessions, Exists(m, s), s \notin m.attached,
         NEW n, n = Attach(m, s)
  PROVE  ModelRight(n, f) /\ n.object = m.object /\ n.parent = m.parent /\ (KeptAll(m) => KeptAll(n))
<1>0. /\ m \in Model /\ m.rows \in [ Sessions -> Rows ] /\ m.attached \in SUBSET Sessions
      /\ m.appRows \in Seq(Windows)
  BY ModelParts, ModelFields
<1>1. PICK a : a = m.rows[s] \o m.appRows
  OBVIOUS
<1>2. Comb(m.appRows, m.rows, m.attached)
  BY ModelParts
<1>3. ToSet(m.rows[s]) \cap ToSet(m.appRows) = {}
  <2>1. \A t \in m.attached : ToSet(m.rows[s]) \cap ToSet(m.rows[t]) = {}
    BY <1>0, Apart
  <2> QED
    BY <1>2, <2>1 DEF Comb
<1>4. Comb(a, m.rows, m.attached \cup { s })
  BY <1>0, <1>1, <1>2, <1>3, CombAdd
<1>5. a \in Seq(Windows)
  BY <1>4 DEF Comb
<1>b. PICK A \in SUBSET Sessions : A = m.attached \cup { s }
  BY <1>0
<1>6. n = [ m EXCEPT !.attached = A, !.appRows = a, !.proxied = s ]
  BY <1>0, <1>1, <1>b DEF Attach, SetSourceList, Model
<1>7. /\ n \in Model /\ n.object = m.object /\ n.known = m.known /\ n.rows = m.rows
      /\ n.closing = m.closing /\ n.parent = m.parent /\ n.prompts = m.prompts
      /\ n.attached = A /\ n.appRows = a /\ n.proxied = s
      /\ n.prompted = m.prompted /\ n.asking = m.asking
  BY <1>0, <1>5, <1>6 DEF Model
<1>8. \A t \in Sessions : Exists(n, t) <=> Exists(m, t)
  BY <1>7 DEF Exists
<1>9. NoneLeft(n)
  BY <1>7, <1>8, <1>b, HasExists DEF NoneLeft
<1>10. AllRight(n, f)
  BY <1>7, <1>8, <1>9, SameSessions
<1>c. KeptAll(m) => KeptAll(n)
  BY <1>7, SameKept
<1>11. Comb(n.appRows, n.rows, n.attached)
  BY <1>4, <1>7, <1>b
<1> QED
  BY <1>7, <1>10, <1>11, <1>b, <1>c, ModelParts DEF ModelRight, AllRight

Started(m, s) == [ m EXCEPT !.object[s] = "live", !.known = @ \cup { s } ]

LEMMA StartRight ==
  ASSUME NEW m, NEW f, ModelRight(m, f), NEW s \in Sessions, m.object[s] = "none",
         NEW n, n = Started(m, s)
  PROVE  /\ ModelRight(n, f) /\ (KeptAll(m) => KeptAll(n)) /\ Exists(n, s) /\ s \notin n.attached
         /\ n.parent = m.parent
         /\ \A t \in Sessions : (Exists(m, t) => Exists(n, t)) /\ (t # s => n.object[t] = m.object[t])
<1>0. m \in Model /\ m.object \in [ Sessions -> { "none", "live", "zombie", "doomed", "gone" } ]
  BY ModelParts, ModelFields
<1>1. PICK o \in [ Sessions -> { "none", "live", "zombie", "doomed", "gone" } ] :
        o = [ m.object EXCEPT ![s] = "live" ]
  BY <1>0
<1>z. m.known \in SUBSET Sessions
  BY <1>0, ModelFields
<1>a. PICK K \in SUBSET Sessions : K = m.known \cup { s }
  BY <1>z
<1>2. n = [ m EXCEPT !.object = o, !.known = K ]
  BY <1>0, <1>1, <1>a DEF Model, Started
<1>3. /\ n \in Model /\ n.object = o /\ n.known = K /\ n.rows = m.rows
      /\ n.closing = m.closing /\ n.parent = m.parent /\ n.prompts = m.prompts
      /\ n.attached = m.attached /\ n.appRows = m.appRows /\ n.proxied = m.proxied
      /\ n.prompted = m.prompted /\ n.asking = m.asking
  BY <1>0, <1>2 DEF Model
<1>4. n.object[s] = "live" /\ \A t \in Sessions \ { s } : n.object[t] = m.object[t]
  BY <1>0, <1>1, <1>3
<1>5. Exists(n, s) /\ ~ Exists(m, s) /\ \A t \in Sessions : Exists(m, t) => Exists(n, t)
  BY <1>4 DEF Exists
<1>6. \A t \in Sessions \ { s } : Exists(m, t) <=> Exists(n, t)
  BY <1>4 DEF Exists
<1>7. NoneLeft(n)
  BY <1>3, <1>5, <1>6, <1>a, HasExists DEF NoneLeft
<1>8. \A t \in Sessions : n.object[t] = m.object[t] \/ n.object[t] # "zombie"
  BY <1>4
<1>9. AllRight(n, f)
  BY <1>3, <1>5, <1>7, SameSessions
<1>b. KeptAll(m) => KeptAll(n)
  BY <1>3, <1>8, SameKept
<1>10. s \notin n.attached
  BY <1>3, <1>5, HasExists
<1> QED
  BY <1>3, <1>4, <1>5, <1>9, <1>10, <1>b, ModelParts DEF ModelRight, AllRight

LEMMA DiedRight ==
  ASSUME NEW m, NEW f, ModelRight(m, f), NEW s \in Sessions, NEW n, n = Died(m, s)
  PROVE  ModelRight(n, f) /\ Steady(m, n) /\ (KeptAll(m) => KeptAll(n))
         /\ \A t \in Sessions : Exists(n, t) <=> Exists(m, t)
<1>0. m \in Model /\ m.object \in [ Sessions -> { "none", "live", "zombie", "doomed", "gone" } ]
  BY ModelParts, ModelFields
<1>1. CASE m.object[s] # "live"
  <2>1. n = m
    BY <1>1 DEF Died
  <2> QED
    BY <2>1 DEF Steady
<1>2. CASE m.object[s] = "live"
  <2>1. PICK o \in [ Sessions -> { "none", "live", "zombie", "doomed", "gone" } ] :
          o = [ m.object EXCEPT ![s] = "zombie" ]
    BY <1>0
  <2>a. PICK S \in SUBSET Sessions : S = m.stopped \cup { s }
    BY <1>0, ModelFields
  <2>2. PICK d : d = [ m EXCEPT !.object = o, !.stopped = S ]
    OBVIOUS
  <2>3. n = DeleteIfZombieAndEmpty(d, s)
    BY <1>0, <1>2, <2>1, <2>2, <2>a DEF Died, Model
  <2>4. /\ d \in Model /\ d.object = o /\ d.known = m.known /\ d.rows = m.rows
        /\ d.closing = m.closing /\ d.parent = m.parent /\ d.prompts = m.prompts
        /\ d.attached = m.attached /\ d.appRows = m.appRows /\ d.proxied = m.proxied
        /\ d.prompted = m.prompted /\ d.asking = m.asking
    BY <1>0, <2>1, <2>2, <2>a DEF Model
  <2>5. o[s] = "zombie" /\ \A t \in Sessions \ { s } : o[t] = m.object[t]
    BY <1>0, <2>1
  <2>6. \A t \in Sessions : Exists(d, t) <=> Exists(m, t)
    BY <1>2, <2>4, <2>5 DEF Exists
  <2>7. Alike(m, d) /\ Steady(m, d)
    BY <1>2, <2>4, <2>5, <2>6 DEF Alike, Steady
  <2>8. ModelRight(d, f)
    BY <2>7, AlikeRight
  <2>9. /\ Alike(d, n) /\ Steady(d, n)
        /\ (\A t \in Sessions \ { s } : Kept_(d, t)) => KeptAll(n)
    BY <2>3, <2>4, DeleteIf
  <2>10. ModelRight(n, f)
    BY <2>8, <2>9, AlikeRight
  <2>11. KeptAll(m) => \A t \in Sessions \ { s } : Kept_(d, t)
    BY <2>4, <2>5 DEF KeptAll, Kept_, ChildrenOf
  <2>12. Steady(m, n) /\ \A t \in Sessions : Exists(n, t) <=> Exists(m, t)
    BY <2>6, <2>7, <2>9 DEF Steady, Alike
  <2> QED
    BY <2>9, <2>10, <2>11, <2>12
<1> QED
  BY <1>1, <1>2

(* A prompt session or the task controller forgets, a session stops; the    *)
(* rest is the same.                                                        *)
Forgotten(m, K, A, x, S) == [ m EXCEPT !.known = K, !.asking = A, !.prompted = x, !.stopped = S ]

LEMMA ForgetRight ==
  ASSUME NEW m, NEW f, ModelRight(m, f), NEW K \in SUBSET m.known, NEW A \in SUBSET Sessions,
         \A t \in A : Exists(m, t), NEW x \in SUBSET A, NEW S \in SUBSET Sessions,
         NEW n, n = Forgotten(m, K, A, x, S)
  PROVE  /\ ModelRight(n, f) /\ (KeptAll(m) => KeptAll(n))
         /\ n.object = m.object /\ n.known = K /\ n.rows = m.rows
         /\ n.closing = m.closing /\ n.parent = m.parent /\ n.prompts = m.prompts
         /\ n.attached = m.attached /\ n.appRows = m.appRows /\ n.proxied = m.proxied
         /\ n.prompted = x /\ n.asking = A /\ n.stopped = S
<1>0. m \in Model /\ m.known \in SUBSET Sessions /\ K \in SUBSET Sessions /\ x \in SUBSET Sessions
  BY ModelParts, ModelFields
<1>1. /\ n \in Model /\ n.object = m.object /\ n.known = K /\ n.rows = m.rows
      /\ n.closing = m.closing /\ n.parent = m.parent /\ n.prompts = m.prompts
      /\ n.attached = m.attached /\ n.appRows = m.appRows /\ n.proxied = m.proxied
      /\ n.prompted = x /\ n.asking = A /\ n.stopped = S
  BY <1>0 DEF Model, Forgotten
<1>2. \A t \in Sessions : Exists(n, t) <=> Exists(m, t)
  BY <1>1 DEF Exists
<1>3. NoneLeft(n)
  BY <1>1, <1>2, HasExists DEF NoneLeft
<1>4. AllRight(n, f)
  BY <1>1, <1>2, <1>3, SameSessions
<1>5. KeptAll(m) => KeptAll(n)
  BY <1>1, SameKept
<1> QED
  BY <1>1, <1>4, <1>5, ModelParts DEF ModelRight, AllRight

(* The same sessions and lists, but for what is known, asked for, stopped.  *)
SameLists(m, n) ==
  /\ n.object = m.object /\ n.rows = m.rows /\ n.closing = m.closing /\ n.parent = m.parent
  /\ n.prompts = m.prompts /\ n.attached = m.attached /\ n.appRows = m.appRows
  /\ n.proxied = m.proxied

LEMMA PromptsStoppedRight ==
  ASSUME NEW m, NEW f, ModelRight(m, f), NEW askers, NEW n, n = PromptsStopped(m, askers)
  PROVE  /\ ModelRight(n, f) /\ (KeptAll(m) => KeptAll(n)) /\ SameLists(m, n)
         /\ n.known = m.known /\ n.stopped = m.stopped
         /\ n.prompted = m.prompted \ askers /\ n.asking = m.asking \ (askers \cap m.known)
<1>0. /\ m \in Model /\ m.asking \in SUBSET Sessions /\ m.prompted \in SUBSET Sessions
      /\ m.stopped \in SUBSET Sessions
  BY ModelParts, ModelFields
<1>1. PICK A \in SUBSET Sessions : A = m.asking \ (askers \cap m.known)
  BY <1>0
<1>2. PICK x : x = m.prompted \ askers
  OBVIOUS
<1>3. x \in SUBSET A
  BY <1>1, <1>2, ModelParts
<1>4. n = Forgotten(m, m.known, A, x, m.stopped)
  BY <1>0, <1>1, <1>2 DEF PromptsStopped, Forgotten, Model
<1>5. \A t \in A : Exists(m, t)
  BY <1>1, HasExists
<1> QED
  BY <1>0, <1>1, <1>2, <1>3, <1>4, <1>5, ForgetRight DEF SameLists

LEMMA StopPromptsRight ==
  ASSUME NEW m, NEW f, ModelRight(m, f), NEW s, NEW n, n = StopPromptSessions(m, s)
  PROVE  /\ ModelRight(n, f) /\ (KeptAll(m) => KeptAll(n)) /\ SameLists(m, n)
         /\ n.known = m.known /\ n.stopped = m.stopped
         /\ n.prompted \cap ({ s } \cup Below(m, s)) = {} /\ n.prompted \subseteq n.asking
         /\ n.asking \subseteq m.asking
<1>1. PICK D : D = m.asking \cap ({ s } \cup Below(m, s))
  OBVIOUS
<1>2. /\ ModelRight(n, f) /\ (KeptAll(m) => KeptAll(n)) /\ SameLists(m, n)
      /\ n.known = m.known /\ n.stopped = m.stopped
      /\ n.prompted = m.prompted \ D /\ n.asking = m.asking \ (D \cap m.known)
  BY <1>1, PromptsStoppedRight DEF StopPromptSessions
<1>3. m.prompted \subseteq m.asking /\ n.prompted \subseteq n.asking
  BY <1>2, ModelParts
<1> QED
  BY <1>1, <1>2, <1>3

LEMMA StopRight ==
  ASSUME NEW m, NEW f, ModelRight(m, f), NEW s \in Sessions, NEW n, n = Stop(m, s)
  PROVE  ModelRight(n, f) /\ (KeptAll(m) => KeptAll(n)) /\ SameLists(m, n) /\ n.known = m.known
<1>1. CASE s \in m.stopped
  BY <1>1 DEF Stop, SameLists
<1>2. CASE s \notin m.stopped
  <2>1. PICK d : d = StopPromptSessions(m, s)
    OBVIOUS
  <2>2. /\ ModelRight(d, f) /\ (KeptAll(m) => KeptAll(d)) /\ SameLists(m, d)
        /\ d.known = m.known /\ d.stopped = m.stopped
    BY <2>1, StopPromptsRight
  <2>3. PICK N : N = { b \in { s } \cup Below(m, s) :
          \A a \in { b } \cup Above(m, b) : a \in Below(m, s) => a \notin m.stopped }
    OBVIOUS
  <2>4. d \in Model /\ d.stopped \in SUBSET Sessions /\ d.asking \in SUBSET Sessions
    BY <2>2, ModelParts, ModelFields
  <2>5. N \subseteq Sessions
    BY <2>3 DEF Below
  <2>6. PICK S \in SUBSET Sessions : S = d.stopped \cup N
    BY <2>4, <2>5
  <2>7. n = [ d EXCEPT !.stopped = S ]
    BY <1>2, <2>1, <2>3, <2>4, <2>6 DEF Stop, Model
  <2>8. n = Forgotten(d, d.known, d.asking, d.prompted, S)
    BY <2>4, <2>7 DEF Forgotten, Model
  <2>9. d.prompted \in SUBSET d.asking /\ \A t \in d.asking : Exists(d, t)
    BY <2>2, <2>4, ModelParts, HasExists
  <2>10. ModelRight(n, f) /\ (KeptAll(d) => KeptAll(n)) /\ SameLists(d, n) /\ n.known = d.known
    BY <2>2, <2>4, <2>8, <2>9, ForgetRight DEF SameLists
  <2> QED
    BY <2>2, <2>10 DEF SameLists
<1> QED
  BY <1>1, <1>2

(* The child and all below it are below its parent and all above that.      *)
Adopts(m, n, s, c) ==
  /\ \A x \in Sessions : Above(n, x) =
       IF x = c \/ c \in Above(m, x) THEN Above(m, x) \cup { s } \cup Above(m, s) ELSE Above(m, x)
  /\ \A y \in Sessions : Below(n, y) =
       IF y \in { s } \cup Above(m, s) THEN Below(m, y) \cup { c } \cup Below(m, c)
       ELSE Below(m, y)

LEMMA AdoptedFamily ==
  ASSUME NEW m \in Model, NEW n \in Model, NEW s \in Sessions, NEW c \in Sessions,
         m.parent[c] = None, c \notin { s } \cup Above(m, s),
         n.parent[c] = s, \A t \in Sessions \ { c } : n.parent[t] = m.parent[t]
  PROVE  /\ Adopts(m, n, s, c)
         /\ \A x \in Sessions : x \notin Above(m, x) => x \notin Above(n, x)
         /\ \A y \in { s } \cup Above(m, s) :
              y \in Sessions /\ Below(m, y) \cap ({ c } \cup Below(m, c)) = {}
<1>0. m.parent \in Parents /\ n.parent \in Parents
  BY Family
<1>1. Adopts(m, n, s, c)
  <2>1. c \notin { s } \cup AboveIn(m.parent, s)
    BY DEF Above
  <2>2. /\ \A x \in Sessions : AboveIn(n.parent, x) =
             IF x = c \/ c \in AboveIn(m.parent, x)
               THEN AboveIn(m.parent, x) \cup { s } \cup AboveIn(m.parent, s)
               ELSE AboveIn(m.parent, x)
        /\ \A y \in Sessions : UnderIn(n.parent, y) =
             IF y \in { s } \cup AboveIn(m.parent, s)
               THEN UnderIn(m.parent, y) \cup { c } \cup UnderIn(m.parent, c)
               ELSE UnderIn(m.parent, y)
    <3>1. PICK P \in Parents : P = m.parent
      BY <1>0
    <3>2. PICK Q \in Parents : Q = n.parent
      BY <1>0
    <3>3. /\ P[c] = None /\ c \notin { s } \cup AboveIn(P, s)
          /\ Q[c] = s /\ \A d \in Sessions \ { c } : Q[d] = P[d]
      BY <2>1, <3>1, <3>2
    <3>4. /\ \A x \in Sessions : AboveIn(Q, x) =
               IF x = c \/ c \in AboveIn(P, x) THEN AboveIn(P, x) \cup { s } \cup AboveIn(P, s)
               ELSE AboveIn(P, x)
          /\ \A y \in Sessions : UnderIn(Q, y) =
               IF y \in { s } \cup AboveIn(P, s) THEN UnderIn(P, y) \cup { c } \cup UnderIn(P, c)
               ELSE UnderIn(P, y)
      BY <3>3, AboveGrown
    <3> QED
      BY <3>1, <3>2, <3>4
  <2>3. \A x \in Sessions : /\ Below(m, x) = UnderIn(m.parent, x) /\ Above(m, x) = AboveIn(m.parent, x)
                            /\ Below(n, x) = UnderIn(n.parent, x) /\ Above(n, x) = AboveIn(n.parent, x)
    BY Family
  <2> QED
    BY <2>2, <2>3 DEF Adopts
<1>2. Above(m, c) = {}
  BY AboveSome DEF Above
<1>3. \A x \in Sessions : \A a \in Above(m, x) : a \in Sessions /\ Above(m, a) \subseteq Above(m, x)
  BY <1>0, AboveTrans, AboveSome DEF Above
<1>4. ASSUME NEW x \in Sessions, x \notin Above(m, x) PROVE x \notin Above(n, x)
  <2>1. CASE x = c
    BY <1>1, <1>2, <2>1 DEF Adopts
  <2>2. CASE x # c /\ c \in Above(m, x)
    <3>1. x # s /\ x \notin Above(m, s)
      BY <1>3, <2>2
    <3> QED
      BY <1>1, <1>4, <2>2, <3>1 DEF Adopts
  <2>3. CASE x # c /\ c \notin Above(m, x)
    BY <1>1, <1>4, <2>3 DEF Adopts
  <2> QED
    BY <2>1, <2>2, <2>3
<1>5. ASSUME NEW y \in { s } \cup Above(m, s)
      PROVE  y \in Sessions /\ Below(m, y) \cap ({ c } \cup Below(m, c)) = {}
  <2>1. y \in Sessions /\ (y = s \/ y \in Above(m, s))
    BY <1>3
  <2>2. c \notin Below(m, y)
    BY <1>2, <2>1, Family
  <2>3. ASSUME NEW d \in Below(m, y), d \in Below(m, c) PROVE FALSE
    <3>1. d \in Sessions /\ y \in Above(m, d) /\ c \in Above(m, d)
      BY <2>1, <2>3, Family
    <3>2. y = c \/ y \in Above(m, c) \/ c \in Above(m, y)
      BY <1>0, <3>1, AboveLinear DEF Above
    <3>3. c \notin { y } \cup Above(m, y)
      BY <1>3, <2>1
    <3> QED
      BY <1>2, <3>2, <3>3
  <2> QED
    BY <2>1, <2>2, <2>3
<1> QED
  BY <1>1, <1>4, <1>5

LEMMA AddChildRight ==
  ASSUME NEW m, NEW f, ModelRight(m, f), NEW s \in Sessions, NEW c \in Sessions,
         Exists(m, s), Exists(m, c), c \notin { s } \cup Above(m, s), m.parent[c] = None,
         NEW n, n = AddChild(m, s, c)
  PROVE  /\ ModelRight(n, f) /\ (KeptAll(m) => KeptAll(n)) /\ n.object = m.object
         /\ n.parent[c] = s /\ \A t \in Sessions \ { c } : n.parent[t] = m.parent[t]
<1>0. /\ m \in Model /\ m.rows \in [ Sessions -> Rows ]
      /\ m.prompts \in [ Sessions -> Seq(Windows) ]
      /\ m.parent \in [ Sessions -> Sessions \cup { None } ]
  BY ModelParts, ModelFields
<1>1. PICK k : k = m.prompts[c] \o m.rows[c]
  OBVIOUS
<1>2. \A t \in Sessions : Comb(m.prompts[t], m.rows, Below(m, t)) /\ Below(m, t) \in SUBSET Sessions
  <2>1. \A t \in Sessions : Comb(m.prompts[t], m.rows, Below(m, t))
    BY ModelParts
  <2>2. \A t \in Sessions : Below(m, t) \in SUBSET Sessions
    BY DEF Below
  <2> QED
    BY <2>1, <2>2
<1>3. c \notin Below(m, c)
  BY <1>0, ModelParts, Family
<1>4. Comb(k, m.rows, Below(m, c) \cup { c }) /\ k \in Seq(Windows)
  <2>1. \A t \in Below(m, c) : ToSet(m.rows[t]) \cap ToSet(m.rows[c]) = {}
    BY <1>2, <1>3, Apart
  <2>2. ToSet(m.prompts[c]) \cap ToSet(m.rows[c]) = {}
    BY <1>2, <2>1 DEF Comb
  <2>3. Comb(m.rows[c], m.rows, { c }) /\ Comb(m.prompts[c], m.rows, Below(m, c))
    BY <1>0, <1>2, CombOne
  <2>4. Comb(k, m.rows, Below(m, c) \cup { c })
    BY <1>1, <2>2, <2>3, CombJoin
  <2> QED
    BY <2>4 DEF Comb
<1>5. PICK P : P = [ m.parent EXCEPT ![c] = s ]
  OBVIOUS
<1>6. /\ P \in [ Sessions -> Sessions \cup { None } ]
      /\ P[c] = s /\ \A t \in Sessions \ { c } : P[t] = m.parent[t]
  BY <1>0, <1>5
<1>7. PICK q : q = [ p \in Sessions |-> IF p \in { s } \cup Above(m, s)
                        THEN m.prompts[c] \o m.rows[c] \o m.prompts[p] ELSE m.prompts[p] ]
  OBVIOUS
<1>8. \A p \in Sessions : q[p] = IF p \in { s } \cup Above(m, s) THEN k \o m.prompts[p]
                                                                 ELSE m.prompts[p]
  BY <1>1, <1>7
<1>9. q \in PromptLists
  <2>1. \A p \in Sessions : k \o m.prompts[p] \in Seq(Windows) /\ m.prompts[p] \in Seq(Windows)
    BY <1>0, <1>4
  <2>2. q = [ p \in Sessions |-> IF p \in { s } \cup Above(m, s) THEN k \o m.prompts[p]
                                                                ELSE m.prompts[p] ]
    BY <1>1, <1>7
  <2> QED
    BY <2>1, <2>2 DEF PromptLists
<1>10. PICK d : d = [ m EXCEPT !.parent = P, !.prompts = q ]
  OBVIOUS
<1>11. n = IF s \in m.stopped THEN Stop(d, c) ELSE d
  BY <1>0, <1>5, <1>7, <1>10 DEF AddChild
<1>12. /\ d \in Model /\ d.object = m.object /\ d.known = m.known /\ d.rows = m.rows
       /\ d.closing = m.closing /\ d.parent = P /\ d.prompts = q
       /\ d.attached = m.attached /\ d.appRows = m.appRows /\ d.proxied = m.proxied
       /\ d.prompted = m.prompted /\ d.asking = m.asking
  BY <1>0, <1>6, <1>9, <1>10 DEF Model, PromptLists
<1>13. \A t \in Sessions : Exists(d, t) <=> Exists(m, t)
  BY <1>12 DEF Exists
<1>14. /\ Adopts(m, d, s, c)
       /\ \A x \in Sessions : x \notin Above(m, x) => x \notin Above(d, x)
       /\ \A y \in { s } \cup Above(m, s) :
            y \in Sessions /\ Below(m, y) \cap ({ c } \cup Below(m, c)) = {}
  BY <1>0, <1>6, <1>12, AdoptedFamily
<1>15. ASSUME NEW t \in { s } \cup Above(m, s)
       PROVE  Comb(k \o m.prompts[t], m.rows, Below(m, t) \cup { c } \cup Below(m, c))
  <2>0. t \in Sessions /\ Below(m, t) \cap ({ c } \cup Below(m, c)) = {}
    BY <1>14
  <2>1. \A x \in { c } \cup Below(m, c), y \in Below(m, t) : ToSet(m.rows[x]) \cap ToSet(m.rows[y]) = {}
    BY <1>2, <2>0, Apart
  <2>2. ToSet(k) \cap ToSet(m.prompts[t]) = {}
    <3>1. ToSet(k) = UNION { ToSet(m.rows[x]) : x \in Below(m, c) \cup { c } }
      BY <1>4 DEF Comb
    <3>2. ToSet(m.prompts[t]) = UNION { ToSet(m.rows[y]) : y \in Below(m, t) }
      BY <1>2, <2>0 DEF Comb
    <3> QED
      BY <2>1, <3>1, <3>2
  <2>3. Comb(k \o m.prompts[t], m.rows, (Below(m, c) \cup { c }) \cup Below(m, t))
    BY <1>2, <1>4, <2>0, <2>2, CombJoin
  <2>4. (Below(m, c) \cup { c }) \cup Below(m, t) = Below(m, t) \cup { c } \cup Below(m, c)
    OBVIOUS
  <2> QED
    BY <2>3, <2>4
<1>16. ASSUME NEW t \in Sessions PROVE SessionRight(d, f, t)
  <2>1. SessionRight(m, f, t)
    BY DEF ModelRight
  <2>2. ~ Exists(d, t) => NoTrace(d, t)
    <3>1. t # s /\ t # c /\ t \notin Above(m, s) => (NoTrace(m, t) => NoTrace(d, t))
      BY <1>6, <1>8, <1>12 DEF NoTrace
    <3>2. \A a \in Above(m, s) : Exists(m, a)
      BY FamilyExists
    <3> QED
      BY <1>13, <2>1, <3>1, <3>2 DEF SessionRight
  <2>3. d.parent[t] # None => Exists(d, d.parent[t])
    <3>1. CASE t = c
      BY <1>6, <1>12, <1>13, <3>1
    <3>2. CASE t # c
      BY <1>0, <1>6, <1>12, <1>13, <2>1, <3>2 DEF SessionRight
    <3> QED
      BY <3>1, <3>2
  <2>4. Comb(d.prompts[t], d.rows, Below(d, t))
    <3>1. CASE t \in { s } \cup Above(m, s)
      <4>1. Below(d, t) = Below(m, t) \cup { c } \cup Below(m, c)
        BY <1>14, <3>1 DEF Adopts
      <4> QED
        BY <1>8, <1>12, <1>15, <3>1, <4>1
    <3>2. CASE t \notin { s } \cup Above(m, s)
      <4>1. Below(d, t) = Below(m, t)
        BY <1>14, <3>2 DEF Adopts
      <4> QED
        BY <1>2, <1>8, <1>12, <3>2, <4>1
    <3> QED
      BY <3>1, <3>2
  <2>5. t \notin Above(d, t)
    BY <1>14, <2>1 DEF SessionRight
  <2> QED
    BY <1>12, <2>1, <2>2, <2>3, <2>4, <2>5 DEF SessionRight
<1>17. KeptAll(m) => KeptAll(d)
  <2>1. \A t \in Sessions : ChildrenOf(m, t) # {} => ChildrenOf(d, t) # {}
    <3>1. \A t, b \in Sessions : m.parent[b] = t => d.parent[b] = t
      BY <1>6, <1>12, NoneApart
    <3> QED
      BY <3>1 DEF ChildrenOf
  <2> QED
    BY <1>12, <2>1 DEF KeptAll, Kept_
<1>18. ModelRight(d, f)
  BY <1>12, <1>16, ModelParts DEF ModelRight
<1>19. CASE s \in m.stopped
  <2>1. n = Stop(d, c)
    BY <1>11, <1>19
  <2>2. ModelRight(n, f) /\ (KeptAll(d) => KeptAll(n)) /\ SameLists(d, n)
    BY <1>18, <2>1, StopRight
  <2> QED
    BY <1>6, <1>12, <1>17, <2>2 DEF SameLists
<1>20. CASE s \notin m.stopped
  BY <1>6, <1>11, <1>12, <1>17, <1>18, <1>20
<1> QED
  BY <1>19, <1>20

(* What is left of the sessions when some of them are gone.                 *)
IsGone(m, D, K, n) ==
  /\ n.object = [ t \in Sessions |-> IF t \in D THEN "gone" ELSE m.object[t] ]
  /\ n.known = m.known \ D
  /\ n.rows = [ t \in Sessions |-> IF t \in D THEN << >> ELSE m.rows[t] ]
  /\ n.closing = [ t \in Sessions |-> IF t \in D THEN {} ELSE m.closing[t] ]
  /\ n.parent = [ t \in Sessions |-> IF t \in D THEN None ELSE m.parent[t] ]
  /\ n.prompts = [ p \in Sessions |-> IF p \in D THEN << >> ELSE Without(m.prompts[p], K) ]
  /\ n.attached = m.attached \ D
  /\ n.appRows = Without(m.appRows, K)
  /\ n.proxied = (IF D \cap m.attached = {} THEN m.proxied ELSE None)

LEMMA GoneIs ==
  ASSUME NEW m \in Model, NEW D \in SUBSET Sessions, NEW n, n = Gone(m, D)
  PROVE  /\ n \in Model /\ IsGone(m, D, UNION { ToSet(m.rows[d]) : d \in D }, n)
         /\ n.prompted = m.prompted /\ n.asking = m.asking \ D
<1>a. PICK K : K = UNION { ToSet(m.rows[d]) : d \in D }
  OBVIOUS
<1>1. PICK o : o = [ t \in Sessions |-> IF t \in D THEN "gone" ELSE m.object[t] ]
  OBVIOUS
<1>2. PICK R : R = [ t \in Sessions |-> IF t \in D THEN << >> ELSE m.rows[t] ]
  OBVIOUS
<1>3. PICK C : C = [ t \in Sessions |-> IF t \in D THEN {} ELSE m.closing[t] ]
  OBVIOUS
<1>4. PICK P : P = [ t \in Sessions |-> IF t \in D THEN None ELSE m.parent[t] ]
  OBVIOUS
<1>5. PICK q : q = [ p \in Sessions |-> IF p \in D THEN << >> ELSE Without(m.prompts[p], K) ]
  OBVIOUS
<1>6. PICK a : a = Without(m.appRows, K)
  OBVIOUS
<1>7. PICK x : x = IF D \cap m.attached = {} THEN m.proxied ELSE None
  OBVIOUS
<1>8. PICK k, A, I, S : /\ k = m.known \ D /\ A = m.attached \ D
                        /\ I = m.asking \ D /\ S = m.stopped \ D
  OBVIOUS
<1>9. n = [ m EXCEPT !.object = o, !.known = k, !.rows = R, !.closing = C, !.parent = P,
                     !.prompts = q, !.attached = A, !.appRows = a, !.proxied = x,
                     !.asking = I, !.stopped = S ]
  BY <1>a, <1>1, <1>2, <1>3, <1>4, <1>5, <1>6, <1>7, <1>8, Zenon DEF Gone
<1>10. /\ m.object \in [ Sessions -> { "none", "live", "zombie", "doomed", "gone" } ]
       /\ m.rows \in [ Sessions -> Rows ] /\ m.closing \in [ Sessions -> SUBSET Windows ]
       /\ m.parent \in [ Sessions -> Sessions \cup { None } ]
       /\ m.prompts \in [ Sessions -> Seq(Windows) ]
  BY ModelFields
<1>11. /\ o \in [ Sessions -> { "none", "live", "zombie", "doomed", "gone" } ]
       /\ C \in [ Sessions -> SUBSET Windows ] /\ P \in [ Sessions -> Sessions \cup { None } ]
  BY <1>1, <1>3, <1>4, <1>10
<1>12. R \in [ Sessions -> Rows ]
  BY <1>2, <1>10, EmptyRow
<1>13. q \in [ Sessions -> Seq(Windows) ]
  <2>1. \A p \in Sessions : Without(m.prompts[p], K) \in Seq(Windows) /\ << >> \in Seq(Windows)
    BY <1>10, Without_
  <2> QED
    BY <1>5, <2>1
<1>14. /\ m.known \in SUBSET Sessions /\ m.attached \in SUBSET Sessions
       /\ m.asking \in SUBSET Sessions /\ m.stopped \in SUBSET Sessions
       /\ m.appRows \in Seq(Windows) /\ m.proxied \in Sessions \cup { None }
       /\ m.prompted \in SUBSET Sessions
  BY ModelFields
<1>15. /\ k \in SUBSET Sessions /\ A \in SUBSET Sessions /\ I \in SUBSET Sessions
       /\ S \in SUBSET Sessions /\ a \in Seq(Windows) /\ x \in Sessions \cup { None }
  BY <1>6, <1>7, <1>8, <1>14, Without_
<1>16. n = [ object |-> o, known |-> k, rows |-> R, closing |-> C, parent |-> P, prompts |-> q,
             attached |-> A, appRows |-> a, proxied |-> x, prompted |-> m.prompted,
             asking |-> I, stopped |-> S ]
  BY <1>9 DEF Model
<1>17. /\ n.object = o /\ n.known = k /\ n.rows = R /\ n.closing = C /\ n.parent = P
       /\ n.prompts = q /\ n.attached = A /\ n.appRows = a /\ n.proxied = x
       /\ n.prompted = m.prompted /\ n.asking = I
  BY <1>16
<1>18. n \in Model
  BY <1>11, <1>12, <1>13, <1>14, <1>15, <1>16 DEF Model
<1>19. IsGone(m, D, K, n)
  <2>1. /\ n.object = [ t \in Sessions |-> IF t \in D THEN "gone" ELSE m.object[t] ]
        /\ n.rows = [ t \in Sessions |-> IF t \in D THEN << >> ELSE m.rows[t] ]
        /\ n.closing = [ t \in Sessions |-> IF t \in D THEN {} ELSE m.closing[t] ]
        /\ n.parent = [ t \in Sessions |-> IF t \in D THEN None ELSE m.parent[t] ]
    BY <1>1, <1>2, <1>3, <1>4, <1>17
  <2>2. /\ n.prompts = [ p \in Sessions |-> IF p \in D THEN << >> ELSE Without(m.prompts[p], K) ]
        /\ n.known = m.known \ D /\ n.attached = m.attached \ D
        /\ n.appRows = Without(m.appRows, K)
        /\ n.proxied = (IF D \cap m.attached = {} THEN m.proxied ELSE None)
    BY <1>5, <1>6, <1>7, <1>8, <1>17
  <2> QED
    BY <2>1, <2>2 DEF IsGone
<1> QED
  BY <1>a, <1>8, <1>17, <1>18, <1>19

LEMMA GoneRight ==
  ASSUME NEW m, NEW f, ModelRight(m, f), NEW s \in Sessions, Exists(m, s),
         NEW D \in SUBSET Sessions, D = { s } \cup Below(m, s), m.prompted \cap D = {},
         NEW g, g = Gone(m, D)
  PROVE  /\ ModelRight(g, f) /\ Steady(m, g) /\ g \in Model
         /\ \A t \in Sessions : g.object[t] = "none" => m.object[t] = "none"
         /\ KeptAll(m) => \A t \in Sessions : t # m.parent[s] => Kept_(g, t)
<1>0. /\ m \in Model /\ m.rows \in [ Sessions -> Rows ] /\ m.attached \in SUBSET Sessions
      /\ m.parent \in Parents
  BY ModelParts, ModelFields, Family
<1>2. PICK K : K = UNION { ToSet(m.rows[d]) : d \in D }
  OBVIOUS
<1>7. /\ g \in Model /\ IsGone(m, D, K, g) /\ g.prompted = m.prompted /\ g.asking = m.asking \ D
  BY <1>0, <1>2, GoneIs
<1>8. /\ \A t \in Sessions \cap D : /\ g.object[t] = "gone" /\ g.rows[t] = << >> /\ g.closing[t] = {}
                                    /\ g.parent[t] = None /\ g.prompts[t] = << >>
      /\ \A t \in Sessions \ D : /\ g.object[t] = m.object[t] /\ g.rows[t] = m.rows[t]
                                 /\ g.closing[t] = m.closing[t] /\ g.parent[t] = m.parent[t]
                                 /\ g.prompts[t] = Without(m.prompts[t], K)
  <2>1. \A t \in Sessions : g.object[t] = IF t \in D THEN "gone" ELSE m.object[t]
    BY <1>7 DEF IsGone
  <2>2. \A t \in Sessions : g.rows[t] = IF t \in D THEN << >> ELSE m.rows[t]
    BY <1>7 DEF IsGone
  <2>3. \A t \in Sessions : g.closing[t] = IF t \in D THEN {} ELSE m.closing[t]
    BY <1>7 DEF IsGone
  <2>4. \A t \in Sessions : g.parent[t] = IF t \in D THEN None ELSE m.parent[t]
    BY <1>7 DEF IsGone
  <2>5. \A t \in Sessions : g.prompts[t] = IF t \in D THEN << >> ELSE Without(m.prompts[t], K)
    BY <1>7 DEF IsGone
  <2> QED
    BY <2>1, <2>2, <2>3, <2>4, <2>5
<1>9. \A t \in Sessions : Exists(g, t) <=> (Exists(m, t) /\ t \notin D)
  BY <1>8 DEF Exists
<1>10. /\ \A x \in Sessions : Above(g, x) = IF x \in D THEN {} ELSE Above(m, x)
       /\ \A x \in Sessions \ D : Above(m, x) \cap D = {}
       /\ \A y \in Sessions : Below(g, y) = Below(m, y) \ D
  <2>1. PICK P \in Parents : P = m.parent
    BY <1>0
  <2>2. PICK Q \in Parents : Q = g.parent
    BY <1>7, Family
  <2>3. \A t \in Sessions : Q[t] = IF t \in D THEN None ELSE P[t]
    BY <1>8, <2>1, <2>2
  <2>4. D = { s } \cup UnderIn(P, s)
    BY <1>0, <2>1, Family
  <2>5. Parted(P, Q, D)
    BY <2>3, <2>4, AboveCut
  <2>6. \A x \in Sessions : /\ Above(m, x) = AboveIn(P, x) /\ Above(g, x) = AboveIn(Q, x)
                            /\ Below(m, x) = UnderIn(P, x) /\ Below(g, x) = UnderIn(Q, x)
    BY <1>0, <1>7, <2>1, <2>2, Family
  <2> QED
    BY <2>5, <2>6 DEF Parted
<1>11. \A t \in Sessions \ D : m.parent[t] # None => m.parent[t] \in Sessions \ D
  <2>1. \A t \in Sessions : m.parent[t] # None => m.parent[t] \in Above(m, t) /\ Above(m, t) \subseteq Sessions
    BY <1>0, AboveIs, AboveSome DEF Above
  <2> QED
    BY <1>10, <2>1
<1>12. ASSUME NEW T \in SUBSET Sessions, NEW l, Comb(l, m.rows, T)
       PROVE  Comb(Without(l, K), g.rows, T \ D)
  <2>1. \A t \in T \ D : ToSet(m.rows[t]) \cap K = {}
    <3>1. \A t \in T \ D : \A b \in D : ToSet(m.rows[t]) \cap ToSet(m.rows[b]) = {}
      BY Apart
    <3> QED
      BY <1>2, <3>1
  <2>2. \A t \in T \cap D : ToSet(m.rows[t]) \subseteq K
    BY <1>2
  <2>3. \A t \in T \ D : g.rows[t] = m.rows[t]
    BY <1>8
  <2> QED
    BY <1>12, <2>1, <2>2, <2>3, CombDrop
<1>13. ASSUME NEW t \in Sessions PROVE SessionRight(g, f, t)
  <2>1. SessionRight(m, f, t)
    BY DEF ModelRight
  <2>2. ASSUME ~ Exists(g, t) PROVE NoTrace(g, t)
    <3>1. t \notin g.known \cup g.attached \cup g.asking
      <4>1. t \notin D => t \notin m.known \cup m.attached \cup m.asking
        BY <1>9, <2>1, <2>2 DEF SessionRight, NoTrace
      <4> QED
        BY <1>7, <4>1 DEF IsGone
    <3>2. CASE t \in D
      BY <1>8, <3>1, <3>2 DEF NoTrace
    <3>3. CASE t \notin D
      <4>1. NoTrace(m, t)
        BY <1>9, <2>1, <2>2, <3>3 DEF SessionRight
      <4>2. g.prompts[t] = Without(<< >>, K)
        BY <1>8, <3>3, <4>1 DEF NoTrace
      <4>3. Without(<< >>, K) \in Rows /\ ToSet(Without(<< >>, K)) = {}
        BY EmptyRow, WithoutRow
      <4>4. g.prompts[t] = << >>
        BY <4>2, <4>3, NoElements
      <4> QED
        BY <1>8, <3>1, <3>3, <4>1, <4>4 DEF NoTrace
    <3> QED
      BY <3>2, <3>3
  <2>3. g.parent[t] # None => Exists(g, g.parent[t])
    <3>1. CASE t \in D
      BY <1>8, <3>1
    <3>2. CASE t \notin D
      <4>1. g.parent[t] = m.parent[t]
        BY <1>8, <3>2
      <4>2. m.parent[t] # None => Exists(m, m.parent[t]) /\ m.parent[t] \in Sessions \ D
        BY <1>11, <2>1, <3>2 DEF SessionRight
      <4> QED
        BY <1>9, <4>1, <4>2
    <3> QED
      BY <3>1, <3>2
  <2>4. t \notin Above(g, t)
    BY <1>10, <2>1 DEF SessionRight
  <2>5. \A w \in ToSet(g.rows[t]) \cup g.closing[t] : f[w].session = t /\ f[w].ready
    BY <1>8, <2>1, EmptyRow DEF SessionRight
  <2>6. Comb(g.prompts[t], g.rows, Below(g, t))
    <3>1. CASE t \in D
      <4>1. Below(g, t) = {}
        <5>1. \A b \in Below(g, t) : b \in Sessions \ D /\ t \in Above(m, b)
          BY <1>10 DEF Below
        <5> QED
          BY <1>10, <3>1, <5>1
      <4> QED
        <5>1. g.prompts[t] = << >>
          BY <1>8, <3>1
        <5>2. Comb(<< >>, g.rows, {})
          BY CombNone
        <5> QED
          BY <4>1, <5>1, <5>2
    <3>2. CASE t \notin D
      <4>1. Comb(m.prompts[t], m.rows, Below(m, t)) /\ Below(m, t) \in SUBSET Sessions
        BY <1>0, <2>1, Family DEF SessionRight
      <4>2. Comb(Without(m.prompts[t], K), g.rows, Below(m, t) \ D)
        BY <1>12, <4>1
      <4> QED
        BY <1>8, <1>10, <3>2, <4>2
    <3> QED
      BY <3>1, <3>2
  <2> QED
    BY <2>2, <2>3, <2>4, <2>5, <2>6 DEF SessionRight
<1>14. ModelRight(g, f)
  <2>1. Comb(g.appRows, g.rows, g.attached)
    <3>1. Comb(m.appRows, m.rows, m.attached)
      BY ModelParts
    <3>2. Comb(Without(m.appRows, K), g.rows, m.attached \ D)
      BY <1>0, <1>12, <3>1
    <3> QED
      BY <1>7, <3>2 DEF IsGone
  <2>2. g.proxied # None => g.proxied \in g.attached
    <3>1. m.proxied # None => m.proxied \in m.attached
      BY ModelParts
    <3> QED
      BY <1>7, <3>1 DEF IsGone
  <2>3. g.prompted \subseteq g.asking
    BY <1>7, ModelParts
  <2> QED
    BY <1>7, <1>13, <2>1, <2>2, <2>3 DEF ModelRight
<1>15. ASSUME KeptAll(m), NEW t \in Sessions, t # m.parent[s] PROVE Kept_(g, t)
  <2>1. CASE t \in D
    BY <1>8, <2>1 DEF Kept_
  <2>2. CASE t \notin D
    <3>1. ASSUME NEW c \in ChildrenOf(m, t) PROVE c \in ChildrenOf(g, t)
      <4>1. c \in Sessions /\ m.parent[c] = t /\ t # None
        BY <3>1, NoneApart DEF ChildrenOf
      <4>2. c \notin D
        <5>1. ASSUME c \in Below(m, s) PROVE t \in D
          <6>1. s \in AboveIn(m.parent, c)
            BY <5>1 DEF Below, Above
          <6>2. AboveIn(m.parent, c) = { t } \cup AboveIn(m.parent, t)
            BY <1>0, <4>1, AboveStep
          <6> QED
            BY <6>1, <6>2 DEF Below, Above
        <5> QED
          BY <1>15, <2>2, <4>1, <5>1
      <4> QED
        BY <1>8, <4>1, <4>2 DEF ChildrenOf
    <3>2. Kept_(m, t)
      BY <1>15 DEF KeptAll
    <3> QED
      BY <1>8, <2>2, <3>1, <3>2 DEF Kept_
  <2> QED
    BY <2>1, <2>2
<1>16. Steady(m, g) /\ \A t \in Sessions : g.object[t] = "none" => m.object[t] = "none"
  <2>1. \A t \in D : m.object[t] # "none"
    BY FamilyExists DEF Exists
  <2> QED
    BY <1>8, <2>1 DEF Steady
<1> QED
  BY <1>7, <1>14, <1>15, <1>16

LEMMA DeleteSessionRight ==
  ASSUME NEW m, NEW f, ModelRight(m, f), NEW s \in Sessions, Exists(m, s),
         NEW n, n = DeleteSession(m, s)
  PROVE  /\ ModelRight(n, f) /\ (KeptAll(m) => KeptAll(n)) /\ Steady(m, n)
         /\ \A t \in Sessions : n.object[t] = "none" => m.object[t] = "none"
<1>0. m \in Model /\ m.parent \in Parents
  BY ModelParts, Family
<1>1. PICK d : d = StopPromptSessions(m, s)
  OBVIOUS
<1>2. /\ ModelRight(d, f) /\ (KeptAll(m) => KeptAll(d)) /\ SameLists(m, d)
      /\ d.prompted \cap ({ s } \cup Below(m, s)) = {}
  BY <1>1, StopPromptsRight
<1>3. Below(d, s) = Below(m, s) /\ Exists(d, s) /\ d.parent = m.parent /\ d.object = m.object
  BY <1>2, SameFamily DEF SameLists, Exists
<1>4. PICK D \in SUBSET Sessions : D = { s } \cup Below(m, s)
  BY <1>0, Family
<1>5. PICK g : g = Gone(d, D)
  OBVIOUS
<1>6. n = IF m.parent[s] = None THEN g ELSE DeleteIfZombieAndEmpty(g, m.parent[s])
  BY <1>1, <1>4, <1>5, Zenon DEF DeleteSession
<1>7. /\ ModelRight(g, f) /\ Steady(d, g) /\ g \in Model
      /\ \A t \in Sessions : g.object[t] = "none" => d.object[t] = "none"
      /\ KeptAll(d) => \A t \in Sessions : t # d.parent[s] => Kept_(g, t)
  BY <1>2, <1>3, <1>4, <1>5, GoneRight
<1>8. Steady(m, g) /\ \A t \in Sessions : g.object[t] = "none" => m.object[t] = "none"
  BY <1>3, <1>7 DEF Steady
<1>9. CASE m.parent[s] = None
  <2>1. n = g
    BY <1>6, <1>9
  <2>2. KeptAll(m) => KeptAll(g)
    BY <1>2, <1>3, <1>7, <1>9, NoneApart DEF KeptAll
  <2> QED
    BY <1>7, <1>8, <2>1, <2>2
<1>10. CASE m.parent[s] # None
  <2>1. PICK p \in Sessions : p = m.parent[s]
    BY <1>0, <1>10 DEF Parents
  <2>2. n = DeleteIfZombieAndEmpty(g, p)
    BY <1>6, <1>10, <2>1
  <2>3. /\ Alike(g, n) /\ Steady(g, n)
        /\ \A t \in Sessions : n.object[t] # g.object[t] =>
             t = p /\ g.object[t] = "zombie" /\ n.object[t] = "doomed"
        /\ (\A t \in Sessions \ { p } : Kept_(g, t)) => KeptAll(n)
    BY <1>7, <2>1, <2>2, DeleteIf
  <2>4. ModelRight(n, f)
    BY <1>7, <2>3, AlikeRight
  <2>5. KeptAll(m) => KeptAll(n)
    BY <1>2, <1>3, <1>7, <2>1, <2>3
  <2>6. Steady(m, n)
    BY <1>8, <2>3 DEF Steady
  <2>7. \A t \in Sessions : n.object[t] = "none" => m.object[t] = "none"
    BY <1>8, <2>3
  <2> QED
    BY <2>4, <2>5, <2>6, <2>7
<1> QED
  BY <1>9, <1>10

------------------------------------------------------------------------------
(* Notices.                                                                 *)

LEMMA AppendAt ==
  ASSUME NEW S, NEW q \in Seq(S), NEW n \in S
  PROVE  /\ Append(q, n) \in Seq(S) /\ DOMAIN Append(q, n) = 1 .. Len(q) + 1
         /\ DOMAIN q = 1 .. Len(q) /\ Len(q) \in Nat
         /\ Append(q, n)[Len(q) + 1] = n
         /\ \A i \in DOMAIN q : i \in DOMAIN Append(q, n) /\ Append(q, n)[i] = q[i]
         /\ \A i \in DOMAIN Append(q, n) : i \in DOMAIN q \/ i = Len(q) + 1
OBVIOUS

LEMMA TailAt ==
  ASSUME NEW S, NEW q \in Seq(S), q # << >>
  PROVE  /\ Tail(q) \in Seq(S) /\ Head(q) = q[1] /\ 1 \in DOMAIN q /\ q[1] \in S
         /\ \A i \in DOMAIN Tail(q) : i + 1 \in DOMAIN q /\ Tail(q)[i] = q[i + 1] /\ i + 1 # 1
         /\ \A i, j \in DOMAIN Tail(q) : i # j => i + 1 # j + 1
OBVIOUS

LEMMA Posted ==
  ASSUME Announced, NEW n \in Notices, Fits(n, model, surface),
         \A i \in DOMAIN notices : Differ(notices[i], n), Post(n)
  PROVE  /\ Announced'
         /\ \A k, w : Pending(k, w)' => Pending(k, w) \/ (n.kind = k /\ n.window = w)
         /\ \A k, s : PendingOf(k, s)' => PendingOf(k, s) \/ (n.kind = k /\ n.session = s)
<1>1. PICK q : q = notices
  OBVIOUS
<1>2. PICK r : r = Append(q, n)
  OBVIOUS
<1>3. notices' = r /\ surface' = surface /\ model' = model
  BY <1>1, <1>2 DEF Post, surfaceVars
<1>4. /\ q \in Seq(Notices)
      /\ \A i, j \in DOMAIN q : i # j => Differ(q[i], q[j])
      /\ \A i \in DOMAIN q : Fits(q[i], model, surface) /\ Differ(q[i], n)
  BY <1>1 DEF Announced
<1>5. /\ r \in Seq(Notices) /\ DOMAIN r = 1 .. Len(q) + 1
      /\ DOMAIN q = 1 .. Len(q) /\ Len(q) \in Nat
      /\ r[Len(q) + 1] = n
      /\ \A i \in DOMAIN q : i \in DOMAIN r /\ r[i] = q[i]
      /\ \A i \in DOMAIN r : i \in DOMAIN q \/ i = Len(q) + 1
  BY <1>2, <1>4, AppendAt
<1>6. \A a, b : Differ(a, b) => Differ(b, a)
  BY DEF Differ
<1>7. \A i, j \in DOMAIN r : i # j => Differ(r[i], r[j])
  BY <1>4, <1>5, <1>6
<1>8. \A i \in DOMAIN r : Fits(r[i], model, surface)
  BY <1>4, <1>5
<1>9. Announced'
  BY <1>3, <1>5, <1>7, <1>8 DEF Announced
<1>10. \A k, w : Pending(k, w)' => Pending(k, w) \/ (n.kind = k /\ n.window = w)
  BY <1>1, <1>3, <1>5 DEF Pending
<1>11. \A k, s : PendingOf(k, s)' => PendingOf(k, s) \/ (n.kind = k /\ n.session = s)
  BY <1>1, <1>3, <1>5 DEF PendingOf
<1> QED
  BY <1>9, <1>10, <1>11

(* What the handling of a notice changes about what others announce.        *)
Only(h, m, n, f, g) ==
  /\ \A s \in Sessions :
       /\ m.object[s] = "none" /\ ~ (h.kind = "appAdded" /\ h.session = s) => n.object[s] = "none"
       /\ \/ n.parent[s] \in { None, m.parent[s] }
          \/ h.kind = "providerAdded" /\ h.session = s /\ n.parent[s] = h.of
  /\ \A w \in Windows :
       /\ f[w].object = "none" /\ ~ (h.kind = "windowAdded" /\ h.window = w) => g[w].object = "none"
       /\ ~ f[w].ready /\ ~ (h.kind = "windowReady" /\ h.window = w) => ~ g[w].ready

SteadyOn(f, g) ==
  \A w \in Windows : /\ f[w].object = "none" => g[w].object = "none"
                     /\ ~ f[w].ready => ~ g[w].ready

LEMMA SteadyOnly ==
  ASSUME NEW h, NEW m, NEW n, NEW f, NEW g, Steady(m, n), SteadyOn(f, g)
  PROVE  Only(h, m, n, f, g)
BY DEF Steady, SteadyOn, Only

(* The kinds of notices, and what they have.                                *)
LEMMA NoticeKinds ==
  ASSUME NEW n \in Notices
  PROVE  /\ n.kind \in { "appAdded", "appRemoved", "promptStarting", "promptStopping",
                         "providerAdded", "providerRemoved" } => n.session \in Sessions
         /\ n.kind = "providerAdded" => n.of \in Sessions
         /\ n.kind \in { "windowReady", "focus", "windowRemoved" } => n.window \in Windows
         /\ n.kind = "windowAdded" =>
              n.window \in Windows /\ n.session \in Sessions /\ n.parent \in Windows \cup { None }
<1>1. CASE n \in [ kind : { "appAdded", "appRemoved", "promptStarting", "promptStopping",
                            "providerRemoved" }, session : Sessions ]
  BY <1>1
<1>2. CASE n \in [ kind : { "providerAdded" }, session : Sessions, of : Sessions ]
  BY <1>2
<1>3. CASE n \in [ kind : { "windowAdded" }, window : Windows, session : Sessions,
                   parent : Windows \cup { None } ]
  BY <1>3
<1>4. CASE n \in [ kind : { "windowReady", "focus", "windowRemoved" }, window : Windows ]
  BY <1>4
<1> QED
  BY <1>1, <1>2, <1>3, <1>4 DEF Notices

LEMMA StillFits ==
  ASSUME NEW h \in Notices, NEW n \in Notices, Differ(h, n), NEW m, NEW o, NEW f, NEW g,
         Only(h, m, o, f, g), Fits(n, m, f)
  PROVE  Fits(n, o, g)
<1>1. n.kind = "appAdded" => o.object[n.session] = "none"
  BY NoticeKinds DEF Only, Fits, Differ
<1>2. n.kind = "windowAdded" => g[n.window].object = "none"
  BY NoticeKinds DEF Only, Fits, Differ
<1>3. n.kind = "windowReady" => ~ g[n.window].ready
  BY NoticeKinds DEF Only, Fits, Differ
<1>4. n.kind = "providerAdded" => o.parent[n.session] = None
  BY NoticeKinds DEF Only, Fits, Differ
<1> QED
  BY <1>1, <1>2, <1>3, <1>4 DEF Fits

LEMMA DeliveredRight ==
  ASSUME Announced, Unheard, Provided, notices # << >>, notices' = Tail(notices),
         UNCHANGED << window, client, prompt, provides >>,
         Only(Head(notices), model, model', surface, surface')
  PROVE  Announced' /\ Unheard' /\ Provided'
<1>1. PICK q : q = notices
  OBVIOUS
<1>2. PICK r : r = Tail(q)
  OBVIOUS
<1>3. notices' = r
  BY <1>1, <1>2
<1>4. /\ q \in Seq(Notices) /\ q # << >>
      /\ \A i, j \in DOMAIN q : i # j => Differ(q[i], q[j])
      /\ \A i \in DOMAIN q : Fits(q[i], model, surface)
  BY <1>1 DEF Announced
<1>5. /\ r \in Seq(Notices) /\ Head(q) = q[1] /\ 1 \in DOMAIN q /\ q[1] \in Notices
      /\ \A i \in DOMAIN r : i + 1 \in DOMAIN q /\ r[i] = q[i + 1] /\ i + 1 # 1
      /\ \A i, j \in DOMAIN r : i # j => i + 1 # j + 1
  BY <1>2, <1>4, TailAt
<1>6. PICK h \in Notices : h = q[1]
  BY <1>5
<1>7. Only(h, model, model', surface, surface')
  BY <1>1, <1>5, <1>6
<1>8. ASSUME NEW i \in DOMAIN r PROVE Fits(r[i], model', surface')
  <2>1. PICK n \in Notices : n = q[i + 1]
    BY <1>4, <1>5
  <2>2. Differ(h, n) /\ Fits(n, model, surface)
    BY <1>4, <1>5, <1>6, <2>1
  <2>3. Fits(n, model', surface')
    BY <1>7, <2>2, StillFits
  <2> QED
    BY <1>5, <2>1, <2>3
<1>9. Announced'
  <2>1. \A i, j \in DOMAIN r : i # j => Differ(r[i], r[j])
    BY <1>4, <1>5
  <2> QED
    BY <1>3, <1>5, <1>8, <2>1 DEF Announced
<1>10. \A k, w : Pending(k, w)' => Pending(k, w)
  BY <1>1, <1>3, <1>5 DEF Pending
<1>11. \A k, s : PendingOf(k, s)' => PendingOf(k, s)
  BY <1>1, <1>3, <1>5 DEF PendingOf
<1>12. \A k, s : h.kind = k /\ h.session = s => PendingOf(k, s)
  BY <1>1, <1>5, <1>6 DEF PendingOf
<1>13. \A k, w : h.kind = k /\ h.window = w => Pending(k, w)
  BY <1>1, <1>5, <1>6 DEF Pending
<1>14. ASSUME NEW s \in Sessions PROVE UnheardSession(s)'
  <2>1. UnheardSession(s)
    BY DEF Unheard
  <2>2. client[s] = "none" => model'.object[s] = "none" /\ ~ PendingOf("appAdded", s)'
    BY <1>7, <1>11, <1>12, <2>1 DEF UnheardSession, Only
  <2>3. provides[s] = None => model'.parent[s] = None /\ ~ PendingOf("providerAdded", s)'
    BY <1>7, <1>11, <1>12, <2>1 DEF UnheardSession, Only
  <2> QED
    BY <2>2, <2>3 DEF UnheardSession
<1>15. ASSUME NEW w \in Windows PROVE UnheardWindow(w)'
  <2>1. UnheardWindow(w)
    BY DEF Unheard
  <2>2. window[w].state = "none" => surface'[w].object = "none" /\ ~ Pending("windowAdded", w)'
    BY <1>7, <1>10, <1>13, <2>1 DEF UnheardWindow, Only
  <2>3. window[w].state \in { "none", "new" } =>
          ~ surface'[w].ready /\ ~ Pending("windowReady", w)'
    BY <1>7, <1>10, <1>13, <2>1 DEF UnheardWindow, Only
  <2> QED
    BY <2>2, <2>3 DEF UnheardWindow
<1>16. MirRight'
  BY DEF Unheard, MirRight
<1>17. Provided'
  <2>1. \A i \in DOMAIN q : NoticeOf(q[i])
    BY <1>1 DEF Provided
  <2>2. \A i \in DOMAIN r : NoticeOf(r[i])
    BY <1>5, <2>1
  <2>3. \A s \in Sessions : model'.parent[s] \in { None, provides[s] }
    <3>1. NoticeOf(h)
      BY <1>5, <1>6, <2>1
    <3> QED
      BY <1>7, <3>1 DEF Only, NoticeOf, Provided
  <2> QED
    BY <1>3, <2>2, <2>3 DEF Provided, NoticeOf
<1> QED
  BY <1>9, <1>14, <1>15, <1>16, <1>17 DEF Unheard

LEMMA StillUnheard ==
  ASSUME Announced, Unheard, Provided, UNCHANGED mirVars,
         Steady(model, model'), SteadyOn(surface, surface')
  PROVE  Announced' /\ Unheard' /\ Provided'
<1>1. /\ notices' = notices /\ window' = window /\ client' = client /\ prompt' = prompt
      /\ provides' = provides
  BY DEF mirVars
<1>2. \A n \in Notices : Fits(n, model, surface) => Fits(n, model', surface')
  <2> TAKE n \in Notices
  <2> QED
    BY NoticeKinds DEF Fits, Steady, SteadyOn
<1>3. Announced'
  <2>1. \A i \in DOMAIN notices : notices[i] \in Notices
    BY DEF Announced
  <2> QED
    BY <1>1, <1>2, <2>1 DEF Announced
<1>4. \A s \in Sessions : UnheardSession(s)'
  BY <1>1 DEF Unheard, UnheardSession, PendingOf, Steady
<1>5. \A w \in Windows : UnheardWindow(w)'
  BY <1>1 DEF Unheard, UnheardWindow, Pending, SteadyOn
<1>6. Provided'
  BY <1>1 DEF Provided, NoticeOf, Steady
<1> QED
  BY <1>1, <1>3, <1>4, <1>5, <1>6 DEF Unheard, MirRight

------------------------------------------------------------------------------
(* Mir's steps.                                                             *)

LEMMA PostKeeps ==
  ASSUME Whole, NEW n, Post(n), Announced', Unheard', Provided'
  PROVE  Whole'
<1>1. surface' = surface /\ known' = known /\ taken' = taken /\ model' = model
  BY DEF Post, surfaceVars
<1>2. ModelRight(model', surface') /\ SurfacesRight(model', surface') /\ KeptAll(model')
  BY <1>1 DEF Whole
<1>3. ViewsRight'
  BY <1>1 DEF Whole, ViewsRight
<1> QED
  BY <1>2, <1>3 DEF Whole

LEMMA PostProvided ==
  ASSUME Whole, NEW n \in Notices, Post(n), provides' = provides, NoticeOf(n)
  PROVE  Provided'
<1>1. PICK q : q = notices
  OBVIOUS
<1>2. PICK r : r = Append(q, n)
  OBVIOUS
<1>3. notices' = r /\ model' = model
  BY <1>1, <1>2 DEF Post
<1>4. q \in Seq(Notices) /\ \A i \in DOMAIN q : NoticeOf(q[i])
  BY <1>1 DEF Whole, Announced, Provided
<1>5. \A i \in DOMAIN r : NoticeOf(r[i])
  BY <1>2, <1>4, AppendAt
<1> QED
  BY <1>3, <1>5 DEF Whole, Provided, NoticeOf

(* A notice that says nothing new about what is announced once.             *)
LEMMA PostOther ==
  ASSUME Whole, NEW n \in Notices, Post(n),
         n.kind \notin { "appAdded", "windowAdded", "windowReady", "providerAdded" },
         MirRight', provides' = provides,
         \A s \in Sessions : client'[s] = "none" => client[s] = "none",
         \A w \in Windows : /\ window'[w].state = "none" => window[w].state = "none"
                            /\ window'[w].state \in { "none", "new" } =>
                                 window[w].state \in { "none", "new" }
  PROVE  Whole'
<1>0. Announced /\ Unheard
  BY DEF Whole
<1>1. Fits(n, model, surface) /\ \A i \in DOMAIN notices : Differ(notices[i], n)
  BY DEF Fits, Differ
<1>2. /\ Announced'
      /\ \A k, w : Pending(k, w)' => Pending(k, w) \/ (n.kind = k /\ n.window = w)
      /\ \A k, s : PendingOf(k, s)' => PendingOf(k, s) \/ (n.kind = k /\ n.session = s)
  BY <1>0, <1>1, Posted
<1>3. surface' = surface /\ model' = model
  BY DEF Post, surfaceVars
<1>4. ASSUME NEW s \in Sessions PROVE UnheardSession(s)'
  <2>1. UnheardSession(s)
    BY <1>0 DEF Unheard
  <2> QED
    BY <1>2, <1>3, <2>1 DEF UnheardSession
<1>5. ASSUME NEW w \in Windows PROVE UnheardWindow(w)'
  <2>1. UnheardWindow(w)
    BY <1>0 DEF Unheard
  <2> QED
    BY <1>2, <1>3, <2>1 DEF UnheardWindow
<1>6. Unheard'
  BY <1>4, <1>5 DEF Unheard
<1>7. Provided'
  BY PostProvided DEF NoticeOf
<1> QED
  BY <1>2, <1>6, <1>7, PostKeeps

LEMMA ClientConnectsKeeps ==
  ASSUME Whole, NEW s \in Sessions, ClientConnects(s)
  PROVE  Whole'
<1>0. Announced /\ Unheard
  BY DEF Whole
<1>1. PICK n : n = [ kind |-> "appAdded", session |-> s ]
  OBVIOUS
<1>2. n \in Notices /\ n.kind = "appAdded" /\ n.session = s
  BY <1>1 DEF Notices
<1>3. /\ client[s] = "none" /\ client' = [ client EXCEPT ![s] = "running" ] /\ Post(n)
      /\ window' = window /\ prompt' = prompt /\ provides' = provides
  BY <1>1 DEF ClientConnects
<1>4. model.object[s] = "none" /\ ~ PendingOf("appAdded", s)
  BY <1>0, <1>3 DEF Unheard, UnheardSession
<1>5. Fits(n, model, surface) /\ \A i \in DOMAIN notices : Differ(notices[i], n)
  BY <1>2, <1>4 DEF Fits, Differ, PendingOf
<1>6. /\ Announced'
      /\ \A k, w : Pending(k, w)' => Pending(k, w) \/ (n.kind = k /\ n.window = w)
      /\ \A k, t : PendingOf(k, t)' => PendingOf(k, t) \/ (n.kind = k /\ n.session = t)
  BY <1>0, <1>2, <1>3, <1>5, Posted
<1>7. surface' = surface /\ model' = model
  BY <1>3 DEF Post, surfaceVars
<1>8. MirRight' /\ client'[s] = "running" /\ \A t \in Sessions \ { s } : client'[t] = client[t]
  BY <1>0, <1>3 DEF Unheard, MirRight
<1>9. ASSUME NEW t \in Sessions PROVE UnheardSession(t)'
  <2>1. UnheardSession(t)
    BY <1>0 DEF Unheard
  <2> QED
    BY <1>2, <1>3, <1>6, <1>7, <1>8, <2>1 DEF UnheardSession
<1>10. ASSUME NEW w \in Windows PROVE UnheardWindow(w)'
  <2>1. UnheardWindow(w)
    BY <1>0 DEF Unheard
  <2> QED
    BY <1>2, <1>3, <1>6, <1>7, <2>1 DEF UnheardWindow
<1>11. Unheard'
  BY <1>8, <1>9, <1>10 DEF Unheard
<1>12. Provided'
  BY <1>2, <1>3, PostProvided DEF NoticeOf
<1> QED
  BY <1>3, <1>6, <1>11, <1>12, PostKeeps

LEMMA WindowOpensKeeps ==
  ASSUME Whole, NEW v \in Windows, NEW s \in Sessions, NEW p \in Windows \cup { None },
         WindowOpens(v, s, p)
  PROVE  Whole'
<1>0. Announced /\ Unheard
  BY DEF Whole
<1>1. PICK n : n = [ kind |-> "windowAdded", window |-> v, session |-> s, parent |-> p ]
  OBVIOUS
<1>2. n \in Notices /\ n.kind = "windowAdded" /\ n.window = v
  BY <1>1 DEF Notices
<1>3. /\ window[v].state = "none"
      /\ window' = [ window EXCEPT ![v] = [ state |-> "new", client |-> s ] ] /\ Post(n)
      /\ client' = client /\ prompt' = prompt /\ provides' = provides
  BY <1>1 DEF WindowOpens
<1>4. surface[v].object = "none" /\ ~ Pending("windowAdded", v)
      /\ ~ surface[v].ready /\ ~ Pending("windowReady", v)
  BY <1>0, <1>3 DEF Unheard, UnheardWindow
<1>5. Fits(n, model, surface) /\ \A i \in DOMAIN notices : Differ(notices[i], n)
  BY <1>2, <1>4 DEF Fits, Differ, Pending
<1>6. /\ Announced'
      /\ \A k, w : Pending(k, w)' => Pending(k, w) \/ (n.kind = k /\ n.window = w)
      /\ \A k, t : PendingOf(k, t)' => PendingOf(k, t) \/ (n.kind = k /\ n.session = t)
  BY <1>0, <1>2, <1>3, <1>5, Posted
<1>7. surface' = surface /\ model' = model
  BY <1>3 DEF Post, surfaceVars
<1>8. MirRight' /\ window'[v].state = "new" /\ \A w \in Windows \ { v } : window'[w] = window[w]
  BY <1>0, <1>3 DEF Unheard, MirRight
<1>9. ASSUME NEW t \in Sessions PROVE UnheardSession(t)'
  <2>1. UnheardSession(t)
    BY <1>0 DEF Unheard
  <2> QED
    BY <1>2, <1>3, <1>6, <1>7, <1>8, <2>1 DEF UnheardSession
<1>10. ASSUME NEW w \in Windows PROVE UnheardWindow(w)'
  <2>1. UnheardWindow(w)
    BY <1>0 DEF Unheard
  <2> QED
    BY <1>2, <1>4, <1>6, <1>7, <1>8, <2>1 DEF UnheardWindow
<1>11. Unheard'
  BY <1>8, <1>9, <1>10 DEF Unheard
<1>12. Provided'
  BY <1>2, <1>3, PostProvided DEF NoticeOf
<1> QED
  BY <1>3, <1>6, <1>11, <1>12, PostKeeps

LEMMA WindowDrawsKeeps ==
  ASSUME Whole, NEW v \in Windows, WindowDraws(v)
  PROVE  Whole'
<1>0. Announced /\ Unheard
  BY DEF Whole
<1>1. PICK n : n = [ kind |-> "windowReady", window |-> v ]
  OBVIOUS
<1>2. n \in Notices /\ n.kind = "windowReady" /\ n.window = v
  BY <1>1 DEF Notices
<1>3. /\ window[v].state = "new" /\ window' = [ window EXCEPT ![v].state = "drawn" ] /\ Post(n)
      /\ client' = client /\ prompt' = prompt /\ provides' = provides
  BY <1>1 DEF WindowDraws
<1>4. ~ surface[v].ready /\ ~ Pending("windowReady", v)
  BY <1>0, <1>3 DEF Unheard, UnheardWindow
<1>5. Fits(n, model, surface) /\ \A i \in DOMAIN notices : Differ(notices[i], n)
  BY <1>2, <1>4 DEF Fits, Differ, Pending
<1>6. /\ Announced'
      /\ \A k, w : Pending(k, w)' => Pending(k, w) \/ (n.kind = k /\ n.window = w)
      /\ \A k, t : PendingOf(k, t)' => PendingOf(k, t) \/ (n.kind = k /\ n.session = t)
  BY <1>0, <1>2, <1>3, <1>5, Posted
<1>7. surface' = surface /\ model' = model
  BY <1>3 DEF Post, surfaceVars
<1>8. MirRight' /\ window'[v].state = "drawn" /\ \A w \in Windows \ { v } : window'[w] = window[w]
  BY <1>0, <1>3 DEF Unheard, MirRight
<1>9. ASSUME NEW t \in Sessions PROVE UnheardSession(t)'
  <2>1. UnheardSession(t)
    BY <1>0 DEF Unheard
  <2> QED
    BY <1>2, <1>3, <1>6, <1>7, <1>8, <2>1 DEF UnheardSession
<1>10. ASSUME NEW w \in Windows PROVE UnheardWindow(w)'
  <2>1. UnheardWindow(w)
    BY <1>0 DEF Unheard
  <2> QED
    BY <1>2, <1>4, <1>6, <1>7, <1>8, <2>1 DEF UnheardWindow
<1>11. Unheard'
  BY <1>8, <1>9, <1>10 DEF Unheard
<1>12. Provided'
  BY <1>2, <1>3, PostProvided DEF NoticeOf
<1> QED
  BY <1>3, <1>6, <1>11, <1>12, PostKeeps

LEMMA ProviderJoinsKeeps ==
  ASSUME Whole, NEW s \in Sessions, NEW asker \in Sessions, ProviderJoins(s, asker)
  PROVE  Whole'
<1>0. Announced /\ Unheard /\ Provided
  BY DEF Whole
<1>1. PICK n : n = [ kind |-> "providerAdded", session |-> s, of |-> asker ]
  OBVIOUS
<1>2. n \in Notices /\ n.kind = "providerAdded" /\ n.session = s /\ n.of = asker
  BY <1>1 DEF Notices
<1>3. /\ provides[s] = None /\ s \notin { asker } \cup AboveIn(provides, asker)
      /\ provides' = [ provides EXCEPT ![s] = asker ] /\ Post(n)
      /\ window' = window /\ client' = client /\ prompt' = prompt
  BY <1>1 DEF ProviderJoins
<1>4. model.parent[s] = None /\ ~ PendingOf("providerAdded", s)
  BY <1>0, <1>3 DEF Unheard, UnheardSession
<1>5. Fits(n, model, surface) /\ \A i \in DOMAIN notices : Differ(notices[i], n)
  BY <1>2, <1>3, <1>4 DEF Fits, Differ, PendingOf
<1>6. /\ Announced'
      /\ \A k, w : Pending(k, w)' => Pending(k, w) \/ (n.kind = k /\ n.window = w)
      /\ \A k, t : PendingOf(k, t)' => PendingOf(k, t) \/ (n.kind = k /\ n.session = t)
  BY <1>0, <1>2, <1>3, <1>5, Posted
<1>7. surface' = surface /\ model' = model
  BY <1>3 DEF Post, surfaceVars
<1>8. /\ MirRight' /\ provides \in Parents /\ provides' \in Parents
      /\ provides'[s] = asker /\ \A t \in Sessions \ { s } : provides'[t] = provides[t]
  BY <1>0, <1>3 DEF Unheard, MirRight, Parents
<1>9. ASSUME NEW t \in Sessions PROVE UnheardSession(t)'
  <2>1. UnheardSession(t)
    BY <1>0 DEF Unheard
  <2> QED
    BY <1>2, <1>3, <1>6, <1>7, <1>8, <2>1, NoneApart DEF UnheardSession
<1>10. ASSUME NEW w \in Windows PROVE UnheardWindow(w)'
  <2>1. UnheardWindow(w)
    BY <1>0 DEF Unheard
  <2> QED
    BY <1>2, <1>3, <1>6, <1>7, <2>1 DEF UnheardWindow
<1>11. Unheard'
  BY <1>8, <1>9, <1>10 DEF Unheard
<1>12. ASSUME NEW x \in Sessions PROVE x \notin AboveIn(provides', x)
  <2>1. PICK P \in Parents : P = provides
    BY <1>8
  <2>2. PICK Q \in Parents : Q = provides'
    BY <1>8
  <2>3. /\ P[s] = None /\ s \notin { asker } \cup AboveIn(P, asker)
        /\ Q[s] = asker /\ \A d \in Sessions \ { s } : Q[d] = P[d]
    BY <1>3, <1>8, <2>1, <2>2
  <2>4. AboveIn(Q, x) = IF x = s \/ s \in AboveIn(P, x)
                          THEN AboveIn(P, x) \cup { asker } \cup AboveIn(P, asker)
                          ELSE AboveIn(P, x)
    BY <2>3, AboveGrown
  <2>5. x \notin AboveIn(P, x) /\ AboveIn(P, s) = {}
    BY <1>0, <2>1, <2>3, AboveSome DEF Provided
  <2>6. CASE x = s
    BY <2>2, <2>3, <2>4, <2>5, <2>6
  <2>7. CASE x # s /\ s \in AboveIn(P, x)
    <3>1. x # asker
      BY <2>3, <2>7
    <3>2. x \notin AboveIn(P, asker)
      <4>1. ASSUME x \in AboveIn(P, asker) PROVE FALSE
        <5>1. AboveIn(P, x) \subseteq AboveIn(P, asker)
          BY <4>1, AboveTrans
        <5> QED
          BY <2>3, <2>7, <5>1
      <4> QED
        BY <4>1
    <3> QED
      BY <2>2, <2>4, <2>5, <2>7, <3>1, <3>2
  <2>8. CASE x # s /\ s \notin AboveIn(P, x)
    BY <2>2, <2>4, <2>5, <2>8
  <2> QED
    BY <2>6, <2>7, <2>8
<1>13. \A t \in Sessions : model'.parent[t] \in { None, provides'[t] }
  BY <1>0, <1>4, <1>7, <1>8 DEF Provided
<1>14. \A i \in DOMAIN notices' :
         notices'[i].kind = "providerAdded" => notices'[i].of = provides'[notices'[i].session]
  <2>1. PICK q : q = notices
    OBVIOUS
  <2>2. PICK r : r = Append(q, n)
    OBVIOUS
  <2>3. notices' = r
    BY <1>3, <2>1, <2>2 DEF Post
  <2>4. /\ q \in Seq(Notices)
        /\ \A i \in DOMAIN q : q[i].kind = "providerAdded" =>
             /\ q[i].of = provides[q[i].session] /\ q[i].session \in Sessions
             /\ q[i].session # s
    <3>1. q \in Seq(Notices)
      BY <1>0, <2>1 DEF Announced
    <3>2. \A i \in DOMAIN q : q[i] \in Notices
      BY <3>1
    <3>3. \A i \in DOMAIN q : q[i].kind = "providerAdded" => q[i].session \in Sessions
      BY <3>2, NoticeKinds
    <3> QED
      BY <1>0, <1>4, <2>1, <3>1, <3>3 DEF Provided, NoticeOf, PendingOf
  <2>5. \A i \in DOMAIN q : q[i].kind = "providerAdded" => q[i].of = provides'[q[i].session]
    BY <1>8, <2>4
  <2>6. n.of = provides'[n.session]
    BY <1>2, <1>8
  <2>7. /\ r[Len(q) + 1] = n /\ \A i \in DOMAIN q : r[i] = q[i]
        /\ \A i \in DOMAIN r : i \in DOMAIN q \/ i = Len(q) + 1
    BY <1>2, <2>2, <2>4, AppendAt
  <2>8. \A i \in DOMAIN r : r[i].kind = "providerAdded" => r[i].of = provides'[r[i].session]
    BY <2>5, <2>6, <2>7
  <2> QED
    BY <2>3, <2>8
<1>15. Provided'
  BY <1>12, <1>13, <1>14 DEF Provided, NoticeOf
<1> QED
  BY <1>3, <1>6, <1>11, <1>15, PostKeeps

LEMMA SessionPostsKeep ==
  ASSUME Whole, NEW s \in Sessions, ClientEnds(s) \/ PromptStarts(s) \/ PromptEnds(s)
           \/ ProviderLeaves(s)
  PROVE  Whole'
<1>0. MirRight
  BY DEF Whole, Unheard
<1>1. CASE ClientEnds(s)
  <2>1. PICK n : n = [ kind |-> "appRemoved", session |-> s ]
    OBVIOUS
  <2>2. n \in Notices /\ n.kind = "appRemoved"
    BY <2>1 DEF Notices
  <2>3. /\ client[s] = "running" /\ client' = [ client EXCEPT ![s] = "ended" ] /\ Post(n)
        /\ window' = window /\ prompt' = prompt /\ provides' = provides
    BY <1>1, <2>1 DEF ClientEnds
  <2>4. MirRight' /\ \A t \in Sessions : client'[t] = "none" => client[t] = "none"
    BY <1>0, <2>3 DEF MirRight
  <2> QED
    BY <2>2, <2>3, <2>4, PostOther
<1>2. CASE PromptStarts(s)
  <2>1. PICK n : n = [ kind |-> "promptStarting", session |-> s ]
    OBVIOUS
  <2>2. n \in Notices /\ n.kind = "promptStarting" /\ n.session = s
    BY <2>1 DEF Notices
  <2>3. /\ Post(n) /\ window' = window /\ client' = client /\ provides' = provides
        /\ prompt' = [ prompt EXCEPT ![s] = "running" ]
    BY <1>2, <2>1 DEF PromptStarts
  <2>4. MirRight'
    BY <1>0, <2>3 DEF MirRight
  <2> QED
    BY <2>2, <2>3, <2>4, PostOther
<1>3. CASE ProviderLeaves(s)
  <2>1. PICK n : n = [ kind |-> "providerRemoved", session |-> s ]
    OBVIOUS
  <2>2. n \in Notices /\ n.kind = "providerRemoved"
    BY <2>1 DEF Notices
  <2>3. /\ Post(n) /\ window' = window /\ prompt' = prompt /\ client' = client
        /\ provides' = provides
    BY <1>3, <2>1 DEF ProviderLeaves
  <2>4. MirRight'
    BY <1>0, <2>3 DEF MirRight
  <2> QED
    BY <2>2, <2>3, <2>4, PostOther
<1>4. CASE PromptEnds(s)
  <2>1. PICK n : n = [ kind |-> "promptStopping", session |-> s ]
    OBVIOUS
  <2>2. n \in Notices /\ n.kind = "promptStopping"
    BY <2>1 DEF Notices
  <2>3. /\ Post(n) /\ window' = window /\ client' = client /\ provides' = provides
        /\ prompt' = [ prompt EXCEPT ![s] = "ended" ]
    BY <1>4, <2>1 DEF PromptEnds
  <2>4. MirRight'
    BY <1>0, <2>3 DEF MirRight
  <2> QED
    BY <2>2, <2>3, <2>4, PostOther
<1> QED
  BY <1>1, <1>2, <1>3, <1>4

LEMMA WindowPostsKeep ==
  ASSUME Whole, NEW v \in Windows, FocusChanges(v) \/ WindowCloses(v)
  PROVE  Whole'
<1>0. MirRight
  BY DEF Whole, Unheard
<1>1. CASE FocusChanges(v)
  <2>1. PICK n : n = [ kind |-> "focus", window |-> v ]
    OBVIOUS
  <2>2. n \in Notices /\ n.kind = "focus"
    BY <2>1 DEF Notices
  <2>3. /\ Post(n) /\ window' = window /\ prompt' = prompt /\ client' = client
        /\ provides' = provides
    BY <1>1, <2>1 DEF FocusChanges
  <2>4. MirRight'
    BY <1>0, <2>3 DEF MirRight
  <2> QED
    BY <2>2, <2>3, <2>4, PostOther
<1>2. CASE WindowCloses(v)
  <2>1. PICK n : n = [ kind |-> "windowRemoved", window |-> v ]
    OBVIOUS
  <2>2. n \in Notices /\ n.kind = "windowRemoved"
    BY <2>1 DEF Notices
  <2>3. /\ Post(n) /\ prompt' = prompt /\ client' = client /\ provides' = provides
        /\ window' = [ window EXCEPT ![v] = [ state |-> "closed", client |-> None ] ]
    BY <1>2, <2>1 DEF WindowCloses
  <2>4. MirRight' /\ \A w \in Windows : window'[w].state = "closed" \/ window'[w] = window[w]
    BY <1>0, <2>3 DEF MirRight
  <2> QED
    BY <2>2, <2>3, <2>4, PostOther
<1> QED
  BY <1>1, <1>2

------------------------------------------------------------------------------
(* The main thread's steps.                                                 *)

Inner ==
  ModelRight(model, surface) /\ SurfacesRight(model, surface) /\ KeptAll(model) /\ ViewsRight

LEMMA MoreExist ==
  ASSUME NEW m, NEW n, NEW f, SurfacesRight(m, f), \A t \in Sessions : Exists(m, t) => Exists(n, t)
  PROVE  SurfacesRight(n, f)
<1>1. ASSUME NEW w \in Windows PROVE SurfaceRight(n, f, w)
  <2>1. SurfaceRight(m, f, w) /\ f[w].session \in Sessions \cup { None }
    BY DEF SurfacesRight, Surface
  <2> QED
    BY <2>1 DEF SurfaceRight
<1> QED
  BY <1>1 DEF SurfacesRight

(* Only the sessions change.                                                *)
LEMMA ModelKeeps ==
  ASSUME Inner, UNCHANGED surfaceVars, ModelRight(model', surface), KeptAll(model'),
         \A t \in Sessions : Exists(model, t) => Exists(model', t)
  PROVE  Inner' /\ SteadyOn(surface, surface')
<1>1. surface' = surface /\ known' = known /\ taken' = taken
  BY DEF surfaceVars
<1>2. SurfacesRight(model', surface)
  BY MoreExist DEF Inner
<1>3. ViewsRight'
  BY <1>1 DEF Inner, ViewsRight
<1> QED
  BY <1>1, <1>2, <1>3 DEF Inner, SteadyOn

LEMMA SessionStartingKeeps ==
  ASSUME Inner, NEW s \in Sessions, model.object[s] = "none", SessionStarting(s),
         NEW h, h.kind = "appAdded", h.session = s
  PROVE  Inner' /\ Only(h, model, model', surface, surface')
<1>0. ModelRight(model, surface) /\ KeptAll(model)
  BY DEF Inner
<1>1. PICK m : m = Started(model, s)
  OBVIOUS
<1>2. /\ ModelRight(m, surface) /\ KeptAll(m) /\ Exists(m, s) /\ s \notin m.attached
      /\ m.parent = model.parent
      /\ \A t \in Sessions : (Exists(model, t) => Exists(m, t)) /\ (t # s => m.object[t] = model.object[t])
  BY <1>0, <1>1, StartRight
<1>3. model' = IF s \in Apps THEN Attach(m, s) ELSE m
  BY <1>1 DEF SessionStarting, Started
<1>4. /\ ModelRight(model', surface) /\ KeptAll(model')
      /\ model'.object = m.object /\ model'.parent = m.parent
  <2>1. CASE s \in Apps
    <3>1. model' = Attach(m, s)
      BY <1>3, <2>1
    <3> QED
      BY <1>2, <3>1, AttachRight
  <2>2. CASE s \notin Apps
    BY <1>2, <1>3, <2>2
  <2> QED
    BY <2>1, <2>2
<1>5. \A t \in Sessions : Exists(model, t) => Exists(model', t)
  BY <1>2, <1>4 DEF Exists
<1>6. Inner' /\ SteadyOn(surface, surface')
  BY <1>4, <1>5, ModelKeeps DEF SessionStarting
<1> QED
  BY <1>2, <1>4, <1>6 DEF Only, SteadyOn

(* Surfaces are the same, but are no longer live.                           *)
QuietOn(f, g) ==
  /\ g \in [ Windows -> Surface ]
  /\ \A w \in Windows :
       /\ g[w].object = f[w].object /\ g[w].ready = f[w].ready /\ g[w].closing = f[w].closing
       /\ g[w].session = f[w].session /\ g[w].views = f[w].views /\ g[w].children = f[w].children
       /\ g[w].live => f[w].live

LEMMA QuietRight ==
  ASSUME NEW m, NEW f, NEW g, ModelRight(m, f), SurfacesRight(m, f), QuietOn(f, g)
  PROVE  ModelRight(m, g) /\ SurfacesRight(m, g) /\ SteadyOn(f, g)
<1>1. m.rows \in [ Sessions -> Rows ] /\ m.closing \in [ Sessions -> SUBSET Windows ]
  BY ModelParts, ModelFields
<1>2. \A s \in Sessions : \A w \in ToSet(m.rows[s]) \cup m.closing[s] : w \in Windows
  BY <1>1, RowElements
<1>o. ASSUME NEW s \in Sessions, NEW w \in ToSet(m.rows[s]) \cup m.closing[s],
             f[w].session = s, f[w].ready
      PROVE  g[w].session = s /\ g[w].ready
  <2>1. w \in Windows
    BY <1>2
  <2> QED
    BY <1>o, <2>1 DEF QuietOn
<1>3. ModelRight(m, g)
  BY <1>o, OtherSurfaces
<1>4. ASSUME NEW w \in Windows PROVE SurfaceRight(m, g, w)
  <2>1. SurfaceRight(m, f, w) /\ f[w].children \in Rows
    BY DEF SurfacesRight, Surface
  <2>2. ToSet(f[w].children) \subseteq Windows
    BY <2>1, RowElements
  <2> QED
    BY <2>1, <2>2 DEF SurfaceRight, QuietOn, IsThere
<1> QED
  BY <1>3, <1>4 DEF SurfacesRight, QuietOn, SteadyOn

LEMMA SurfaceFields ==
  ASSUME NEW r \in Surface
  PROVE  /\ r.object \in { "none", "alive", "doomed", "gone" }
         /\ r.live \in BOOLEAN /\ r.ready \in BOOLEAN /\ r.closing \in BOOLEAN
         /\ r.session \in Sessions \cup { None } /\ r.views \in SUBSET Items /\ r.children \in Rows
BY DEF Surface

LEMMA NotLive ==
  ASSUME NEW r \in Surface, NEW q, q = [ r EXCEPT !.live = FALSE ]
  PROVE  /\ q \in Surface /\ q.object = r.object /\ q.ready = r.ready /\ q.closing = r.closing
         /\ q.session = r.session /\ q.views = r.views /\ q.children = r.children /\ q.live = FALSE
BY DEF Surface

LEMMA QuietAfter ==
  ASSUME surface \in [ Windows -> Surface ], NEW s \in Sessions, NEW g, g = SurfacesAfter(s)
  PROVE  QuietOn(surface, g)
<1>1. ASSUME NEW w \in Windows
      PROVE  /\ g[w] \in Surface
             /\ g[w].object = surface[w].object /\ g[w].ready = surface[w].ready
             /\ g[w].closing = surface[w].closing
             /\ g[w].session = surface[w].session /\ g[w].views = surface[w].views
             /\ g[w].children = surface[w].children
             /\ g[w].live => surface[w].live
  <2>0. surface[w] \in Surface
    OBVIOUS
  <2>1. CASE DiesWith(w, s)
    <3>1. g[w] = [ surface[w] EXCEPT !.live = FALSE ]
      BY <2>1 DEF SurfacesAfter
    <3> QED
      BY <2>0, <3>1, NotLive
  <2>2. CASE ~ DiesWith(w, s)
    <3>1. g[w] = surface[w]
      BY <2>2 DEF SurfacesAfter
    <3> QED
      BY <2>0, <3>1
  <2> QED
    BY <2>1, <2>2
<1>2. g = [ w \in Windows |-> g[w] ]
  BY DEF SurfacesAfter
<1>3. g \in [ Windows -> Surface ]
  BY <1>1, <1>2
<1> QED
  BY <1>1, <1>3 DEF QuietOn

LEMMA QuietViews ==
  ASSUME ViewsRight, QuietOn(surface, surface'), known' = known, taken' = taken
  PROVE  ViewsRight'
BY DEF ViewsRight, QuietOn

(* A session dies, and what it lists with it.                               *)
LEMMA DiedKeeps ==
  ASSUME Inner, NEW s \in Sessions, NEW m, ModelRight(m, surface), KeptAll(m),
         m.object = model.object, m.parent = model.parent,
         surface' = SurfacesAfter(s), model' = Died(m, s), known' = known, taken' = taken
  PROVE  Inner' /\ Steady(model, model') /\ SteadyOn(surface, surface')
<1>0. SurfacesRight(model, surface) /\ ViewsRight /\ surface \in [ Windows -> Surface ]
  BY DEF Inner, SurfacesRight
<1>1. /\ ModelRight(model', surface) /\ Steady(m, model') /\ KeptAll(model')
      /\ \A t \in Sessions : Exists(model', t) <=> Exists(m, t)
  BY DiedRight
<1>2. \A t \in Sessions : Exists(model, t) => Exists(model', t)
  BY <1>1 DEF Exists
<1>3. SurfacesRight(model', surface)
  BY <1>0, <1>2, MoreExist
<1>4. QuietOn(surface, surface')
  BY <1>0, QuietAfter
<1>5. ModelRight(model', surface') /\ SurfacesRight(model', surface') /\ SteadyOn(surface, surface')
  BY <1>1, <1>3, <1>4, QuietRight
<1>6. ViewsRight'
  BY <1>0, <1>4, QuietViews
<1>7. Steady(model, model')
  BY <1>1 DEF Steady
<1> QED
  BY <1>1, <1>5, <1>6, <1>7 DEF Inner

LEMMA SessionStoppingKeeps ==
  ASSUME Inner, NEW s \in Sessions, SessionStopping(s)
  PROVE  Inner' /\ Steady(model, model') /\ SteadyOn(surface, surface')
<1>0. ModelRight(model, surface) /\ KeptAll(model) /\ model \in Model
  BY ModelParts DEF Inner
<1>1. CASE s \in model.known
  <2>1. PICK m : m = [ model EXCEPT !.known = @ \ { s } ]
    OBVIOUS
  <2>2. PICK K : K = model.known \ { s }
    OBVIOUS
  <2>3. m = Forgotten(model, K, model.asking, model.prompted, model.stopped)
    BY <1>0, <2>1, <2>2 DEF Forgotten, Model
  <2>4. /\ K \in SUBSET model.known /\ model.asking \in SUBSET Sessions
        /\ model.stopped \in SUBSET Sessions
    BY <1>0, <2>2, ModelFields
  <2>5. \A t \in model.asking : Exists(model, t)
    BY <1>0, <2>4, HasExists
  <2>6. model.prompted \in SUBSET model.asking
    BY <1>0, ModelParts
  <2>7. ModelRight(m, surface) /\ KeptAll(m) /\ m.object = model.object /\ m.parent = model.parent
    BY <1>0, <2>3, <2>4, <2>5, <2>6, ForgetRight
  <2>8. surface' = SurfacesAfter(s) /\ model' = Died(m, s) /\ known' = known /\ taken' = taken
    BY <1>1, <2>1 DEF SessionStopping
  <2> QED
    BY <2>7, <2>8, DiedKeeps
<1>2. CASE s \notin model.known
  <2>1. surface' = surface /\ model' = model /\ known' = known /\ taken' = taken
    BY <1>2 DEF SessionStopping
  <2> QED
    BY <2>1 DEF Inner, ViewsRight, Steady, SteadyOn
<1> QED
  BY <1>1, <1>2

LEMMA ProviderRemovedKeeps ==
  ASSUME Inner, NEW s \in Sessions, OnPromptProviderRemoved(s)
  PROVE  Inner' /\ Steady(model, model') /\ SteadyOn(surface, surface')
<1>1. CASE s \in model.known
  <2>1. surface' = SurfacesAfter(s) /\ model' = Died(model, s) /\ known' = known /\ taken' = taken
    BY <1>1 DEF OnPromptProviderRemoved
  <2> QED
    BY <2>1, DiedKeeps DEF Inner
<1>2. CASE s \notin model.known
  <2>1. surface' = surface /\ model' = model /\ known' = known /\ taken' = taken
    BY <1>2 DEF OnPromptProviderRemoved
  <2> QED
    BY <2>1 DEF Inner, ViewsRight, Steady, SteadyOn
<1> QED
  BY <1>1, <1>2

LEMMA PromptStartingKeeps ==
  ASSUME Inner, NEW s \in Sessions, OnPromptSessionStarting(s)
  PROVE  Inner' /\ Steady(model, model') /\ SteadyOn(surface, surface')
<1>0. ModelRight(model, surface) /\ KeptAll(model) /\ model \in Model
  BY ModelParts DEF Inner
<1>1. CASE s \in model.known
  <2>1. PICK A : A = model.asking \cup { s }
    OBVIOUS
  <2>x. PICK x : x = model.prompted \cup { s }
    OBVIOUS
  <2>2. model' = Forgotten(model, model.known, A, x, model.stopped)
    BY <1>0, <1>1, <2>1, <2>x DEF Forgotten, Model, OnPromptSessionStarting
  <2>3. model.asking \in SUBSET Sessions /\ A \in SUBSET Sessions
    BY <1>0, <2>1, ModelFields
  <2>4. \A t \in A : Exists(model, t)
    BY <1>0, <1>1, <2>1, <2>3, HasExists
  <2>5. /\ x \in SUBSET A /\ model.known \in SUBSET model.known
        /\ model.stopped \in SUBSET Sessions
    BY <1>0, <2>1, <2>x, ModelParts, ModelFields
  <2>6. /\ ModelRight(model', surface) /\ KeptAll(model')
        /\ model'.object = model.object /\ model'.parent = model.parent
    BY <1>0, <2>2, <2>3, <2>4, <2>5, ForgetRight
  <2>7. \A t \in Sessions : Exists(model, t) => Exists(model', t)
    BY <2>6 DEF Exists
  <2> QED
    BY <2>6, <2>7, ModelKeeps DEF OnPromptSessionStarting, Steady
<1>2. CASE s \notin model.known
  <2>1. surface' = surface /\ model' = model /\ known' = known /\ taken' = taken
    BY <1>2 DEF OnPromptSessionStarting, surfaceVars
  <2> QED
    BY <2>1 DEF Inner, ViewsRight, Steady, SteadyOn
<1> QED
  BY <1>1, <1>2

LEMMA PromptStoppingKeeps ==
  ASSUME Inner, NEW s \in Sessions, OnPromptSessionStopping(s)
  PROVE  Inner' /\ Steady(model, model') /\ SteadyOn(surface, surface')
<1>1. ModelRight(model, surface) /\ KeptAll(model)
  BY DEF Inner
<1>2. /\ ModelRight(model', surface) /\ KeptAll(model')
      /\ model'.object = model.object /\ model'.parent = model.parent
  BY <1>1, PromptsStoppedRight DEF OnPromptSessionStopping, SameLists
<1>3. \A t \in Sessions : Exists(model, t) => Exists(model', t)
  BY <1>2 DEF Exists
<1> QED
  BY <1>2, <1>3, ModelKeeps DEF Steady, OnPromptSessionStopping

LEMMA ProviderAddedKeeps ==
  ASSUME Inner, NEW s \in Sessions, NEW asker \in Sessions, model.parent[s] = None,
         s \notin { asker } \cup Above(model, asker), OnPromptProviderAdded(s, asker),
         NEW h, h.kind = "providerAdded", h.session = s, h.of = asker
  PROVE  Inner' /\ Only(h, model, model', surface, surface')
<1>0. ModelRight(model, surface) /\ KeptAll(model) /\ model \in Model
  BY ModelParts DEF Inner
<1>1. CASE asker \in model.prompted /\ s \in model.known
  <2>1. asker \in model.asking
    BY <1>0, <1>1, ModelParts
  <2>2. Exists(model, asker) /\ Exists(model, s)
    BY <1>0, <1>1, <2>1, HasExists
  <2>3. model' = AddChild(model, asker, s)
    BY <1>1 DEF OnPromptProviderAdded
  <2>4. /\ ModelRight(model', surface) /\ KeptAll(model') /\ model'.object = model.object
        /\ model'.parent[s] = asker
        /\ \A t \in Sessions \ { s } : model'.parent[t] = model.parent[t]
    BY <1>0, <2>2, <2>3, AddChildRight
  <2>5. \A t \in Sessions : Exists(model, t) => Exists(model', t)
    BY <2>4 DEF Exists
  <2>6. Inner' /\ SteadyOn(surface, surface')
    BY <2>4, <2>5, ModelKeeps DEF OnPromptProviderAdded
  <2> QED
    BY <2>4, <2>6 DEF Only, SteadyOn
<1>2. CASE ~ (asker \in model.prompted /\ s \in model.known)
  <2>1. surface' = surface /\ model' = model /\ known' = known /\ taken' = taken
    BY <1>2 DEF OnPromptProviderAdded, surfaceVars
  <2> QED
    BY <2>1 DEF Inner, ViewsRight, Only
<1> QED
  BY <1>1, <1>2

LEMMA OtherChildren ==
  ASSUME NEW r \in Surface, NEW c \in Rows, NEW q, q = [ r EXCEPT !.children = c ]
  PROVE  /\ q \in Surface /\ q.object = r.object /\ q.ready = r.ready /\ q.closing = r.closing
         /\ q.session = r.session /\ q.views = r.views /\ q.children = c /\ q.live = r.live
BY DEF Surface

LEMMA WindowAddedKeeps ==
  ASSUME Inner, NEW w \in Windows, NEW s \in Sessions, NEW p \in Windows \cup { None },
         surface[w].object = "none", OnWindowAdded(w, s, p),
         NEW h, h.kind = "windowAdded", h.window = w
  PROVE  Inner' /\ Only(h, model, model', surface, surface')
<1>0. /\ ModelRight(model, surface) /\ SurfacesRight(model, surface) /\ KeptAll(model) /\ ViewsRight
      /\ surface \in [ Windows -> Surface ]
  BY DEF Inner, SurfacesRight
<1>1. /\ ~ IsThere(surface, w) /\ surface[w].session = None /\ ~ surface[w].ready
  BY <1>0 DEF IsThere, SurfacesRight, SurfaceRight
<1>2. PICK f : f = surface
  OBVIOUS
<1>3. PICK g : g = surface'
  OBVIOUS
<1>4. PICK x : x = IF s \in model.known THEN s ELSE None
  OBVIOUS
<1>5. PICK new : new = [ NoSurface EXCEPT !.object = "alive", !.live = TRUE, !.session = x ]
  OBVIOUS
<1>6. /\ new \in Surface /\ new.object = "alive" /\ new.live = TRUE /\ new.ready = FALSE
      /\ new.session = x /\ new.views = {} /\ new.children = << >>
  <2>1. x \in Sessions \cup { None }
    BY <1>4
  <2>2. << >> \in Rows
    BY EmptyRow
  <2> QED
    BY <1>5, <2>1, <2>2 DEF NoSurface, Surface
<1>7. /\ g = [ v \in Windows |->
             IF v = w THEN new
             ELSE IF v = p /\ v \in known
                    THEN [ f[v] EXCEPT !.children = << w >> \o @ ] ELSE f[v] ]
      /\ known' = known \cup { w } /\ taken' = taken /\ model' = model
  BY <1>2, <1>3, <1>4, <1>5 DEF OnWindowAdded
<1>8. ASSUME NEW v \in Windows, v # w
      PROVE  /\ g[v] \in Surface /\ g[v].object = f[v].object /\ g[v].ready = f[v].ready
             /\ g[v].session = f[v].session /\ g[v].views = f[v].views /\ g[v].live = f[v].live
             /\ ToSet(g[v].children) \subseteq ToSet(f[v].children) \cup { w }
             /\ g[v].children = f[v].children \/ f[v].object = "alive"
  <2>0. f[v] \in Surface /\ f[v].children \in Rows
    BY <1>0, <1>2, SurfaceFields
  <2>1. CASE v = p /\ v \in known
    <3>1. w \notin ToSet(f[v].children)
      BY <1>0, <1>1, <1>2 DEF SurfacesRight, SurfaceRight
    <3>2. PICK c : c = << w >> \o f[v].children
      OBVIOUS
    <3>3. c \in Rows /\ ToSet(c) = ToSet(f[v].children) \cup { w }
      BY <2>0, <3>1, <3>2, Prepended
    <3>4. g[v] = [ f[v] EXCEPT !.children = c ]
      BY <1>7, <1>8, <2>1, <3>2
    <3>5. f[v].object = "alive"
      BY <1>0, <1>2, <2>1 DEF ViewsRight
    <3> QED
      BY <2>0, <3>3, <3>4, <3>5, OtherChildren
  <2>2. CASE ~ (v = p /\ v \in known)
    <3>1. g[v] = f[v]
      BY <1>7, <1>8, <2>2
    <3> QED
      BY <2>0, <3>1
  <2> QED
    BY <2>1, <2>2
<1>9. g[w] = new
  BY <1>7
<1>10. g \in [ Windows -> Surface ]
  <2>1. g = [ v \in Windows |-> g[v] ]
    BY <1>7
  <2>2. \A v \in Windows : g[v] \in Surface
    BY <1>6, <1>8, <1>9
  <2> QED
    BY <2>1, <2>2
<1>11. ModelRight(model, g)
  <2>1. model.rows \in [ Sessions -> Rows ] /\ model.closing \in [ Sessions -> SUBSET Windows ]
    BY <1>0, ModelParts, ModelFields
  <2>2. \A t \in Sessions : \A v \in ToSet(model.rows[t]) \cup model.closing[t] : v \in Windows
    BY <2>1, RowElements
  <2>3. ASSUME NEW t \in Sessions, NEW v \in ToSet(model.rows[t]) \cup model.closing[t],
               surface[v].session = t, surface[v].ready
        PROVE  g[v].session = t /\ g[v].ready
    BY <1>1, <1>2, <1>8, <2>2, <2>3
  <2> QED
    BY <1>0, <2>3, OtherSurfaces
<1>12. \A v \in Windows : IsThere(f, v) => IsThere(g, v)
  BY <1>6, <1>8, <1>9 DEF IsThere
<1>13. IsThere(g, w)
  BY <1>6, <1>9 DEF IsThere
<1>14. ASSUME NEW v \in Windows PROVE SurfaceRight(model, g, v)
  <2>1. CASE v = w
    <3>1. x # None => Exists(model, x)
      BY <1>0, <1>4, HasExists
    <3> QED
      BY <1>6, <1>9, <1>13, <2>1, <3>1, EmptyRow DEF SurfaceRight
  <2>2. CASE v # w
    <3>0. SurfaceRight(model, f, v)
      BY <1>0, <1>2 DEF SurfacesRight
    <3>1. ~ IsThere(g, v) => g[v].session = None /\ ~ g[v].ready /\ g[v].children = << >>
      BY <1>8, <2>2, <3>0 DEF SurfaceRight, IsThere
    <3>2. \A u \in ToSet(f[v].children) : u \in Windows
      BY <1>0, <1>2, SurfaceFields, RowElements
    <3>3. \A u \in ToSet(g[v].children) : IsThere(g, u)
      BY <1>8, <1>12, <1>13, <2>2, <3>0, <3>2 DEF SurfaceRight
    <3> QED
      BY <1>8, <2>2, <3>0, <3>1, <3>3 DEF SurfaceRight
  <2> QED
    BY <2>1, <2>2
<1>15. ViewsRight'
  <2>1. known' \subseteq Windows /\ taken' \subseteq Windows
    BY <1>0, <1>7 DEF ViewsRight
  <2>2. ASSUME NEW v \in Windows
        PROVE  /\ v \in known' => g[v].object = "alive"
               /\ g[v].object = "alive" /\ v \notin known' => g[v].views # {} /\ ~ g[v].live
               /\ g[v].object \in { "doomed", "gone" } /\ v \notin taken' => g[v].views = {}
               /\ g[v].object = "none" => g[v].views = {}
    <3>1. CASE v = w
      BY <1>6, <1>7, <1>9, <3>1
    <3>2. CASE v # w
      BY <1>0, <1>2, <1>7, <1>8, <3>2 DEF ViewsRight
    <3> QED
      BY <3>1, <3>2
  <2> QED
    BY <1>3, <2>1, <2>2 DEF ViewsRight
<1>16. Inner'
  BY <1>0, <1>3, <1>7, <1>10, <1>11, <1>14, <1>15 DEF Inner, SurfacesRight
<1>17. Only(h, model, model', surface, surface')
  BY <1>2, <1>3, <1>6, <1>7, <1>8, <1>9 DEF Only
<1> QED
  BY <1>16, <1>17

LEMMA WindowReadyKeeps ==
  ASSUME Inner, NEW w \in Windows, ~ surface[w].ready, OnWindowReady(w),
         NEW h, h.kind = "windowReady", h.window = w
  PROVE  Inner' /\ Only(h, model, model', surface, surface')
<1>0. /\ ModelRight(model, surface) /\ SurfacesRight(model, surface) /\ KeptAll(model) /\ ViewsRight
      /\ surface \in [ Windows -> Surface ]
  BY DEF Inner, SurfacesRight
<1>1. CASE w \notin known
  <2>1. surface' = surface /\ model' = model /\ known' = known /\ taken' = taken
    BY <1>1 DEF OnWindowReady
  <2> QED
    BY <2>1 DEF Inner, ViewsRight, Only
<1>2. CASE w \in known
  <2>1. PICK f : f = surface
    OBVIOUS
  <2>2. PICK g : g = surface'
    OBVIOUS
  <2>3. PICK s \in Sessions \cup { None } : s = f[w].session
    BY <1>0, <2>1, SurfaceFields
  <2>4. /\ g = [ f EXCEPT ![w].ready = TRUE ] /\ known' = known /\ taken' = taken
        /\ model' = IF s = None THEN model ELSE PrependRow(model, s, w)
    BY <1>2, <2>1, <2>2, <2>3 DEF OnWindowReady
  <2>5. /\ g \in [ Windows -> Surface ] /\ g[w].ready /\ (\A v \in Windows \ { w } : g[v] = f[v])
        /\ g[w].object = f[w].object /\ g[w].session = f[w].session /\ g[w].views = f[w].views
        /\ g[w].live = f[w].live /\ g[w].children = f[w].children
    <3>1. PICK q : q = [ f[w] EXCEPT !.ready = TRUE ]
      OBVIOUS
    <3>2. f[w] \in Surface /\ f \in [ Windows -> Surface ]
      BY <1>0, <2>1
    <3>3. /\ q \in Surface /\ q.ready /\ q.object = f[w].object /\ q.session = f[w].session
          /\ q.views = f[w].views /\ q.live = f[w].live /\ q.children = f[w].children
      BY <3>1, <3>2 DEF Surface
    <3>4. g = [ f EXCEPT ![w] = q ]
      BY <2>4, <3>1, <3>2
    <3> QED
      BY <3>2, <3>3, <3>4
  <2>6. ModelRight(model', g) /\ Steady(model, model') /\ KeptAll(model')
        /\ \A t \in Sessions : Exists(model', t) <=> Exists(model, t)
    <3>1. CASE s = None
      <4>1. model' = model
        BY <2>4, <3>1
      <4>2. \A t \in Sessions : \A v \in ToSet(model.rows[t]) \cup model.closing[t] : v \in Windows
        <5>1. model.rows \in [ Sessions -> Rows ] /\ model.closing \in [ Sessions -> SUBSET Windows ]
          BY <1>0, ModelParts, ModelFields
        <5> QED
          BY <5>1, RowElements
      <4>3. ASSUME NEW t \in Sessions, NEW v \in ToSet(model.rows[t]) \cup model.closing[t],
                   surface[v].session = t, surface[v].ready
            PROVE  g[v].session = t /\ g[v].ready
        BY <2>1, <2>5, <4>2, <4>3
      <4>4. ModelRight(model, g)
        BY <1>0, <4>3, OtherSurfaces
      <4> QED
        BY <1>0, <4>1, <4>4 DEF Steady
    <3>2. CASE s # None
      <4>1. s \in Sessions /\ model' = PrependRow(model, s, w)
        BY <2>3, <2>4, <3>2
      <4>2. Exists(model, s)
        BY <1>0, <2>1, <2>3, <3>2 DEF SurfacesRight, SurfaceRight
      <4>3. ModelRight(model, f) /\ f[w].session = s /\ ~ f[w].ready
        BY <1>0, <2>1, <2>3
      <4>4. g[w].session = s /\ g[w].ready
            /\ \A v \in Windows \ { w } : g[v].session = f[v].session /\ g[v].ready = f[v].ready
        BY <2>3, <2>5
      <4> QED
        BY <1>0, <4>1, <4>2, <4>3, <4>4, PrependRowRight
    <3> QED
      BY <3>1, <3>2
  <2>7. ASSUME NEW v \in Windows PROVE SurfaceRight(model', g, v)
    <3>1. SurfaceRight(model, f, v) /\ f[v].session \in Sessions \cup { None } /\ f[v].children \in Rows
      BY <1>0, <2>1, SurfaceFields DEF SurfacesRight
    <3>2. \A u \in Windows : g[u].object = f[u].object
      BY <2>5
    <3>3. g[v].session = f[v].session /\ g[v].children = f[v].children
          /\ (g[v].ready = f[v].ready \/ v = w)
      BY <2>5
    <3>4. IsThere(f, w)
      BY <1>0, <1>2, <2>1 DEF ViewsRight, IsThere
    <3>5. \A u \in ToSet(f[v].children) : u \in Windows
      BY <3>1, RowElements
    <3> QED
      BY <2>6, <3>1, <3>2, <3>3, <3>4, <3>5 DEF SurfaceRight, IsThere
  <2>8. ViewsRight'
    <3>1. \A v \in Windows : g[v].object = f[v].object /\ g[v].views = f[v].views /\ g[v].live = f[v].live
      BY <2>5
    <3> QED
      BY <1>0, <2>1, <2>2, <2>4, <3>1 DEF ViewsRight
  <2>9. Inner'
    BY <2>2, <2>5, <2>6, <2>7, <2>8 DEF Inner, SurfacesRight
  <2>10. Only(h, model, model', surface, surface')
    BY <2>1, <2>2, <2>5, <2>6 DEF Only, Steady
  <2> QED
    BY <2>9, <2>10
<1> QED
  BY <1>1, <1>2

LEMMA WindowFocusedKeeps ==
  ASSUME Inner, NEW w \in Windows, OnWindowFocused(w)
  PROVE  Inner' /\ Steady(model, model') /\ SteadyOn(surface, surface')
<1>0. /\ ModelRight(model, surface) /\ SurfacesRight(model, surface) /\ KeptAll(model) /\ ViewsRight
      /\ surface \in [ Windows -> Surface ]
  BY DEF Inner, SurfacesRight
<1>1. CASE w \notin known
  <2>1. surface' = surface /\ model' = model /\ known' = known /\ taken' = taken
    BY <1>1 DEF OnWindowFocused
  <2> QED
    BY <2>1 DEF Inner, ViewsRight, Steady, SteadyOn
<1>2. CASE w \in known
  <2>1. PICK g : g = surface'
    OBVIOUS
  <2>2. /\ g = [ v \in Windows |-> [ surface[v] EXCEPT !.children = Raised(@, w) ] ]
        /\ model' = RaiseRows(model, w) /\ known' = known /\ taken' = taken
    BY <1>2, <2>1 DEF OnWindowFocused
  <2>3. ASSUME NEW v \in Windows
        PROVE  /\ g[v] \in Surface /\ g[v].object = surface[v].object /\ g[v].ready = surface[v].ready
               /\ g[v].session = surface[v].session /\ g[v].views = surface[v].views
               /\ g[v].live = surface[v].live
               /\ g[v].children = Raised(surface[v].children, w)
    <3>1. PICK c : c = Raised(surface[v].children, w)
      OBVIOUS
    <3>2. surface[v] \in Surface /\ surface[v].children \in Rows
      BY <1>0, SurfaceFields
    <3>3. c \in Rows
      BY <3>1, <3>2, RaisedIs
    <3>4. g[v] = [ surface[v] EXCEPT !.children = c ]
      BY <2>2, <3>1
    <3> QED
      BY <3>1, <3>2, <3>3, <3>4, OtherChildren
  <2>4. g \in [ Windows -> Surface ]
    <3>1. g = [ v \in Windows |-> g[v] ]
      BY <2>2
    <3> QED
      BY <2>3, <3>1
  <2>5. /\ ModelRight(model', surface) /\ Steady(model, model') /\ KeptAll(model')
        /\ \A t \in Sessions : Exists(model', t) <=> Exists(model, t)
    BY <1>0, <2>2, RaiseRowsRight
  <2>6. ModelRight(model', g)
    <3>1. model'.rows \in [ Sessions -> Rows ] /\ model'.closing \in [ Sessions -> SUBSET Windows ]
      BY <2>5, ModelParts, ModelFields
    <3>2. \A t \in Sessions : \A v \in ToSet(model'.rows[t]) \cup model'.closing[t] : v \in Windows
      BY <3>1, RowElements
    <3>3. ASSUME NEW t \in Sessions, NEW v \in ToSet(model'.rows[t]) \cup model'.closing[t],
                 surface[v].session = t, surface[v].ready
          PROVE  g[v].session = t /\ g[v].ready
      BY <2>3, <3>2, <3>3
    <3> QED
      BY <2>5, <3>3, OtherSurfaces
  <2>7. ASSUME NEW v \in Windows PROVE SurfaceRight(model', g, v)
    <3>1. /\ SurfaceRight(model, surface, v) /\ surface[v].session \in Sessions \cup { None }
          /\ surface[v].children \in Rows
      BY <1>0, SurfaceFields DEF SurfacesRight
    <3>2. \A u \in Windows : IsThere(g, u) <=> IsThere(surface, u)
      BY <2>3 DEF IsThere
    <3>3. ToSet(g[v].children) = ToSet(surface[v].children)
      BY <2>3, <3>1, RaisedIs
    <3>4. surface[v].children = << >> => g[v].children = << >>
      <4>1. g[v].children \in Rows
        BY <2>3, SurfaceFields
      <4> QED
        BY <3>1, <3>3, <4>1, NoElements
    <3>5. \A u \in ToSet(surface[v].children) : u \in Windows
      BY <3>1, RowElements
    <3>6. g[v].session = surface[v].session /\ g[v].ready = surface[v].ready
      BY <2>3
    <3> QED
      BY <2>5, <3>1, <3>2, <3>3, <3>4, <3>5, <3>6 DEF SurfaceRight
  <2>8. ViewsRight'
    <3>1. \A v \in Windows : /\ g[v].object = surface[v].object /\ g[v].views = surface[v].views
                             /\ g[v].live = surface[v].live
      BY <2>3
    <3> QED
      BY <1>0, <2>1, <2>2, <3>1 DEF ViewsRight
  <2>9. Inner'
    BY <2>1, <2>4, <2>5, <2>6, <2>7, <2>8 DEF Inner, SurfacesRight
  <2>10. SteadyOn(surface, surface')
    BY <2>1, <2>3 DEF SteadyOn
  <2> QED
    BY <2>5, <2>9, <2>10
<1> QED
  BY <1>1, <1>2

(* A surface that goes.                                                     *)

Closed(m, s, C) == [ m EXCEPT !.closing[s] = C ]

ClosedIs(m, s, C, n) ==
  /\ n \in Model /\ n.object = m.object /\ n.known = m.known /\ n.rows = m.rows
  /\ n.parent = m.parent /\ n.prompts = m.prompts
  /\ n.attached = m.attached /\ n.appRows = m.appRows /\ n.proxied = m.proxied
  /\ n.prompted = m.prompted /\ n.asking = m.asking /\ n.stopped = m.stopped
  /\ n.closing[s] = C /\ \A t \in Sessions \ { s } : n.closing[t] = m.closing[t]

LEMMA ClosedFields ==
  ASSUME NEW m \in Model, NEW s \in Sessions, NEW C \in SUBSET Windows, NEW n, n = Closed(m, s, C)
  PROVE  ClosedIs(m, s, C, n)
<1>1. m.closing \in [ Sessions -> SUBSET Windows ]
  BY ModelFields
<1>2. PICK c : c = [ m.closing EXCEPT ![s] = C ]
  OBVIOUS
<1>3. c \in [ Sessions -> SUBSET Windows ] /\ c[s] = C /\ \A t \in Sessions \ { s } : c[t] = m.closing[t]
  BY <1>1, <1>2
<1>4. n = [ m EXCEPT !.closing = c ]
  BY <1>2 DEF Closed
<1>5. /\ n \in Model /\ n.object = m.object /\ n.known = m.known /\ n.rows = m.rows
      /\ n.parent = m.parent /\ n.prompts = m.prompts
      /\ n.attached = m.attached /\ n.appRows = m.appRows /\ n.proxied = m.proxied
      /\ n.prompted = m.prompted /\ n.asking = m.asking /\ n.stopped = m.stopped /\ n.closing = c
  BY <1>3, <1>4 DEF Model
<1> QED
  BY <1>3, <1>5 DEF ClosedIs

LEMMA ClosedRight ==
  ASSUME NEW m, NEW f, NEW g, ModelRight(m, f), NEW s \in Sessions, NEW C \in SUBSET Windows,
         ~ Exists(m, s) => C = {},
         \A t \in Sessions : \A v \in ToSet(m.rows[t]) : g[v].session = t /\ g[v].ready,
         \A t \in Sessions \ { s } : \A v \in m.closing[t] : g[v].session = t /\ g[v].ready,
         \A v \in C : g[v].session = s /\ g[v].ready,
         NEW n, n = Closed(m, s, C)
  PROVE  /\ ModelRight(n, g) /\ (KeptAll(m) => KeptAll(n))
         /\ n.object = m.object /\ n.parent = m.parent /\ n.rows = m.rows
         /\ n.closing[s] = C
<1>0. m \in Model
  BY ModelParts
<1>1. ClosedIs(m, s, C, n)
  BY <1>0, ClosedFields
<1>2. \A t \in Sessions : /\ Exists(n, t) <=> Exists(m, t)
                          /\ Below(n, t) = Below(m, t) /\ Above(n, t) = Above(m, t)
  BY <1>1, SameFamily DEF ClosedIs, Exists
<1>3. ASSUME NEW t \in Sessions PROVE SessionRight(n, g, t)
  <2>1. /\ ~ Exists(m, t) => NoTrace(m, t)
        /\ m.parent[t] # None => Exists(m, m.parent[t])
        /\ t \notin Above(m, t)
        /\ Comb(m.prompts[t], m.rows, Below(m, t))
    BY ModelParts
  <2>2. ~ Exists(n, t) => NoTrace(n, t)
    BY <1>1, <1>2, <2>1 DEF NoTrace, ClosedIs
  <2>3. (n.parent[t] # None => Exists(n, n.parent[t])) /\ t \notin Above(n, t)
    BY <1>1, <1>2, <2>1 DEF ClosedIs, Exists
  <2>4. \A v \in ToSet(n.rows[t]) \cup n.closing[t] : g[v].session = t /\ g[v].ready
    BY <1>1 DEF ClosedIs
  <2>5. Comb(n.prompts[t], n.rows, Below(n, t))
    BY <1>1, <1>2, <2>1 DEF ClosedIs
  <2> QED
    BY <2>2, <2>3, <2>4, <2>5 DEF SessionRight
<1>4. /\ Comb(n.appRows, n.rows, n.attached)
      /\ n.proxied # None => n.proxied \in n.attached
      /\ n.prompted \subseteq n.asking
  BY <1>1, ModelParts DEF ClosedIs
<1>5. ModelRight(n, g)
  BY <1>1, <1>3, <1>4 DEF ModelRight, ClosedIs
<1>6. KeptAll(m) => KeptAll(n)
  BY <1>1, SameKept DEF ClosedIs
<1> QED
  BY <1>1, <1>5, <1>6 DEF ClosedIs

(* What becomes of the surfaces when w is deleted.                          *)
DeletedOn(f, g, w) ==
  /\ g \in [ Windows -> Surface ]
  /\ g[w].object = "gone" /\ g[w].session = None /\ ~ g[w].ready /\ g[w].children = << >>
  /\ g[w].views = f[w].views
  /\ \A v \in Windows \ { w } :
       /\ g[v].object = f[v].object /\ g[v].ready = f[v].ready /\ g[v].session = f[v].session
       /\ g[v].views = f[v].views /\ g[v].live = f[v].live
       /\ ToSet(g[v].children) = ToSet(f[v].children) \ { w }
       /\ f[v].children = << >> => g[v].children = << >>

LEMMA DeletedFields ==
  ASSUME surface \in [ Windows -> Surface ], NEW w \in Windows, DeleteSurface(w),
         NEW g, g = surface'
  PROVE  DeletedOn(surface, g, w)
<1>1. g = [ v \in Windows |->
              IF v = w THEN [ NoSurface EXCEPT !.object = "gone", !.views = surface[w].views ]
              ELSE [ surface[v] EXCEPT !.children = Without(@, { w }) ] ]
  BY DEF DeleteSurface
<1>2. PICK q : q = [ NoSurface EXCEPT !.object = "gone", !.views = surface[w].views ]
  OBVIOUS
<1>3. /\ q \in Surface /\ q.object = "gone" /\ q.session = None /\ ~ q.ready /\ q.children = << >>
      /\ q.views = surface[w].views
  <2>1. surface[w].views \in SUBSET Items /\ << >> \in Rows
    BY SurfaceFields, EmptyRow
  <2> QED
    BY <1>2, <2>1 DEF Surface, NoSurface
<1>4. g[w] = q
  BY <1>1, <1>2
<1>5. ASSUME NEW v \in Windows \ { w }
      PROVE  /\ g[v] \in Surface
             /\ g[v].object = surface[v].object /\ g[v].ready = surface[v].ready
             /\ g[v].session = surface[v].session
             /\ g[v].views = surface[v].views /\ g[v].live = surface[v].live
             /\ ToSet(g[v].children) = ToSet(surface[v].children) \ { w }
             /\ surface[v].children = << >> => g[v].children = << >>
  <2>1. PICK c : c = Without(surface[v].children, { w })
    OBVIOUS
  <2>2. surface[v] \in Surface /\ surface[v].children \in Rows
    BY SurfaceFields
  <2>3. c \in Rows /\ ToSet(c) = ToSet(surface[v].children) \ { w }
    BY <2>1, <2>2, WithoutRow
  <2>4. g[v] = [ surface[v] EXCEPT !.children = c ]
    BY <1>1, <2>1
  <2>5. surface[v].children = << >> => c = << >>
    BY <2>2, <2>3, NoElements
  <2> QED
    BY <2>2, <2>3, <2>4, <2>5, OtherChildren
<1>6. g \in [ Windows -> Surface ]
  <2>1. g = [ v \in Windows |-> g[v] ] /\ \A v \in Windows : g[v] \in Surface
    BY <1>1, <1>3, <1>4, <1>5
  <2> QED
    BY <2>1
<1> QED
  BY <1>3, <1>4, <1>5, <1>6 DEF DeletedOn

LEMMA DeletedRight ==
  ASSUME Inner, NEW w \in Windows, IsThere(surface, w), DeleteSurface(w)
  PROVE  /\ ModelRight(model', surface') /\ SurfacesRight(model', surface') /\ KeptAll(model')
         /\ Steady(model, model') /\ SteadyOn(surface, surface')
         /\ DeletedOn(surface, surface', w)
<1>0. /\ ModelRight(model, surface) /\ SurfacesRight(model, surface) /\ KeptAll(model)
      /\ surface \in [ Windows -> Surface ]
  BY DEF Inner, SurfacesRight
<1>1. PICK g : g = surface'
  OBVIOUS
<1>2. DeletedOn(surface, g, w)
  BY <1>0, <1>1, DeletedFields
<1>3. PICK s : s = surface[w].session
  OBVIOUS
<1>4. model' = IF s = None \/ ~ surface[w].ready THEN model
               ELSE [ RemoveRow(model, s, w) EXCEPT !.closing[s] = @ \ { w } ]
  BY <1>3 DEF DeleteSurface
<1>5. /\ model.rows \in [ Sessions -> Rows ] /\ model.closing \in [ Sessions -> SUBSET Windows ]
  BY <1>0, ModelParts, ModelFields
<1>6. \A t \in Sessions : \A v \in ToSet(model.rows[t]) \cup model.closing[t] :
        v \in Windows /\ surface[v].session = t /\ surface[v].ready
  BY <1>0, <1>5, RowElements, ModelParts
<1>7. /\ ModelRight(model', g) /\ KeptAll(model') /\ Steady(model, model')
      /\ \A t \in Sessions : Exists(model', t) <=> Exists(model, t)
  <2>1. CASE s = None \/ ~ surface[w].ready
    <3>1. model' = model
      BY <1>4, <2>1
    <3>2. \A t \in Sessions : \A v \in ToSet(model.rows[t]) \cup model.closing[t] : v # w
      BY <1>3, <1>6, <2>1, NoneApart
    <3>3. \A t \in Sessions : \A v \in ToSet(model.rows[t]) \cup model.closing[t] :
            g[v].session = t /\ g[v].ready
      BY <1>2, <1>6, <3>2 DEF DeletedOn
    <3>4. ModelRight(model, g)
      BY <1>0, <3>3, OtherSurfaces
    <3> QED
      BY <1>0, <3>1, <3>4 DEF Steady
  <2>2. CASE s # None /\ surface[w].ready
    <3>1. s \in Sessions
      BY <1>0, <1>3, <2>2, SurfaceFields
    <3>2. PICK n : n = RemoveRow(model, s, w)
      OBVIOUS
    <3>3. /\ ModelRight(n, surface) /\ Steady(model, n) /\ KeptAll(n)
          /\ n.closing = model.closing
          /\ \A t \in Sessions : /\ Exists(n, t) <=> Exists(model, t)
                                 /\ ToSet(n.rows[t]) \subseteq ToSet(model.rows[t])
                                 /\ t = s => w \notin ToSet(n.rows[t])
      <4>1. ModelRight(model, surface)
        BY <1>0
      <4>2. ModelRight(n, surface) /\ Steady(model, n) /\ (KeptAll(model) => KeptAll(n))
        BY <3>1, <3>2, <4>1, RemoveRowRight
      <4>3. n.closing = model.closing /\ RowLess(model, n, s, w)
        BY <3>1, <3>2, <4>1, RemoveRowRight
      <4> QED
        BY <1>0, <4>2, <4>3 DEF RowLess
    <3>4. PICK C : C = model.closing[s] \ { w }
      OBVIOUS
    <3>5. C \in SUBSET Windows
      BY <1>5, <3>1, <3>4
    <3>6. model' = Closed(n, s, C)
      <4>1. model' = [ n EXCEPT !.closing[s] = @ \ { w } ]
        BY <1>4, <2>2, <3>2
      <4>2. n \in Model
        BY <3>3, ModelParts
      <4>3. n.closing[s] \ { w } = C
        BY <3>3, <3>4
      <4> QED
        BY <4>1, <4>3 DEF Closed
    <3>7. \A t \in Sessions : \A v \in ToSet(n.rows[t]) : g[v].session = t /\ g[v].ready
      <4>1. ASSUME NEW t \in Sessions, NEW v \in ToSet(n.rows[t])
            PROVE  v \in Windows \ { w } /\ surface[v].session = t /\ surface[v].ready
        <5>1. v \in ToSet(model.rows[t])
          BY <3>3, <4>1
        <5>2. v \in Windows /\ surface[v].session = t /\ surface[v].ready
          BY <1>6, <5>1
        <5>3. v # w
          BY <1>3, <3>3, <4>1, <5>2
        <5> QED
          BY <5>2, <5>3
      <4> QED
        BY <1>2, <4>1 DEF DeletedOn
    <3>8. \A t \in Sessions \ { s } : \A v \in n.closing[t] : g[v].session = t /\ g[v].ready
      <4>1. ASSUME NEW t \in Sessions \ { s }, NEW v \in n.closing[t]
            PROVE  v \in Windows \ { w } /\ surface[v].session = t /\ surface[v].ready
        BY <1>3, <1>6, <3>3, <4>1
      <4> QED
        BY <1>2, <4>1 DEF DeletedOn
    <3>9. \A v \in C : g[v].session = s /\ g[v].ready
      <4>1. \A v \in C : v \in Windows \ { w } /\ surface[v].session = s /\ surface[v].ready
        BY <1>6, <3>1, <3>4
      <4> QED
        BY <1>2, <4>1 DEF DeletedOn
    <3>10. ~ Exists(n, s) => C = {}
      BY <1>0, <3>1, <3>3, <3>4, ModelParts DEF NoTrace
    <3>11. PICK o : o = Closed(n, s, C)
      OBVIOUS
    <3>12. /\ ModelRight(o, g) /\ (KeptAll(n) => KeptAll(o))
           /\ o.object = n.object /\ o.parent = n.parent
      BY <3>1, <3>3, <3>5, <3>7, <3>8, <3>9, <3>10, <3>11, ClosedRight
    <3>13. model' = o
      BY <3>6, <3>11
    <3> QED
      BY <3>3, <3>12, <3>13 DEF Steady, Exists
  <2> QED
    BY <2>1, <2>2
<1>8. ASSUME NEW v \in Windows PROVE SurfaceRight(model', g, v)
  <2>1. SurfaceRight(model, surface, v) /\ surface[v].session \in Sessions \cup { None }
        /\ surface[v].children \in Rows
    BY <1>0, SurfaceFields DEF SurfacesRight
  <2>2. CASE v = w
    BY <1>2, <2>2, EmptyRow DEF DeletedOn, SurfaceRight
  <2>3. CASE v # w
    <3>1. /\ g[v].object = surface[v].object /\ g[v].ready = surface[v].ready
          /\ g[v].session = surface[v].session
          /\ ToSet(g[v].children) = ToSet(surface[v].children) \ { w }
          /\ surface[v].children = << >> => g[v].children = << >>
      BY <1>2, <2>3 DEF DeletedOn
    <3>2. \A u \in Windows \ { w } : IsThere(g, u) <=> IsThere(surface, u)
      BY <1>2 DEF DeletedOn, IsThere
    <3>3. \A u \in ToSet(surface[v].children) : u \in Windows
      BY <2>1, RowElements
    <3> QED
      BY <1>7, <2>1, <2>3, <3>1, <3>2, <3>3 DEF SurfaceRight
  <2> QED
    BY <2>2, <2>3
<1>9. SurfacesRight(model', g)
  BY <1>2, <1>8 DEF SurfacesRight, DeletedOn
<1>10. SteadyOn(surface, g)
  <2>1. \A v \in Windows \ { w } : g[v].object = surface[v].object /\ g[v].ready = surface[v].ready
    BY <1>2 DEF DeletedOn
  <2>2. surface[w].object # "none" /\ ~ g[w].ready
    BY <1>2 DEF DeletedOn, IsThere
  <2> QED
    BY <2>1, <2>2 DEF SteadyOn
<1> QED
  BY <1>1, <1>2, <1>7, <1>9, <1>10

LEMMA WindowRemovedKeeps ==
  ASSUME Inner, NEW w \in Windows, OnWindowRemoved(w)
  PROVE  Inner' /\ Steady(model, model') /\ SteadyOn(surface, surface')
<1>0. /\ ModelRight(model, surface) /\ SurfacesRight(model, surface) /\ KeptAll(model) /\ ViewsRight
      /\ surface \in [ Windows -> Surface ]
  BY DEF Inner, SurfacesRight
<1>1. known' = known \ { w } /\ taken' = taken
  BY DEF OnWindowRemoved
<1>2. CASE w \notin known
  <2>1. surface' = surface /\ model' = model /\ known' = known
    BY <1>1, <1>2 DEF OnWindowRemoved
  <2> QED
    BY <1>1, <2>1 DEF Inner, ViewsRight, Steady, SteadyOn
<1>3. CASE w \in known /\ surface[w].views # {}
  <2>1. PICK g : g = surface'
    OBVIOUS
  <2>2. g = [ surface EXCEPT ![w].live = FALSE ] /\ model' = model
    BY <1>3, <2>1 DEF OnWindowRemoved
  <2>3. /\ g \in [ Windows -> Surface ] /\ g[w].live = FALSE
        /\ QuietOn(surface, g)
    <3>1. PICK q : q = [ surface[w] EXCEPT !.live = FALSE ]
      OBVIOUS
    <3>2. surface[w] \in Surface
      BY <1>0
    <3>3. /\ q \in Surface /\ q.object = surface[w].object /\ q.ready = surface[w].ready
          /\ q.closing = surface[w].closing
          /\ q.session = surface[w].session /\ q.views = surface[w].views
          /\ q.children = surface[w].children /\ q.live = FALSE
      BY <3>1, <3>2, NotLive
    <3>4. g = [ surface EXCEPT ![w] = q ]
      BY <1>0, <2>2, <3>1
    <3>5. g \in [ Windows -> Surface ] /\ g[w] = q /\ \A v \in Windows \ { w } : g[v] = surface[v]
      BY <1>0, <3>3, <3>4
    <3> QED
      BY <3>3, <3>5 DEF QuietOn
  <2>4. ModelRight(model, g) /\ SurfacesRight(model, g) /\ SteadyOn(surface, g)
    BY <1>0, <2>3, QuietRight
  <2>5. ViewsRight'
    <3>1. \A v \in Windows : /\ g[v].object = surface[v].object /\ g[v].views = surface[v].views
                             /\ g[v].live => surface[v].live
      BY <2>3 DEF QuietOn
    <3> QED
      BY <1>0, <1>1, <1>3, <2>1, <2>3, <3>1 DEF ViewsRight
  <2> QED
    BY <1>0, <2>1, <2>2, <2>4, <2>5 DEF Inner, Steady
<1>4. CASE w \in known /\ surface[w].views = {}
  <2>1. DeleteSurface(w)
    BY <1>4 DEF OnWindowRemoved
  <2>2. IsThere(surface, w)
    BY <1>0, <1>4 DEF ViewsRight, IsThere
  <2>3. PICK g : g = surface'
    OBVIOUS
  <2>4. /\ ModelRight(model', surface') /\ SurfacesRight(model', surface') /\ KeptAll(model')
        /\ Steady(model, model') /\ SteadyOn(surface, surface')
        /\ DeletedOn(surface, surface', w)
    BY <2>1, <2>2, DeletedRight
  <2>5. ViewsRight'
    <3>1. /\ g[w].object = "gone" /\ g[w].views = {}
          /\ \A v \in Windows \ { w } : /\ g[v].object = surface[v].object
                                        /\ g[v].views = surface[v].views /\ g[v].live = surface[v].live
      BY <1>4, <2>3, <2>4 DEF DeletedOn
    <3> QED
      BY <1>0, <1>1, <2>3, <3>1 DEF ViewsRight
  <2> QED
    BY <2>4, <2>5 DEF Inner
<1> QED
  BY <1>2, <1>3, <1>4

LEMMA DeferredSurfaceKeeps ==
  ASSUME Inner, NEW w \in Windows, DeferredDeleteSurface(w)
  PROVE  Inner' /\ Steady(model, model') /\ SteadyOn(surface, surface')
<1>0. ViewsRight
  BY DEF Inner
<1>1. surface[w].object = "doomed" /\ DeleteSurface(w) /\ known' = known /\ taken' = taken
  BY DEF DeferredDeleteSurface
<1>2. IsThere(surface, w)
  BY <1>1 DEF IsThere
<1>3. PICK g : g = surface'
  OBVIOUS
<1>4. /\ ModelRight(model', surface') /\ SurfacesRight(model', surface') /\ KeptAll(model')
      /\ Steady(model, model') /\ SteadyOn(surface, surface')
      /\ DeletedOn(surface, surface', w)
  BY <1>1, <1>2, DeletedRight
<1>5. ViewsRight'
  <2>1. /\ g[w].object = "gone" /\ g[w].views = surface[w].views
        /\ \A v \in Windows \ { w } : /\ g[v].object = surface[v].object
                                      /\ g[v].views = surface[v].views /\ g[v].live = surface[v].live
    BY <1>3, <1>4 DEF DeletedOn
  <2> QED
    BY <1>0, <1>1, <1>3, <2>1 DEF ViewsRight
<1> QED
  BY <1>4, <1>5 DEF Inner

LEMMA DeferredSessionKeeps ==
  ASSUME Inner, NEW s \in Sessions, DeferredDeleteSession(s)
  PROVE  Inner' /\ Steady(model, model') /\ SteadyOn(surface, surface')
<1>0. /\ ModelRight(model, surface) /\ SurfacesRight(model, surface) /\ KeptAll(model) /\ ViewsRight
      /\ surface \in [ Windows -> Surface ] /\ model \in Model
  BY ModelParts DEF Inner, SurfacesRight
<1>1. PICK n : n = model'
  OBVIOUS
<1>2. PICK g : g = surface'
  OBVIOUS
<1>3. model.object[s] = "doomed" /\ n = DeleteSession(model, s) /\ known' = known /\ taken' = taken
  BY <1>1 DEF DeferredDeleteSession
<1>4. g = [ w \in Windows |->
              IF surface[w].session # None /\ n.object[surface[w].session] = "gone"
                THEN [ surface[w] EXCEPT !.session = None ] ELSE surface[w] ]
  BY <1>1, <1>2 DEF DeferredDeleteSession, Cleared
<1>5. Exists(model, s)
  BY <1>3 DEF Exists
<1>6. /\ ModelRight(n, surface) /\ KeptAll(n) /\ Steady(model, n)
      /\ \A t \in Sessions : n.object[t] = "none" => model.object[t] = "none"
  BY <1>0, <1>3, <1>5, DeleteSessionRight
<1>7. n \in Model /\ n.object \in [ Sessions -> { "none", "live", "zombie", "doomed", "gone" } ]
  BY <1>6, ModelParts, ModelFields
<1>8. ASSUME NEW w \in Windows
      PROVE  /\ g[w] \in Surface /\ g[w].object = surface[w].object /\ g[w].ready = surface[w].ready
             /\ g[w].views = surface[w].views /\ g[w].live = surface[w].live
             /\ g[w].children = surface[w].children
             /\ g[w].session = IF surface[w].session # None /\ n.object[surface[w].session] = "gone"
                                 THEN None ELSE surface[w].session
  <2>1. surface[w] \in Surface
    BY <1>0
  <2>2. PICK q : q = [ surface[w] EXCEPT !.session = None ]
    OBVIOUS
  <2>3. /\ q \in Surface /\ q.object = surface[w].object /\ q.ready = surface[w].ready
        /\ q.views = surface[w].views /\ q.live = surface[w].live
        /\ q.children = surface[w].children /\ q.session = None
    BY <2>1, <2>2 DEF Surface
  <2> QED
    BY <1>4, <2>1, <2>2, <2>3
<1>9. g \in [ Windows -> Surface ]
  <2>1. g = [ w \in Windows |-> g[w] ]
    BY <1>4
  <2> QED
    BY <1>8, <2>1
<1>10. ModelRight(n, g)
  <2>1. n.rows \in [ Sessions -> Rows ] /\ n.closing \in [ Sessions -> SUBSET Windows ]
    BY <1>7, ModelFields
  <2>2. ASSUME NEW t \in Sessions, NEW v \in ToSet(n.rows[t]) \cup n.closing[t],
               surface[v].session = t, surface[v].ready
        PROVE  g[v].session = t /\ g[v].ready
    <3>1. v \in Windows
      BY <2>1, RowElements
    <3>2. n.rows[t] # << >> \/ n.closing[t] # {}
      BY EmptyRow
    <3>3. Exists(n, t)
      BY <1>6, <3>2, HasExists
    <3>4. n.object[t] # "gone"
      BY <3>3 DEF Exists
    <3> QED
      BY <1>8, <2>2, <3>1, <3>4
  <2> QED
    BY <1>6, <2>2, OtherSurfaces
<1>11. ASSUME NEW w \in Windows PROVE SurfaceRight(n, g, w)
  <2>1. /\ SurfaceRight(model, surface, w) /\ surface[w].session \in Sessions \cup { None }
        /\ surface[w].children \in Rows
    BY <1>0, SurfaceFields DEF SurfacesRight
  <2>2. \A v \in Windows : IsThere(g, v) <=> IsThere(surface, v)
    BY <1>8 DEF IsThere
  <2>3. \A v \in ToSet(surface[w].children) : v \in Windows
    BY <2>1, RowElements
  <2>4. g[w].session # None => g[w].session = surface[w].session /\ Exists(n, g[w].session)
    <3>1. ASSUME g[w].session # None
          PROVE  g[w].session = surface[w].session /\ Exists(n, g[w].session)
      <4>1. PICK t : t = surface[w].session
        OBVIOUS
      <4>2. g[w].session = t /\ t # None /\ t \in Sessions /\ n.object[t] # "gone"
        BY <1>8, <2>1, <3>1, <4>1
      <4>3. Exists(model, t)
        BY <2>1, <4>1, <4>2 DEF SurfaceRight
      <4>4. model.object[t] # "none"
        BY <4>3 DEF Exists
      <4>5. n.object[t] # "none" /\ n.object[t] \in { "none", "live", "zombie", "doomed", "gone" }
        BY <1>6, <1>7, <4>2, <4>4
      <4> QED
        BY <4>1, <4>2, <4>5 DEF Exists
    <3> QED
      BY <3>1
  <2>5. surface[w].session = None => g[w].session = None
    BY <1>8
  <2> QED
    BY <1>8, <2>1, <2>2, <2>3, <2>4, <2>5 DEF SurfaceRight
<1>12. SurfacesRight(n, g)
  BY <1>9, <1>11 DEF SurfacesRight
<1>13. ViewsRight' /\ SteadyOn(surface, g)
  <2>1. \A w \in Windows : /\ g[w].object = surface[w].object /\ g[w].views = surface[w].views
                           /\ g[w].live = surface[w].live /\ g[w].ready = surface[w].ready
    BY <1>8
  <2> QED
    BY <1>0, <1>2, <1>3, <2>1 DEF ViewsRight, SteadyOn
<1> QED
  BY <1>1, <1>2, <1>6, <1>10, <1>12, <1>13 DEF Inner

(* Surfaces that stay what they are, but for whether they are on their way out. *)
StillOn(f, g) ==
  /\ g \in [ Windows -> Surface ]
  /\ \A w \in Windows :
       /\ IsThere(g, w) <=> IsThere(f, w)
       /\ f[w].object = "none" => g[w].object = "none"
       /\ g[w].ready = f[w].ready /\ g[w].session = f[w].session /\ g[w].children = f[w].children

LEMMA StillRight ==
  ASSUME NEW m, NEW f, NEW g, ModelRight(m, f), SurfacesRight(m, f), StillOn(f, g)
  PROVE  ModelRight(m, g) /\ SurfacesRight(m, g) /\ SteadyOn(f, g)
<1>1. m.rows \in [ Sessions -> Rows ] /\ m.closing \in [ Sessions -> SUBSET Windows ]
  BY ModelParts, ModelFields
<1>2. ASSUME NEW s \in Sessions, NEW w \in ToSet(m.rows[s]) \cup m.closing[s],
             f[w].session = s, f[w].ready
      PROVE  g[w].session = s /\ g[w].ready
  <2>1. w \in Windows
    BY <1>1, RowElements
  <2> QED
    BY <1>2, <2>1 DEF StillOn
<1>3. ModelRight(m, g)
  BY <1>2, OtherSurfaces
<1>4. ASSUME NEW w \in Windows PROVE SurfaceRight(m, g, w)
  <2>1. SurfaceRight(m, f, w) /\ f[w].children \in Rows
    BY SurfaceFields DEF SurfacesRight
  <2>2. \A v \in ToSet(f[w].children) : v \in Windows
    BY <2>1, RowElements
  <2> QED
    BY <2>1, <2>2 DEF SurfaceRight, StillOn
<1>5. SteadyOn(f, g)
  BY DEF SteadyOn, StillOn
<1> QED
  BY <1>3, <1>4, <1>5 DEF SurfacesRight, StillOn

LEMMA UnregisteredIs ==
  ASSUME NEW r \in Surface, NEW i, NEW q, q = Unregistered(r, i)
  PROVE  /\ q \in Surface /\ q.ready = r.ready /\ q.session = r.session /\ q.children = r.children
         /\ q.live = r.live /\ q.views = r.views \ { i }
         /\ q.object = r.object \/ q.object = "doomed"
         /\ q.views = {} /\ ~ r.live => q.object = "doomed"
         /\ q.object # r.object => q.views = {}
<1>1. PICK V : V = r.views \ { i }
  OBVIOUS
<1>2. PICK p : p = [ r EXCEPT !.views = V ]
  OBVIOUS
<1>3. /\ p \in Surface /\ p.ready = r.ready /\ p.session = r.session /\ p.children = r.children
      /\ p.live = r.live /\ p.views = V /\ p.object = r.object
  BY <1>1, <1>2, SurfaceFields DEF Surface
<1>4. PICK d : d = [ p EXCEPT !.object = "doomed" ]
  OBVIOUS
<1>5. /\ d \in Surface /\ d.ready = r.ready /\ d.session = r.session /\ d.children = r.children
      /\ d.live = r.live /\ d.views = V /\ d.object = "doomed"
  BY <1>3, <1>4 DEF Surface
<1>6. q = IF V = {} /\ (~ r.live \/ r.session = None) THEN d ELSE p
  BY <1>1, <1>2, <1>3, <1>4 DEF Unregistered
<1> QED
  BY <1>1, <1>3, <1>5, <1>6

LEMMA ViewedIs ==
  ASSUME NEW r \in Surface, NEW i \in Items, NEW q, q = [ r EXCEPT !.views = @ \cup { i } ]
  PROVE  /\ q \in Surface /\ q.ready = r.ready /\ q.session = r.session /\ q.children = r.children
         /\ q.live = r.live /\ q.views = r.views \cup { i } /\ q.object = r.object
<1>1. PICK V : V = r.views \cup { i }
  OBVIOUS
<1>2. V \in SUBSET Items
  BY <1>1, SurfaceFields
<1>3. q = [ r EXCEPT !.views = V ]
  BY <1>1
<1> QED
  BY <1>1, <1>2, <1>3 DEF Surface

LEMMA SetSurfaceKeeps ==
  ASSUME Inner, NEW i \in Items, NEW w \in Windows \cup { None }, SetSurface(i, w)
  PROVE  Inner' /\ Steady(model, model') /\ SteadyOn(surface, surface')
<1>0. /\ ModelRight(model, surface) /\ SurfacesRight(model, surface) /\ KeptAll(model) /\ ViewsRight
      /\ surface \in [ Windows -> Surface ]
  BY DEF Inner, SurfacesRight
<1>1. PICK g : g = surface'
  OBVIOUS
<1>2. /\ w # None => surface[w].object \in { "alive", "doomed" }
      /\ \A v \in Shown(i) : surface[v].object # "gone"
      /\ g = [ v \in Windows |->
                 IF v \in Shown(i) THEN Unregistered(surface[v], i)
                 ELSE IF v = w THEN [ surface[v] EXCEPT !.views = @ \cup { i } ] ELSE surface[v] ]
      /\ known' = known \ { v \in Shown(i) : g[v].object = "doomed" }
      /\ taken' = IF w # None /\ surface[w].object = "doomed" THEN taken \cup { w } ELSE taken
      /\ model' = model /\ w \notin Shown(i)
  BY <1>1 DEF SetSurface
<1>3. ASSUME NEW v \in Windows, v \in Shown(i)
      PROVE  /\ g[v] \in Surface /\ g[v].ready = surface[v].ready
             /\ g[v].session = surface[v].session /\ g[v].children = surface[v].children
             /\ g[v].live = surface[v].live
             /\ g[v].object = surface[v].object \/ g[v].object = "doomed"
             /\ g[v].views = {} /\ ~ surface[v].live => g[v].object = "doomed"
             /\ g[v].object # surface[v].object => g[v].views = {}
             /\ surface[v].object \in { "alive", "doomed" } /\ surface[v].views # {}
  <2>1. surface[v] \in Surface /\ surface[v].object \in { "none", "alive", "doomed", "gone" }
    BY <1>0, SurfaceFields
  <2>2. surface[v].views # {}
    BY <1>3 DEF Shown
  <2>3. surface[v].object # "none" /\ surface[v].object # "gone"
    BY <1>0, <1>2, <1>3, <2>2 DEF ViewsRight
  <2>4. g[v] = Unregistered(surface[v], i)
    BY <1>2, <1>3
  <2>5. /\ g[v] \in Surface /\ g[v].ready = surface[v].ready
        /\ g[v].session = surface[v].session /\ g[v].children = surface[v].children
        /\ g[v].live = surface[v].live
        /\ g[v].object = surface[v].object \/ g[v].object = "doomed"
        /\ g[v].views = {} /\ ~ surface[v].live => g[v].object = "doomed"
        /\ g[v].object # surface[v].object => g[v].views = {}
    BY <2>1, <2>4, UnregisteredIs
  <2> QED
    BY <2>1, <2>2, <2>3, <2>5
<1>4. ASSUME NEW v \in Windows, v \notin Shown(i)
      PROVE  /\ g[v] \in Surface /\ g[v].ready = surface[v].ready
             /\ g[v].session = surface[v].session /\ g[v].children = surface[v].children
             /\ g[v].live = surface[v].live /\ g[v].object = surface[v].object
             /\ v # w => g[v].views = surface[v].views
             /\ v = w => g[v].views = surface[v].views \cup { i }
  <2>1. surface[v] \in Surface
    BY <1>0
  <2>2. CASE v = w
    <3>1. g[v] = [ surface[v] EXCEPT !.views = @ \cup { i } ]
      BY <1>2, <1>4, <2>2
    <3> QED
      BY <2>1, <2>2, <3>1, ViewedIs
  <2>3. CASE v # w
    BY <1>2, <1>4, <2>1, <2>3
  <2> QED
    BY <2>2, <2>3
<1>5. StillOn(surface, g)
  <2>1. g = [ v \in Windows |-> g[v] ] /\ \A v \in Windows : g[v] \in Surface
    BY <1>2, <1>3, <1>4
  <2>2. g \in [ Windows -> Surface ]
    BY <2>1
  <2>3. ASSUME NEW v \in Windows
        PROVE  /\ IsThere(g, v) <=> IsThere(surface, v)
               /\ surface[v].object = "none" => g[v].object = "none"
               /\ g[v].ready = surface[v].ready /\ g[v].session = surface[v].session
               /\ g[v].children = surface[v].children
    <3>1. CASE v \in Shown(i)
      BY <1>3, <3>1 DEF IsThere
    <3>2. CASE v \notin Shown(i)
      BY <1>4, <3>2 DEF IsThere
    <3> QED
      BY <3>1, <3>2
  <2> QED
    BY <2>2, <2>3 DEF StillOn
<1>6. ModelRight(model, g) /\ SurfacesRight(model, g) /\ SteadyOn(surface, g)
  BY <1>0, <1>5, StillRight
<1>7. known' \subseteq Windows /\ taken' \subseteq Windows /\ taken \subseteq taken'
  BY <1>0, <1>2 DEF ViewsRight
<1>8. ASSUME NEW v \in Windows
      PROVE  /\ v \in known' => g[v].object = "alive"
             /\ g[v].object = "alive" /\ v \notin known' => g[v].views # {} /\ ~ g[v].live
             /\ g[v].object \in { "doomed", "gone" } /\ v \notin taken' => g[v].views = {}
             /\ g[v].object = "none" => g[v].views = {}
  <2>1. /\ v \in known => surface[v].object = "alive"
        /\ surface[v].object = "alive" /\ v \notin known => surface[v].views # {} /\ ~ surface[v].live
        /\ surface[v].object \in { "doomed", "gone" } /\ v \notin taken => surface[v].views = {}
        /\ surface[v].object = "none" => surface[v].views = {}
    BY <1>0 DEF ViewsRight
  <2>2. CASE v \in Shown(i)
    <3>1. v \in known' <=> v \in known /\ g[v].object # "doomed"
      BY <1>2, <2>2
    <3>2. /\ g[v].live = surface[v].live
          /\ g[v].object = surface[v].object \/ g[v].object = "doomed"
          /\ g[v].views = {} /\ ~ surface[v].live => g[v].object = "doomed"
          /\ g[v].object # surface[v].object => g[v].views = {}
          /\ surface[v].object \in { "alive", "doomed" } /\ surface[v].views # {}
      BY <1>3, <2>2
    <3> QED
      BY <1>7, <2>1, <3>1, <3>2
  <2>3. CASE v \notin Shown(i)
    <3>1. v \in known' <=> v \in known
      BY <1>2, <2>3
    <3>2. /\ g[v].live = surface[v].live /\ g[v].object = surface[v].object
          /\ v # w => g[v].views = surface[v].views
          /\ v = w => g[v].views = surface[v].views \cup { i }
      BY <1>4, <2>3
    <3>3. CASE v # w
      BY <1>7, <2>1, <3>1, <3>2, <3>3
    <3>4. CASE v = w
      <4>1. v # None
        BY NoneApart
      <4>2. surface[v].object \in { "alive", "doomed" } /\ (surface[v].object = "doomed" => v \in taken')
        BY <1>2, <3>4, <4>1
      <4> QED
        BY <2>1, <3>1, <3>2, <3>4, <4>2
    <3> QED
      BY <3>3, <3>4
  <2> QED
    BY <2>2, <2>3
<1>9. ViewsRight'
  BY <1>1, <1>7, <1>8 DEF ViewsRight
<1> QED
  BY <1>0, <1>1, <1>2, <1>6, <1>9 DEF Inner, Steady

LEMMA CloseSurfaceKeeps ==
  ASSUME Inner, NEW w \in Windows, CloseSurface(w)
  PROVE  Inner' /\ Steady(model, model') /\ SteadyOn(surface, surface')
<1>0. /\ ModelRight(model, surface) /\ SurfacesRight(model, surface) /\ KeptAll(model) /\ ViewsRight
      /\ surface \in [ Windows -> Surface ]
  BY DEF Inner, SurfacesRight
<1>1. PICK g : g = surface'
  OBVIOUS
<1>2. PICK s : s = surface[w].session
  OBVIOUS
<1>3. /\ surface[w].ready /\ g = [ surface EXCEPT ![w].closing = TRUE ]
      /\ model' = IF s = None THEN model
                  ELSE RemoveRow([ model EXCEPT !.closing[s] = @ \cup { w } ], s, w)
      /\ known' = known /\ taken' = taken
  BY <1>1, <1>2 DEF CloseSurface
<1>4. /\ g \in [ Windows -> Surface ]
      /\ \A v \in Windows :
           /\ g[v].object = surface[v].object /\ g[v].ready = surface[v].ready
           /\ g[v].session = surface[v].session /\ g[v].views = surface[v].views
           /\ g[v].children = surface[v].children /\ g[v].live = surface[v].live
  <2>1. PICK q : q = [ surface[w] EXCEPT !.closing = TRUE ]
    OBVIOUS
  <2>2. surface[w] \in Surface
    BY <1>0
  <2>3. /\ q \in Surface /\ q.object = surface[w].object /\ q.ready = surface[w].ready
        /\ q.session = surface[w].session /\ q.views = surface[w].views
        /\ q.children = surface[w].children /\ q.live = surface[w].live
    BY <2>1, <2>2 DEF Surface
  <2>4. g = [ surface EXCEPT ![w] = q ]
    BY <1>0, <1>3, <2>1
  <2>5. g \in [ Windows -> Surface ] /\ g[w] = q /\ \A v \in Windows \ { w } : g[v] = surface[v]
    BY <1>0, <2>3, <2>4
  <2> QED
    BY <2>3, <2>5
<1>5. StillOn(surface, g)
  BY <1>4 DEF StillOn, IsThere
<1>6. ModelRight(model, g) /\ SurfacesRight(model, g) /\ SteadyOn(surface, g)
  BY <1>0, <1>5, StillRight
<1>7. ViewsRight'
  BY <1>0, <1>1, <1>3, <1>4 DEF ViewsRight
<1>8. /\ ModelRight(model', g) /\ KeptAll(model') /\ Steady(model, model')
      /\ \A t \in Sessions : Exists(model', t) <=> Exists(model, t)
  <2>1. CASE s = None
    BY <1>0, <1>3, <1>6, <2>1 DEF Steady
  <2>2. CASE s # None
    <3>1. s \in Sessions
      BY <1>0, <1>2, <2>2, SurfaceFields
    <3>2. Exists(model, s)
      BY <1>0, <1>2, <2>2 DEF SurfacesRight, SurfaceRight
    <3>3. PICK C : C = model.closing[s] \cup { w }
      OBVIOUS
    <3>4. model.closing \in [ Sessions -> SUBSET Windows ] /\ C \in SUBSET Windows
      <4>1. model.closing \in [ Sessions -> SUBSET Windows ]
        BY <1>0, ModelParts, ModelFields
      <4> QED
        BY <3>1, <3>3, <4>1
    <3>5. PICK n : n = Closed(model, s, C)
      OBVIOUS
    <3>6. model' = RemoveRow(n, s, w)
      <4>1. [ model EXCEPT !.closing[s] = @ \cup { w } ] = n
        <5>1. model \in Model
          BY <1>0, ModelParts
        <5> QED
          BY <3>3, <3>5 DEF Closed
      <4> QED
        BY <1>3, <2>2, <4>1
    <3>7. \A t \in Sessions : \A v \in ToSet(model.rows[t]) \cup model.closing[t] :
            g[v].session = t /\ g[v].ready
      BY <1>6, ModelParts
    <3>8. g[w].session = s /\ g[w].ready
      BY <1>2, <1>3, <1>4
    <3>9. \A v \in C : g[v].session = s /\ g[v].ready
      BY <3>1, <3>3, <3>7, <3>8
    <3>10. /\ ModelRight(n, g) /\ (KeptAll(model) => KeptAll(n))
           /\ n.object = model.object /\ n.parent = model.parent
      BY <1>6, <3>1, <3>2, <3>4, <3>5, <3>7, <3>9, ClosedRight
    <3>11. PICK o : o = model'
      OBVIOUS
    <3>12. o = RemoveRow(n, s, w)
      BY <3>6, <3>11
    <3>13. /\ ModelRight(o, g) /\ Steady(n, o) /\ (KeptAll(n) => KeptAll(o)) /\ RowLess(n, o, s, w)
      BY <3>1, <3>10, <3>12, RemoveRowRight
    <3>14. \A t \in Sessions : Exists(o, t) <=> Exists(n, t)
      BY <3>13 DEF RowLess
    <3>15. \A t \in Sessions : Exists(n, t) <=> Exists(model, t)
      BY <3>10 DEF Exists
    <3> QED
      BY <1>0, <3>10, <3>11, <3>13, <3>14, <3>15 DEF Steady
  <2> QED
    BY <2>1, <2>2
<1>9. SurfacesRight(model', g)
  BY <1>6, <1>8, MoreExist
<1> QED
  BY <1>1, <1>6, <1>7, <1>8, <1>9 DEF Inner

------------------------------------------------------------------------------
(* The specification.                                                       *)

LEMMA HandleKeeps ==
  ASSUME Inner, NEW h \in Notices, Fits(h, model, surface), Handle(h),
         h.kind = "providerAdded" => h.session \notin { h.of } \cup Above(model, h.of)
  PROVE  Inner' /\ Only(h, model, model', surface, surface')
<1>1. CASE h.kind = "appAdded" /\ SessionStarting(h.session)
  <2>1. h.session \in Sessions /\ model.object[h.session] = "none"
    BY <1>1, NoticeKinds DEF Fits
  <2> QED
    BY <1>1, <2>1, SessionStartingKeeps
<1>2. CASE h.kind = "appRemoved" /\ SessionStopping(h.session)
  <2>1. h.session \in Sessions
    BY <1>2, NoticeKinds
  <2> QED
    BY <1>2, <2>1, SessionStoppingKeeps, SteadyOnly
<1>3. CASE h.kind = "windowAdded" /\ OnWindowAdded(h.window, h.session, h.parent)
  <2>1. /\ h.window \in Windows /\ h.session \in Sessions /\ h.parent \in Windows \cup { None }
        /\ surface[h.window].object = "none"
    BY <1>3, NoticeKinds DEF Fits
  <2> QED
    BY <1>3, <2>1, WindowAddedKeeps
<1>4. CASE h.kind = "windowReady" /\ OnWindowReady(h.window)
  <2>1. h.window \in Windows /\ ~ surface[h.window].ready
    BY <1>4, NoticeKinds DEF Fits
  <2> QED
    BY <1>4, <2>1, WindowReadyKeeps
<1>5. CASE h.kind = "focus" /\ OnWindowFocused(h.window)
  <2>1. h.window \in Windows
    BY <1>5, NoticeKinds
  <2> QED
    BY <1>5, <2>1, WindowFocusedKeeps, SteadyOnly
<1>6. CASE h.kind = "windowRemoved" /\ OnWindowRemoved(h.window)
  <2>1. h.window \in Windows
    BY <1>6, NoticeKinds
  <2> QED
    BY <1>6, <2>1, WindowRemovedKeeps, SteadyOnly
<1>7. CASE h.kind = "promptStarting" /\ OnPromptSessionStarting(h.session)
  <2>1. h.session \in Sessions
    BY <1>7, NoticeKinds
  <2> QED
    BY <1>7, <2>1, PromptStartingKeeps, SteadyOnly
<1>8. CASE h.kind = "providerAdded" /\ OnPromptProviderAdded(h.session, h.of)
  <2>1. h.session \in Sessions /\ h.of \in Sessions /\ model.parent[h.session] = None
    BY <1>8, NoticeKinds DEF Fits
  <2> QED
    BY <1>8, <2>1, ProviderAddedKeeps
<1>9. CASE h.kind = "providerRemoved" /\ OnPromptProviderRemoved(h.session)
  <2>1. h.session \in Sessions
    BY <1>9, NoticeKinds
  <2> QED
    BY <1>9, <2>1, ProviderRemovedKeeps, SteadyOnly
<1>10. CASE h.kind = "promptStopping" /\ OnPromptSessionStopping(h.session)
  <2>1. h.session \in Sessions
    BY <1>10, NoticeKinds
  <2> QED
    BY <1>10, <2>1, PromptStoppingKeeps, SteadyOnly
<1> QED
  BY <1>1, <1>2, <1>3, <1>4, <1>5, <1>6, <1>7, <1>8, <1>9, <1>10 DEF Handle

(* A provider does not provide for itself, nor for one below it.            *)
LEMMA NotAbove ==
  ASSUME Inner, Unheard, Provided, NEW s \in Sessions, NEW asker \in Sessions, asker = provides[s]
  PROVE  s \notin { asker } \cup Above(model, asker)
<1>1. PICK P : P = model.parent
  OBVIOUS
<1>2. PICK Q : Q = provides
  OBVIOUS
<1>3. P \in Parents /\ Q \in Parents /\ Above(model, asker) = AboveIn(P, asker)
  <2>1. model \in Model
    BY ModelParts DEF Inner
  <2>2. P \in Parents
    BY <1>1, <2>1, Family
  <2>3. Q \in Parents
    BY <1>2 DEF Unheard, MirRight, Parents
  <2> QED
    BY <1>1, <2>2, <2>3 DEF Above
<1>4. \A t \in Sessions : P[t] \in { None, Q[t] }
  BY <1>1, <1>2 DEF Provided
<1>5. AboveIn(P, asker) \subseteq AboveIn(Q, asker)
  BY <1>3, <1>4, AboveFewer
<1>6. Q[s] # None /\ Q[s] = asker
  BY <1>2, NoneApart
<1>7. AboveIn(Q, s) = { Q[s] } \cup AboveIn(Q, Q[s])
  BY <1>3, <1>6, AboveStep
<1>8. s \notin AboveIn(Q, s)
  BY <1>2 DEF Provided
<1> QED
  BY <1>3, <1>5, <1>6, <1>7, <1>8

LEMMA DeliverKeeps ==
  ASSUME Whole, Deliver
  PROVE  Whole'
<1>0. Inner /\ Announced /\ Unheard /\ Provided
  BY DEF Whole, Inner
<1>1. PICK h : h = Head(notices)
  OBVIOUS
<1>2. notices # << >> /\ notices \in Seq(Notices)
  BY <1>0 DEF Deliver, Announced
<1>3. h \in Notices /\ 1 \in DOMAIN notices /\ h = notices[1]
  BY <1>1, <1>2, TailAt
<1>4. Fits(h, model, surface)
  BY <1>0, <1>3 DEF Announced
<1>5. Handle(h) /\ notices' = Tail(notices) /\ UNCHANGED << window, client, prompt, provides >>
  BY <1>1 DEF Deliver
<1>6. h.kind = "providerAdded" => h.session \notin { h.of } \cup Above(model, h.of)
  <2>1. ASSUME h.kind = "providerAdded"
        PROVE  h.session \notin { h.of } \cup Above(model, h.of)
    <3>1. h.of = provides[h.session]
      BY <1>0, <1>3, <2>1 DEF Provided, NoticeOf
    <3>2. h.session \in Sessions /\ h.of \in Sessions
      BY <1>3, <2>1, NoticeKinds
    <3> QED
      BY <1>0, <3>1, <3>2, NotAbove
  <2> QED
    BY <2>1
<1>7. Inner' /\ Only(h, model, model', surface, surface')
  BY <1>0, <1>3, <1>4, <1>5, <1>6, HandleKeeps
<1>8. Announced' /\ Unheard' /\ Provided'
  BY <1>0, <1>1, <1>2, <1>5, <1>7, DeliveredRight
<1> QED
  BY <1>7, <1>8 DEF Whole, Inner

LEMMA QuietStep ==
  ASSUME Whole, UNCHANGED mirVars, Inner', Steady(model, model'), SteadyOn(surface, surface')
  PROVE  Whole'
<1>1. Announced /\ Unheard /\ Provided
  BY DEF Whole
<1>2. Announced' /\ Unheard' /\ Provided'
  BY <1>1, StillUnheard
<1> QED
  BY <1>2 DEF Whole, Inner

LEMMA InitWhole == Init => Whole
<1> SUFFICES ASSUME Init PROVE Whole
  OBVIOUS
<1>1. /\ window = [ w \in Windows |-> [ state |-> "none", client |-> None ] ]
      /\ client = [ s \in Sessions |-> "none" ]
      /\ prompt = [ s \in Sessions |-> "none" ]
      /\ provides = [ s \in Sessions |-> None ]
      /\ notices = << >>
      /\ surface = [ w \in Windows |-> NoSurface ]
      /\ known = {} /\ taken = {}
  BY DEF Init
<1>2. /\ model.object = [ s \in Sessions |-> "none" ] /\ model.known = {}
      /\ model.rows = [ s \in Sessions |-> << >> ] /\ model.closing = [ s \in Sessions |-> {} ]
      /\ model.parent = [ s \in Sessions |-> None ] /\ model.prompts = [ s \in Sessions |-> << >> ]
      /\ model.attached = {} /\ model.appRows = << >> /\ model.proxied = None
      /\ model.prompted = {} /\ model.asking = {}
  BY DEF Init
<1>3. model \in Model
  <2>1. << >> \in Rows /\ << >> \in Seq(Windows)
    BY EmptyRow
  <2>2. /\ [ s \in Sessions |-> "none" ]
             \in [ Sessions -> { "none", "live", "zombie", "doomed", "gone" } ]
        /\ [ s \in Sessions |-> << >> ] \in [ Sessions -> Rows ]
        /\ [ s \in Sessions |-> {} ] \in [ Sessions -> SUBSET Windows ]
        /\ [ s \in Sessions |-> None ] \in [ Sessions -> Sessions \cup { None } ]
        /\ [ s \in Sessions |-> << >> ] \in [ Sessions -> Seq(Windows) ]
    BY <2>1
  <2> QED
    BY <2>1, <2>2 DEF Init, Model
<1>4. /\ \A s \in Sessions : ~ Exists(model, s) /\ model.parent[s] = None /\ Above(model, s) = {}
      /\ \A s \in Sessions : Below(model, s) = {}
  <2>1. \A s \in Sessions : ~ Exists(model, s) /\ model.parent[s] = None
    BY <1>2 DEF Exists
  <2>2. \A s \in Sessions : Above(model, s) = {}
    BY <2>1, AboveSome DEF Above
  <2> QED
    BY <2>1, <2>2 DEF Below
<1>5. ASSUME NEW s \in Sessions PROVE SessionRight(model, surface, s)
  <2>1. NoTrace(model, s)
    BY <1>2 DEF NoTrace
  <2>2. \A w \in ToSet(model.rows[s]) \cup model.closing[s] : FALSE
    BY <1>2, EmptyRow
  <2>3. Comb(model.prompts[s], model.rows, Below(model, s))
    <3>1. PICK l : l = model.prompts[s]
      OBVIOUS
    <3>2. PICK T : T = Below(model, s)
      OBVIOUS
    <3>3. l = << >> /\ T = {}
      BY <1>2, <1>4, <3>1, <3>2
    <3>4. Comb(l, model.rows, T)
      BY <3>3, CombNone
    <3> QED
      BY <3>1, <3>2, <3>4
  <2> QED
    BY <1>4, <2>1, <2>2, <2>3 DEF SessionRight
<1>6. Comb(model.appRows, model.rows, model.attached)
  BY <1>2, CombNone
<1>7. ModelRight(model, surface)
  BY <1>2, <1>3, <1>5, <1>6 DEF ModelRight
<1>8. NoSurface \in Surface
  BY EmptyRow DEF NoSurface, Surface
<1>9. \A w \in Windows : /\ surface[w].object = "none" /\ surface[w].session = None
                         /\ ~ surface[w].ready /\ surface[w].children = << >>
                         /\ surface[w].views = {}
  BY <1>1 DEF NoSurface
<1>10. SurfacesRight(model, surface)
  <2>1. surface \in [ Windows -> Surface ]
    BY <1>1, <1>8
  <2> QED
    BY <1>9, <2>1, EmptyRow DEF SurfacesRight, SurfaceRight
<1>11. KeptAll(model)
  BY <1>2 DEF KeptAll, Kept_
<1>12. ViewsRight
  BY <1>1, <1>9 DEF ViewsRight
<1>13. notices \in Seq(Notices) /\ DOMAIN notices = {}
  BY <1>1
<1>14. Announced
  BY <1>13 DEF Announced
<1>15. MirRight
  BY <1>1 DEF MirRight
<1>16. \A s \in Sessions : UnheardSession(s)
  BY <1>2, <1>13 DEF UnheardSession, PendingOf
<1>18. Provided
  <2>1. \A s \in Sessions : AboveIn(provides, s) = {}
    BY <1>1, AboveSome
  <2> QED
    BY <1>2, <1>13, <2>1 DEF Provided
<1>17. \A w \in Windows : UnheardWindow(w)
  BY <1>9, <1>13 DEF UnheardWindow, Pending
<1> QED
  BY <1>7, <1>10, <1>11, <1>12, <1>14, <1>15, <1>16, <1>17, <1>18 DEF Whole, Unheard

LEMMA NextWhole == Whole /\ [Next]_vars => Whole'
<1> SUFFICES ASSUME Whole, [Next]_vars PROVE Whole'
  OBVIOUS
<1>0. Inner
  BY DEF Whole, Inner
<1>1. CASE UNCHANGED vars
  <2>1. UNCHANGED mirVars /\ UNCHANGED surfaceVars /\ model' = model
    BY <1>1 DEF vars
  <2>2. Inner' /\ Steady(model, model') /\ SteadyOn(surface, surface')
    BY <1>0, <2>1 DEF surfaceVars, Inner, ViewsRight, Steady, SteadyOn
  <2> QED
    BY <2>1, <2>2, QuietStep
<1>2. ASSUME NEW s \in Sessions, ClientConnects(s) PROVE Whole'
  BY <1>2, ClientConnectsKeeps
<1>3. ASSUME NEW s \in Sessions,
             ClientEnds(s) \/ PromptStarts(s) \/ PromptEnds(s) \/ ProviderLeaves(s)
      PROVE  Whole'
  BY <1>3, SessionPostsKeep
<1>4. ASSUME NEW s \in Sessions, NEW asker \in Sessions, ProviderJoins(s, asker) PROVE Whole'
  BY <1>4, ProviderJoinsKeeps
<1>5. ASSUME NEW s \in Sessions, DeferredDeleteSession(s) PROVE Whole'
  <2>1. UNCHANGED mirVars
    BY <1>5 DEF DeferredDeleteSession
  <2> QED
    BY <1>0, <1>5, <2>1, DeferredSessionKeeps, QuietStep
<1>6. ASSUME NEW w \in Windows, NEW s \in Sessions, NEW p \in Windows \cup { None },
             WindowOpens(w, s, p)
      PROVE  Whole'
  BY <1>6, WindowOpensKeeps
<1>7. ASSUME NEW w \in Windows, WindowDraws(w) PROVE Whole'
  BY <1>7, WindowDrawsKeeps
<1>8. ASSUME NEW w \in Windows, FocusChanges(w) \/ WindowCloses(w) PROVE Whole'
  BY <1>8, WindowPostsKeep
<1>9. ASSUME NEW w \in Windows, DeferredDeleteSurface(w) PROVE Whole'
  <2>1. UNCHANGED mirVars
    BY <1>9 DEF DeferredDeleteSurface
  <2> QED
    BY <1>0, <1>9, <2>1, DeferredSurfaceKeeps, QuietStep
<1>10. ASSUME NEW w \in Windows, CloseSurface(w) PROVE Whole'
  <2>1. UNCHANGED mirVars
    BY <1>10 DEF CloseSurface
  <2> QED
    BY <1>0, <1>10, <2>1, CloseSurfaceKeeps, QuietStep
<1>11. CASE Deliver
  BY <1>11, DeliverKeeps
<1>12. ASSUME NEW i \in Items, NEW w \in Windows \cup { None }, SetSurface(i, w) PROVE Whole'
  <2>1. UNCHANGED mirVars
    BY <1>12 DEF SetSurface
  <2> QED
    BY <1>0, <1>12, <2>1, SetSurfaceKeeps, QuietStep
<1> QED
  BY <1>1, <1>2, <1>3, <1>4, <1>5, <1>6, <1>7, <1>8, <1>9, <1>10, <1>11, <1>12 DEF Next

LEMMA AlwaysWhole == Spec => []Whole
<1>1. Whole /\ [Next]_vars => Whole'
  BY NextWhole
<1> QED
  BY <1>1, InitWhole, PTL DEF Spec

LEMMA WholeTyped == Whole => TypeOK
<1> SUFFICES ASSUME Whole PROVE TypeOK
  OBVIOUS
<1>1. MirRight /\ surface \in [ Windows -> Surface ] /\ model \in Model
      /\ known \subseteq Windows /\ taken \subseteq Windows
  BY ModelParts DEF Whole, Unheard, SurfacesRight, ViewsRight
<1> QED
  BY <1>1 DEF TypeOK, MirRight

LEMMA WholeDangles == Whole => NothingDangles
<1> SUFFICES ASSUME Whole PROVE NothingDangles
  OBVIOUS
<1>0. /\ ModelRight(model, surface) /\ SurfacesRight(model, surface) /\ ViewsRight
      /\ surface \in [ Windows -> Surface ]
  BY DEF Whole, SurfacesRight
<1>1. /\ model.rows \in [ Sessions -> Rows ] /\ model.closing \in [ Sessions -> SUBSET Windows ]
      /\ model.attached \in SUBSET Sessions /\ model.prompted \in SUBSET Sessions
      /\ model.known \in SUBSET Sessions /\ model.parent \in [ Sessions -> Sessions \cup { None } ]
  BY <1>0, ModelParts, ModelFields
<1>2. \A w \in Windows : There(w) <=> IsThere(surface, w)
  BY DEF There, IsThere
<1>3. ASSUME NEW s \in Sessions, NEW w \in ToSet(model.rows[s]) \cup model.closing[s]
      PROVE  There(w)
  <2>1. w \in Windows
    BY <1>1, RowElements
  <2>2. surface[w].session = s /\ s # None
    BY <1>0, ModelParts, NoneApart
  <2>3. SurfaceRight(model, surface, w)
    BY <1>0, <2>1 DEF SurfacesRight
  <2> QED
    BY <1>2, <2>1, <2>2, <2>3 DEF SurfaceRight
<1>4. ASSUME NEW T \in SUBSET Sessions, NEW l, Comb(l, model.rows, T), NEW w \in ToSet(l)
      PROVE  There(w)
  <2>1. PICK s \in T : w \in ToSet(model.rows[s])
    BY <1>4 DEF Comb
  <2> QED
    BY <1>3, <2>1
<1>5. \A w \in known \cup ToSet(model.appRows) : There(w)
  <2>1. \A w \in known : There(w)
    BY <1>0 DEF ViewsRight, There
  <2>2. \A w \in ToSet(model.appRows) : There(w)
    BY <1>0, <1>1, <1>4, ModelParts
  <2> QED
    BY <2>1, <2>2
<1>6. ASSUME NEW w \in Windows, There(w), NEW v \in ToSet(surface[w].children)
      PROVE  There(v)
  <2>1. SurfaceRight(model, surface, w) /\ surface[w].children \in Rows
    BY <1>0, SurfaceFields DEF SurfacesRight
  <2>2. v \in Windows
    BY <2>1, RowElements
  <2> QED
    BY <1>2, <2>1, <2>2 DEF SurfaceRight
<1>7. ASSUME NEW s \in Sessions
      PROVE  /\ \A w \in ToSet(model.rows[s]) \cup ToSet(model.prompts[s]) \cup model.closing[s] :
                  There(w)
             /\ model.parent[s] # None => Exists(model, model.parent[s])
  <2>1. Comb(model.prompts[s], model.rows, Below(model, s)) /\ Below(model, s) \in SUBSET Sessions
    <3>1. Below(model, s) \in SUBSET Sessions
      BY DEF Below
    <3> QED
      BY <1>0, <3>1, ModelParts
  <2>2. \A w \in ToSet(model.prompts[s]) : There(w)
    BY <1>4, <2>1
  <2>3. model.parent[s] # None => Exists(model, model.parent[s])
    BY <1>0, ModelParts
  <2> QED
    BY <1>3, <2>2, <2>3
<1>8. \A w \in Windows \ taken : surface[w].object = "gone" => surface[w].views = {}
  BY <1>0 DEF ViewsRight
<1>9. ASSUME NEW s \in model.known \cup model.attached \cup ({ model.proxied } \ { None })
                      \cup model.prompted
      PROVE  Exists(model, s)
  <2>1. s \in model.known \cup model.attached \cup model.asking /\ s \in Sessions
    <3>1. model.proxied # None => model.proxied \in model.attached
      BY <1>0, ModelParts
    <3>2. model.prompted \subseteq model.asking
      BY <1>0, ModelParts
    <3> QED
      BY <1>1, <1>9, <3>1, <3>2
  <2> QED
    BY <1>0, <2>1, HasExists
<1> QED
  BY <1>5, <1>6, <1>7, <1>8, <1>9 DEF NothingDangles

LEMMA WholeAgrees == Whole => ListsAgree
<1> SUFFICES ASSUME Whole PROVE ListsAgree
  OBVIOUS
<1>0. ModelRight(model, surface)
  BY DEF Whole
<1>1. model.rows \in [ Sessions -> Rows ] /\ model.attached \in SUBSET Sessions
  BY <1>0, ModelParts, ModelFields
<1>2. Combines(model.appRows, model.attached)
  BY <1>0, <1>1, ModelParts, CombCombines
<1>3. ASSUME NEW s \in Sessions PROVE Combines(model.prompts[s], Below(model, s))
  <2>1. Below(model, s) \in SUBSET Sessions
    BY DEF Below
  <2> QED
    BY <1>0, <1>1, <2>1, ModelParts, CombCombines
<1> QED
  BY <1>2, <1>3 DEF ListsAgree

LEMMA WholeLeaks == Whole => NothingLeaks
BY DEF Whole, ViewsRight, KeptAll, Kept_, NothingLeaks

------------------------------------------------------------------------------
(* The theorems.                                                            *)

(* Every variable has its type: every list of a session and of a surface    *)
(* has a surface at most once.                                              *)
THEOREM SurfacesTyped == Spec => []TypeOK
BY AlwaysWhole, WholeTyped, PTL

(* Nothing dangles: what the lists, SurfaceManager and the sessions have is *)
(* there, what an item displays is, unless it took it on its way out, and   *)
(* no session is remembered that was deleted, for any windows, sessions,    *)
(* roles and items, and in whatever order they come and go.                 *)
THEOREM SurfacesStand == Spec => []NothingDangles
BY AlwaysWhole, WholeDangles, PTL

(* The list of an application combines those of its sessions, and the       *)
(* prompt list of a session those of its children and of all below them,    *)
(* which the prompt lists of the children combine: all of them, once, and   *)
(* in their order, with every insertion, removal, raise and change of       *)
(* sources that MirSurfaceListModel applies to them, for sessions that ask  *)
(* for prompts and provide them to any depth.                               *)
THEOREM CombinedListsAgree == Spec => []ListsAgree
BY AlwaysWhole, WholeAgrees, PTL

(* A surface that SurfaceManager has forgotten is displayed or on its way   *)
(* out, and a session that has died has a surface or a child left or is on  *)
(* its way out.                                                             *)
THEOREM SurfacesAreReleased == Spec => []NothingLeaks
BY AlwaysWhole, WholeLeaks, PTL

==============================================================================
