------------------------ MODULE SharedWakelockProofs ------------------------
(***************************************************************************)
(* Theorems about SharedWakelock, for any owners, cookies and bound.       *)
(*                                                                         *)
(* The argument is about the order of what the bus brings: Settles says    *)
(* what the shell will think of powerd's presence after a number of        *)
(* messages. A cookie is in the inbox only where powerd will be taken for  *)
(* present, an error only where it will be taken for gone, and no cookie   *)
(* powerd still honours has news of powerd's end behind it.                *)
(***************************************************************************)
EXTENDS SharedWakelock, TLAPS

News(up) == IF up THEN "registered" ELSE "unregistered"

(* Starting from a, the first n messages of s leave the shell with up. *)
Settles(s, n, a, up) ==
  \/ a = up /\ \A j \in 1..n : s[j] # News(~up)
  \/ \E k \in 1..n : s[k] = News(up) /\ \A j \in (k + 1)..n : s[j] # News(~up)

LEMMA Names ==
  /\ \A c \in Cookies : c \notin BusNews /\ c # "request" /\ c # NoCookie
  /\ \A up \in BOOLEAN : News(up) \in BusNews /\ News(up) # News(~up)
                         /\ News(up) # "error"
<1>1. \A c \in Cookies : c \notin BusNews /\ c # "request" /\ c # NoCookie
  BY CookieAssumption
<1>2. \A up \in BOOLEAN : News(up) \in BusNews /\ News(up) # News(~up)
                          /\ News(up) # "error"
  BY DEF News, BusNews
<1> QED
  BY <1>1, <1>2

(* What the end of a sequence does not change. *)
LEMMA SettlesPrefix ==
  ASSUME NEW S, NEW s \in Seq(S), NEW m \in S, NEW n \in 0..Len(s),
         NEW a \in BOOLEAN, NEW up \in BOOLEAN, Settles(s, n, a, up)
  PROVE  Settles(Append(s, m), n, a, up)
<1>1. \A j \in 1..n : Append(s, m)[j] = s[j]
  OBVIOUS
<1>2. CASE a = up /\ \A j \in 1..n : s[j] # News(~up)
  BY <1>1, <1>2 DEF Settles
<1>3. CASE \E k \in 1..n : /\ s[k] = News(up)
                           /\ \A j \in (k + 1)..n : s[j] # News(~up)
  <2>1. PICK k \in 1..n : /\ s[k] = News(up)
                          /\ \A j \in (k + 1)..n : s[j] # News(~up)
    BY <1>3
  <2>2. Append(s, m)[k] = News(up)
    BY <2>1, <1>1
  <2>3. \A j \in (k + 1)..n : Append(s, m)[j] # News(~up)
    <3>1. \A j \in (k + 1)..n : j \in 1..n
      OBVIOUS
    <3> QED
      BY <2>1, <1>1, <3>1
  <2> QED
    BY <2>2, <2>3 DEF Settles
<1> QED
  BY <1>2, <1>3 DEF Settles

(* A message that is not news of the contrary changes nothing at the end. *)
LEMMA SettlesLonger ==
  ASSUME NEW S, NEW s \in Seq(S), NEW m \in S,
         NEW a \in BOOLEAN, NEW up \in BOOLEAN, m # News(~up),
         Settles(s, Len(s), a, up)
  PROVE  Settles(Append(s, m), Len(s) + 1, a, up)
<1> DEFINE t == Append(s, m)  n == Len(s)
<1>1. /\ n \in Nat
      /\ t[n + 1] = m
      /\ \A j \in 1..n : t[j] = s[j]
      /\ \A j \in 1..(n + 1) : j \in 1..n \/ j = n + 1
  OBVIOUS
<1>2. CASE a = up /\ \A j \in 1..n : s[j] # News(~up)
  <2>1. \A j \in 1..(n + 1) : t[j] # News(~up)
    BY <1>1, <1>2
  <2> QED
    BY <1>2, <2>1 DEF Settles
<1>3. CASE \E k \in 1..n : /\ s[k] = News(up)
                           /\ \A j \in (k + 1)..n : s[j] # News(~up)
  <2>1. PICK k \in 1..n : /\ s[k] = News(up)
                          /\ \A j \in (k + 1)..n : s[j] # News(~up)
    BY <1>3
  <2>2. k \in 1..(n + 1) /\ t[k] = News(up)
    BY <2>1, <1>1
  <2>3. \A j \in (k + 1)..(n + 1) : (j \in (k + 1)..n /\ j \in 1..n) \/ j = n + 1
    BY <1>1
  <2>4. \A j \in (k + 1)..(n + 1) : t[j] # News(~up)
    BY <1>1, <2>1, <2>3
  <2> QED
    BY <2>2, <2>4 DEF Settles
<1> QED
  BY <1>2, <1>3 DEF Settles

(* News decides. *)
LEMMA SettlesByNews ==
  ASSUME NEW S, NEW s \in Seq(S), NEW up \in BOOLEAN, News(up) \in S,
         NEW a \in BOOLEAN
  PROVE  Settles(Append(s, News(up)), Len(s) + 1, a, up)
<1> DEFINE t == Append(s, News(up))  n == Len(s) + 1
<1>1. n \in 1..n /\ t[n] = News(up) /\ (n + 1)..n = {}
  OBVIOUS
<1> QED
  BY <1>1 DEF Settles

(* What the shell thinks after it handled a message. *)
Taking(m, a) == IF m = "registered" THEN TRUE
                ELSE IF m = "unregistered" THEN FALSE ELSE a

LEMMA SettlesTail ==
  ASSUME NEW S, NEW s \in Seq(S), s # << >>, NEW n \in 1..Len(s),
         NEW a \in BOOLEAN, NEW up \in BOOLEAN, Settles(s, n, a, up)
  PROVE  Settles(Tail(s), n - 1, Taking(Head(s), a), up)
<1> DEFINE t == Tail(s)
<1>1. \A j \in 1..(n - 1) : t[j] = s[j + 1] /\ j + 1 \in 1..n
  OBVIOUS
<1>2. Head(s) = s[1] /\ 1 \in 1..n
  OBVIOUS
<1>3. CASE a = up /\ \A j \in 1..n : s[j] # News(~up)
  <2>1. Taking(Head(s), a) = up
    BY <1>2, <1>3 DEF Taking, News
  <2>2. \A j \in 1..(n - 1) : t[j] # News(~up)
    BY <1>1, <1>3
  <2> QED
    BY <2>1, <2>2 DEF Settles
<1>4. CASE \E k \in 1..n : /\ s[k] = News(up)
                           /\ \A j \in (k + 1)..n : s[j] # News(~up)
  <2>1. PICK k \in 1..n : /\ s[k] = News(up)
                          /\ \A j \in (k + 1)..n : s[j] # News(~up)
    BY <1>4
  <2>2. CASE k = 1
    <3>1. Taking(Head(s), a) = up
      BY <1>2, <2>1, <2>2 DEF Taking, News
    <3>2. \A j \in 1..(n - 1) : j + 1 \in (k + 1)..n
      BY <2>2
    <3>3. \A j \in 1..(n - 1) : t[j] # News(~up)
      BY <1>1, <2>1, <3>2
    <3> QED
      BY <3>1, <3>3 DEF Settles
  <2>3. CASE k # 1
    <3>1. k - 1 \in 1..(n - 1) /\ (k - 1) + 1 = k
      BY <2>3
    <3>2. t[k - 1] = News(up)
      BY <1>1, <2>1, <3>1
    <3>3. \A j \in ((k - 1) + 1)..(n - 1) : j \in 1..(n - 1) /\ j + 1 \in (k + 1)..n
      OBVIOUS
    <3>4. \A j \in ((k - 1) + 1)..(n - 1) : t[j] # News(~up)
      BY <1>1, <2>1, <3>3
    <3> QED
      BY <3>1, <3>2, <3>4 DEF Settles
  <2> QED
    BY <2>2, <2>3
<1> QED
  BY <1>3, <1>4 DEF Settles


-----------------------------------------------------------------------------
(* The inductive invariant *)

(* A shell that is not up has nothing; a powerd that is gone holds nothing. *)
NothingWhenGone ==
  /\ ~running => /\ inbox = << >> /\ calls = << >> /\ cookie = NoCookie
                 /\ held \subseteq { file }
  /\ ~powerd => held = {}

(* The shell will learn whether powerd is there, and knows it when an       *)
(* answer of powerd, or of the bus in its place, is delivered.              *)
AnswersInOrder ==
  /\ running => Settles(inbox, Len(inbox), available, powerd)
  /\ \A i \in DOMAIN inbox :
       /\ inbox[i] \in Cookies => Settles(inbox, i - 1, available, TRUE)
       /\ inbox[i] = "error" => Settles(inbox, i - 1, available, FALSE)

(* powerd did not leave the bus after it gave a lock it still holds.        *)
NoEndAfterLock ==
  /\ cookie \in held => \A j \in DOMAIN inbox : inbox[j] # "unregistered"
  /\ \A i, j \in DOMAIN inbox :
       inbox[i] \in held /\ i < j => inbox[j] # "unregistered"

IInv == /\ TypeOK
        /\ NothingWhenGone
        /\ AnswersInOrder
        /\ NoEndAfterLock
        /\ NoCookieForgotten

LEMMA Members ==
  /\ "registered" \in Messages /\ "unregistered" \in Messages
  /\ "error" \in Messages /\ "request" \in Calls
  /\ \A c \in Cookies : c \in Messages /\ c \in Calls
BY DEF Messages, Calls, BusNews

(* Queues stay queues. *)
LEMMA Queues ==
  ASSUME NEW S, NEW q \in Seq(S)
  PROVE  /\ \A m \in S : Append(q, m) \in Seq(S)
         /\ q # << >> => Head(q) \in S /\ Tail(q) \in Seq(S)
         /\ << >> \in Seq(S)
         /\ \A m \in S : << m >> \in Seq(S)
OBVIOUS

LEMMA TypeStep == TypeOK /\ [Next]_vars => TypeOK'
<1> SUFFICES ASSUME TypeOK, [Next]_vars PROVE TypeOK'
  OBVIOUS
<1>1. ASSUME NEW o \in Owners, Acquire(o) PROVE TypeOK'
  <2>1. inbox' \in Seq(Messages) /\ calls' \in Seq(Calls)
    BY <1>1, Members, Queues DEF TypeOK, Acquire, AcquireLock, RequestLock, lock, outside
  <2> QED
    BY <1>1, <2>1 DEF TypeOK, Acquire, AcquireLock, RequestLock, lock, outside
<1>2. ASSUME NEW o \in Owners, Release(o) PROVE TypeOK'
  <2>1. inbox' \in Seq(Messages) /\ calls' \in Seq(Calls)
    BY <1>2, Members, Queues DEF TypeOK, Release, ReleaseLock, lock, outside
  <2> QED
    BY <1>2, <2>1 DEF TypeOK, Release, ReleaseLock, lock, outside
<1>3. CASE ServiceRegistered
  <2>1. inbox' \in Seq(Messages) /\ calls' \in Seq(Calls)
    BY <1>3, Members, Queues DEF TypeOK, ServiceRegistered, Delivered, lock
  <2> QED
    BY <1>3, <2>1 DEF TypeOK, ServiceRegistered, Delivered, lock
<1>4. CASE ServiceUnregistered
  <2>1. inbox' \in Seq(Messages) /\ calls' \in Seq(Calls)
    BY <1>4, Members, Queues DEF TypeOK, ServiceUnregistered, Delivered
  <2> QED
    BY <1>4, <2>1 DEF TypeOK, ServiceUnregistered, Delivered
<1>5. CASE WakelockRefused
  <2>1. inbox' \in Seq(Messages) /\ calls' \in Seq(Calls)
    BY <1>5, Members, Queues DEF TypeOK, WakelockRefused, Delivered
  <2> QED
    BY <1>5, <2>1 DEF TypeOK, WakelockRefused, Delivered
<1>6. ASSUME NEW c \in Cookies, WakelockAcquired(c) PROVE TypeOK'
  <2>1. inbox' \in Seq(Messages) /\ calls' \in Seq(Calls)
    BY <1>6, Members, Queues DEF TypeOK, WakelockAcquired, Delivered
  <2> QED
    BY <1>6, <2>1 DEF TypeOK, WakelockAcquired, Delivered
<1>7. ASSUME NEW c \in Cookies, PowerdGrants(c) PROVE TypeOK'
  <2>1. inbox' \in Seq(Messages) /\ calls' \in Seq(Calls)
    BY <1>7, Members, Queues DEF TypeOK, PowerdGrants, lock
  <2> QED
    BY <1>7, <2>1 DEF TypeOK, PowerdGrants, lock
<1>8. CASE Crash
  <2>1. inbox' \in Seq(Messages) /\ calls' \in Seq(Calls)
    BY <1>8, Members, Queues DEF TypeOK, Crash, Gone
  <2> QED
    BY <1>8, <2>1 DEF TypeOK, Crash, Gone
<1>9. CASE Shutdown
  <2>1. inbox' \in Seq(Messages) /\ calls' \in Seq(Calls)
    BY <1>9, Members, Queues DEF TypeOK, Shutdown, Gone
  <2> QED
    BY <1>9, <2>1 DEF TypeOK, Shutdown, Gone
<1>10. CASE Start
  <2>1. inbox' \in Seq(Messages) /\ calls' \in Seq(Calls)
    BY <1>10, Members, Queues DEF TypeOK, Start
  <2> QED
    BY <1>10, <2>1 DEF TypeOK, Start
<1>11. CASE PowerdClears
  <2>1. inbox' \in Seq(Messages) /\ calls' \in Seq(Calls)
    BY <1>11, Members, Queues DEF TypeOK, PowerdClears, lock
  <2> QED
    BY <1>11, <2>1 DEF TypeOK, PowerdClears, lock
<1>12. CASE BusRefuses
  <2>1. inbox' \in Seq(Messages) /\ calls' \in Seq(Calls)
    BY <1>12, Members, Queues DEF TypeOK, BusRefuses, lock
  <2> QED
    BY <1>12, <2>1 DEF TypeOK, BusRefuses, lock
<1>13. CASE PowerdVanishes
  <2>1. inbox' \in Seq(Messages) /\ calls' \in Seq(Calls)
    BY <1>13, Members, Queues DEF TypeOK, PowerdVanishes, Tell, lock
  <2> QED
    BY <1>13, <2>1 DEF TypeOK, PowerdVanishes, Tell, lock
<1>14. CASE PowerdAppears
  <2>1. inbox' \in Seq(Messages) /\ calls' \in Seq(Calls)
    BY <1>14, Members, Queues DEF TypeOK, PowerdAppears, Tell, lock
  <2> QED
    BY <1>14, <2>1 DEF TypeOK, PowerdAppears, Tell, lock
<1>15. CASE UNCHANGED vars
  BY <1>15 DEF vars, TypeOK
<1> QED
  BY <1>1, <1>2, <1>3, <1>4, <1>5, <1>6, <1>7, <1>8, <1>9, <1>10, <1>11, <1>12, <1>13, <1>14, <1>15 DEF Next

LEMMA TypeInit == Init => TypeOK
<1> SUFFICES ASSUME Init PROVE TypeOK
  OBVIOUS
<1>1. << >> \in Seq(Messages) /\ << >> \in Seq(Calls)
  BY Queues
<1> QED
  BY <1>1 DEF Init, TypeOK

(* How the elements of a queue move. *)
LEMMA Moves ==
  ASSUME NEW S, NEW q \in Seq(S)
  PROVE  /\ DOMAIN q = 1..Len(q) /\ Len(q) \in Nat
         /\ q # << >> =>
              /\ Len(Tail(q)) = Len(q) - 1
              /\ Head(q) = q[1] /\ 1 \in DOMAIN q
              /\ DOMAIN Tail(q) = 1..(Len(q) - 1)
              /\ \A i \in DOMAIN Tail(q) : /\ Tail(q)[i] = q[i + 1]
                                          /\ i + 1 \in DOMAIN q
         /\ \A m \in S :
              /\ Len(Append(q, m)) = Len(q) + 1
              /\ DOMAIN Append(q, m) = 1..(Len(q) + 1)
              /\ Append(q, m)[Len(q) + 1] = m
              /\ \A i \in DOMAIN q : Append(q, m)[i] = q[i]
OBVIOUS

(* Handling a message keeps the answers in order. *)
LEMMA HandledInOrder ==
  ASSUME TypeOK, AnswersInOrder, NEW m \in Messages, Delivered(m),
         available' = Taking(m, available)
  PROVE  AnswersInOrder'
<1> DEFINE q == inbox
<1>1. /\ q \in Seq(Messages) /\ q # << >> /\ Head(q) = m /\ inbox' = Tail(q)
      /\ running /\ running' = running /\ powerd' = powerd
      /\ available \in BOOLEAN /\ powerd \in BOOLEAN
  BY DEF TypeOK, Delivered
<1>2. \A n \in 1..Len(q), up \in BOOLEAN :
        Settles(q, n, available, up) => Settles(Tail(q), n - 1, available', up)
  BY <1>1, SettlesTail
<1>3. Settles(inbox', Len(inbox'), available', powerd')
  <2>1. Settles(q, Len(q), available, powerd) /\ Len(q) \in 1..Len(q)
    BY <1>1, Moves DEF AnswersInOrder
  <2> QED
    BY <1>1, <1>2, <2>1, Moves
<1>4. ASSUME NEW i \in DOMAIN inbox'
      PROVE  /\ inbox'[i] \in Cookies => Settles(inbox', i - 1, available', TRUE)
             /\ inbox'[i] = "error" => Settles(inbox', i - 1, available', FALSE)
  <2>1. /\ i \in 1..(Len(q) - 1) /\ inbox'[i] = q[i + 1] /\ i + 1 \in DOMAIN q
        /\ i \in 1..Len(q) /\ (i + 1) - 1 = i
    BY <1>1, <1>4, Moves
  <2>2. /\ q[i + 1] \in Cookies => Settles(q, i, available, TRUE)
        /\ q[i + 1] = "error" => Settles(q, i, available, FALSE)
    BY <2>1 DEF AnswersInOrder
  <2> QED
    BY <1>1, <1>2, <2>1, <2>2
<1> QED
  BY <1>3, <1>4 DEF AnswersInOrder

(* So does a message that is true when it is sent. *)
LEMMA SentInOrder ==
  ASSUME TypeOK, AnswersInOrder, running, NEW m \in Messages,
         inbox' = Append(inbox, m), available' = available,
         running' = running, powerd' \in BOOLEAN,
         \/ m = News(powerd')
         \/ /\ powerd' = powerd
            /\ m # News(~powerd)
            /\ m \in Cookies => powerd
            /\ m = "error" => ~powerd
  PROVE  AnswersInOrder'
<1> DEFINE q == inbox
<1>1. /\ q \in Seq(Messages)
      /\ available \in BOOLEAN /\ powerd \in BOOLEAN
      /\ Settles(q, Len(q), available, powerd)
  BY DEF TypeOK, AnswersInOrder
<1>2. Settles(inbox', Len(inbox'), available', powerd')
  <2>1. CASE m = News(powerd')
    BY <1>1, <2>1, SettlesByNews, Moves
  <2>2. CASE powerd' = powerd /\ m # News(~powerd)
    BY <1>1, <2>2, SettlesLonger, Moves
  <2> QED
    BY <2>1, <2>2
<1>3. ASSUME NEW i \in DOMAIN inbox'
      PROVE  /\ inbox'[i] \in Cookies => Settles(inbox', i - 1, available', TRUE)
             /\ inbox'[i] = "error" => Settles(inbox', i - 1, available', FALSE)
  <2>1. CASE i \in DOMAIN q
    <3>1. inbox'[i] = q[i] /\ i - 1 \in 0..Len(q)
      BY <1>1, <2>1, Moves
    <3>2. /\ q[i] \in Cookies => Settles(q, i - 1, available, TRUE)
          /\ q[i] = "error" => Settles(q, i - 1, available, FALSE)
      BY <2>1 DEF AnswersInOrder
    <3> QED
      BY <1>1, <3>1, <3>2, SettlesPrefix
  <2>2. CASE i = Len(q) + 1
    <3>1. inbox'[i] = m /\ i - 1 = Len(q) /\ Len(q) \in 0..Len(q)
      BY <1>1, <2>2, Moves
    <3>2. m \in Cookies \/ m = "error" => m # News(powerd')
      BY Names
    <3>3. /\ m \in Cookies => Settles(q, Len(q), available, TRUE)
          /\ m = "error" => Settles(q, Len(q), available, FALSE)
      BY <1>1, <3>2
    <3> QED
      BY <1>1, <3>1, <3>3, SettlesPrefix
  <2>3. i \in DOMAIN q \/ i = Len(q) + 1
    <3>1. i \in 1..(Len(q) + 1) /\ DOMAIN q = 1..Len(q) /\ Len(q) \in Nat
      BY <1>1, <1>3, Moves
    <3> QED
      BY <3>1
  <2> QED
    BY <2>1, <2>2, <2>3
<1> QED
  BY <1>2, <1>3 DEF AnswersInOrder

LEMMA InOrderStep ==
  ASSUME TypeOK, TypeOK', NothingWhenGone, AnswersInOrder, [Next]_vars
  PROVE  AnswersInOrder'
<1>1. ASSUME NEW o \in Owners, Acquire(o) \/ Release(o) PROVE AnswersInOrder'
  <2>1. UNCHANGED << inbox, available, running, powerd >>
    BY <1>1 DEF Acquire, Release, outside
  <2> QED
    BY <2>1 DEF AnswersInOrder, Settles
<1>2. CASE ServiceRegistered
  <2>1. /\ "registered" \in Messages /\ Delivered("registered")
        /\ available' = Taking("registered", available)
    BY <1>2, Members DEF ServiceRegistered, Taking
  <2> QED
    BY <2>1, HandledInOrder
<1>3. CASE ServiceUnregistered
  <2>1. /\ "unregistered" \in Messages /\ Delivered("unregistered")
        /\ available' = Taking("unregistered", available)
    BY <1>3, Members DEF ServiceUnregistered, Taking
  <2> QED
    BY <2>1, HandledInOrder
<1>4. CASE WakelockRefused
  <2>1. /\ "error" \in Messages /\ Delivered("error")
        /\ available' = Taking("error", available)
    BY <1>4, Members DEF WakelockRefused, Taking
  <2> QED
    BY <2>1, HandledInOrder
<1>5. ASSUME NEW c \in Cookies, WakelockAcquired(c) PROVE AnswersInOrder'
  <2>1. c \in Messages /\ Delivered(c) /\ available' = Taking(c, available)
    BY <1>5, Members, Names DEF WakelockAcquired, Taking, BusNews
  <2> QED
    BY <2>1, HandledInOrder
<1>6. ASSUME NEW c \in Cookies, PowerdGrants(c) PROVE AnswersInOrder'
  <2>1. /\ running /\ powerd = TRUE /\ c \in Messages
        /\ inbox' = Append(inbox, c) /\ available' = available
        /\ running' = running /\ powerd' = powerd
    BY <1>6, Members DEF PowerdGrants, NothingWhenGone, TypeOK
  <2>2. c # News(~powerd) /\ c # "error"
    BY Names DEF News, BusNews
  <2> QED
    BY <2>1, <2>2, SentInOrder
<1>7. CASE Crash \/ Shutdown
  <2>1. running' = FALSE /\ inbox' = << >>
    BY <1>7 DEF Crash, Shutdown, Gone
  <2> QED
    BY <2>1 DEF AnswersInOrder
<1>8. CASE Start
  <2>1. /\ available' = powerd /\ powerd' = powerd /\ powerd \in BOOLEAN
        /\ inbox' = << >> \/ inbox' = << News(powerd) >>
    BY <1>8 DEF Start, News, TypeOK
  <2>2. CASE inbox' = << >>
    BY <2>1, <2>2 DEF AnswersInOrder, Settles
  <2>3. CASE inbox' = << News(powerd) >>
    <3>1. /\ Len(inbox') = 1 /\ DOMAIN inbox' = 1..1
          /\ inbox'[1] = News(powerd) /\ 1 \in 1..1 /\ (1 + 1)..1 = {}
      BY <2>3
    <3>2. Settles(inbox', Len(inbox'), available', powerd')
      BY <2>1, <3>1 DEF Settles
    <3>3. \A i \in DOMAIN inbox' : inbox'[i] \notin Cookies /\ inbox'[i] # "error"
      BY <2>1, <3>1, Names
    <3> QED
      BY <3>2, <3>3 DEF AnswersInOrder
  <2> QED
    BY <2>1, <2>2, <2>3
<1>9. CASE PowerdClears
  BY <1>9 DEF PowerdClears, AnswersInOrder, Settles
<1>10. CASE BusRefuses
  <2>1. CASE inbox' = inbox
    BY <1>10, <2>1 DEF BusRefuses, AnswersInOrder, Settles
  <2>2. CASE inbox' = Append(inbox, "error")
    <3>1. /\ running /\ powerd = FALSE /\ "error" \in Messages
          /\ available' = available /\ running' = running /\ powerd' = powerd
      BY <1>10, Members DEF BusRefuses, NothingWhenGone, TypeOK
    <3>2. "error" # News(~powerd) /\ "error" \notin Cookies
      BY <3>1, Names DEF News, BusNews
    <3> QED
      BY <2>2, <3>1, <3>2, SentInOrder
  <2> QED
    BY <1>10, <2>1, <2>2 DEF BusRefuses
<1>11. CASE PowerdVanishes \/ PowerdAppears
  <2>1. /\ available' = available /\ running' = running /\ powerd' \in BOOLEAN
        /\ inbox' = IF running THEN Append(inbox, News(powerd')) ELSE inbox
    BY <1>11 DEF PowerdVanishes, PowerdAppears, Tell, News
  <2>2. CASE running
    <3>1. News(powerd') \in Messages
      BY <2>1, Members DEF News
    <3> QED
      BY <2>1, <2>2, <3>1, SentInOrder
  <2>3. CASE ~running
    <3>1. inbox' = << >> /\ ~running'
      BY <2>1, <2>3 DEF NothingWhenGone
    <3> QED
      BY <3>1 DEF AnswersInOrder
  <2> QED
    BY <2>2, <2>3 DEF TypeOK
<1>12. CASE UNCHANGED vars
  BY <1>12 DEF vars, AnswersInOrder, Settles
<1> QED
  BY <1>1, <1>2, <1>3, <1>4, <1>5, <1>6, <1>7, <1>8, <1>9, <1>10, <1>11,
     <1>12 DEF Next

LEMMA GoneStep ==
  ASSUME TypeOK, NothingWhenGone, [Next]_vars
  PROVE  NothingWhenGone'
<1> USE DEF NothingWhenGone
<1>1. ASSUME NEW o \in Owners, Acquire(o) PROVE NothingWhenGone'
  BY <1>1 DEF Acquire, AcquireLock, RequestLock, lock, outside
<1>2. ASSUME NEW o \in Owners, Release(o) PROVE NothingWhenGone'
  BY <1>2 DEF Release, ReleaseLock, lock, outside
<1>3. CASE ServiceRegistered
  BY <1>3 DEF ServiceRegistered, Delivered, lock
<1>4. CASE ServiceUnregistered
  BY <1>4 DEF ServiceUnregistered, Delivered
<1>5. CASE WakelockRefused
  BY <1>5 DEF WakelockRefused, Delivered
<1>6. ASSUME NEW c \in Cookies, WakelockAcquired(c) PROVE NothingWhenGone'
  BY <1>6 DEF WakelockAcquired, Delivered
<1>7. ASSUME NEW c \in Cookies, PowerdGrants(c) PROVE NothingWhenGone'
  BY <1>7 DEF PowerdGrants, lock
<1>8. CASE Crash
  BY <1>8 DEF Crash, Gone
<1>9. CASE Shutdown
  BY <1>9 DEF Shutdown, Gone
<1>10. CASE Start
  BY <1>10 DEF Start
<1>11. CASE PowerdClears
  BY <1>11 DEF PowerdClears, lock
<1>12. CASE BusRefuses
  BY <1>12 DEF BusRefuses, lock
<1>13. CASE PowerdVanishes
  BY <1>13 DEF PowerdVanishes, Tell, lock
<1>14. CASE PowerdAppears
  BY <1>14 DEF PowerdAppears, Tell, lock
<1>15. CASE UNCHANGED vars
  BY <1>15 DEF vars
<1> QED
  BY <1>1, <1>2, <1>3, <1>4, <1>5, <1>6, <1>7, <1>8, <1>9, <1>10, <1>11, <1>12, <1>13, <1>14, <1>15 DEF Next

(* Handling a message does not put a lock before the end of its powerd.     *)
LEMMA HandledNoEnd ==
  ASSUME TypeOK, NoEndAfterLock, NEW m \in Messages, Delivered(m),
         cookie' \in held => cookie' = cookie \/ cookie' = m
  PROVE  NoEndAfterLock'
<1> DEFINE q == inbox
<1>1. /\ q \in Seq(Messages) /\ q # << >> /\ Head(q) = m /\ inbox' = Tail(q)
      /\ held' = held
  BY DEF TypeOK, Delivered
<1>2. /\ q[1] = m /\ 1 \in DOMAIN q
      /\ \A j \in DOMAIN inbox' : /\ inbox'[j] = q[j + 1] /\ j + 1 \in DOMAIN q
                                  /\ j \in Nat /\ 1 < j + 1
  BY <1>1, Moves
<1>3. ASSUME cookie' \in held', NEW j \in DOMAIN inbox'
      PROVE  inbox'[j] # "unregistered"
  BY <1>1, <1>2, <1>3 DEF NoEndAfterLock
<1>4. ASSUME NEW i \in DOMAIN inbox', NEW j \in DOMAIN inbox',
             inbox'[i] \in held', i < j
      PROVE  inbox'[j] # "unregistered"
  BY <1>1, <1>2, <1>4 DEF NoEndAfterLock
<1> QED
  BY <1>3, <1>4 DEF NoEndAfterLock

(* Nor does sending one, when powerd stays and its new locks are in it. *)
LEMMA SentNoEnd ==
  ASSUME TypeOK, NoEndAfterLock, NEW m \in Messages, m # "unregistered",
         inbox' = Append(inbox, m), cookie' = cookie,
         \A c \in held' : \/ c \in held
                          \/ c # cookie /\ \A i \in DOMAIN inbox : inbox[i] # c
  PROVE  NoEndAfterLock'
<1> DEFINE q == inbox
<1>1. q \in Seq(Messages)
  BY DEF TypeOK
<1>2. /\ Len(q) \in Nat /\ DOMAIN q = 1..Len(q)
      /\ inbox'[Len(q) + 1] = m
      /\ DOMAIN inbox' = 1..(Len(q) + 1)
      /\ \A i \in DOMAIN q : inbox'[i] = q[i]
  BY <1>1, Moves
<1>3. \A j \in DOMAIN inbox' : j \in DOMAIN q \/ j = Len(q) + 1
  BY <1>2
<1>4. ASSUME cookie' \in held', NEW j \in DOMAIN inbox'
      PROVE  inbox'[j] # "unregistered"
  BY <1>2, <1>3, <1>4 DEF NoEndAfterLock
<1>5. ASSUME NEW i \in DOMAIN inbox', NEW j \in DOMAIN inbox',
             inbox'[i] \in held', i < j
      PROVE  inbox'[j] # "unregistered"
  <2>1. CASE j = Len(q) + 1
    BY <1>2, <2>1
  <2>2. CASE j \in DOMAIN q
    <3>1. i \in DOMAIN q
      BY <1>2, <1>5, <2>2
    <3> QED
      BY <1>2, <1>5, <2>2, <3>1 DEF NoEndAfterLock
  <2> QED
    BY <1>3, <2>1, <2>2
<1> QED
  BY <1>4, <1>5 DEF NoEndAfterLock

(* Nothing sent, nothing handled: no new lock. *)
LEMMA SameNoEnd ==
  ASSUME TypeOK, NoEndAfterLock, UNCHANGED inbox, held' \subseteq held,
         cookie' = cookie \/ cookie' = NoCookie
  PROVE  NoEndAfterLock'
<1>1. NoCookie \notin held
  BY Names DEF TypeOK
<1> QED
  BY <1>1 DEF NoEndAfterLock

LEMMA NoEndStep ==
  ASSUME TypeOK, NothingWhenGone, NoEndAfterLock, [Next]_vars
  PROVE  NoEndAfterLock'
<1>1. ASSUME NEW o \in Owners, Acquire(o) PROVE NoEndAfterLock'
  <2>1. UNCHANGED << inbox, held, cookie >>
    BY <1>1 DEF Acquire, AcquireLock, lock, outside
  <2> QED
    BY <2>1, SameNoEnd
<1>2. ASSUME NEW o \in Owners, Release(o) PROVE NoEndAfterLock'
  <2>1. UNCHANGED << inbox, held >> /\ (cookie' = cookie \/ cookie' = NoCookie)
    BY <1>2 DEF Release, ReleaseLock, lock, outside
  <2> QED
    BY <2>1, SameNoEnd
<1>3. CASE ServiceRegistered
  <2>1. Delivered("registered") /\ cookie' = cookie
    BY <1>3 DEF ServiceRegistered, lock
  <2> QED
    BY <2>1, Members, HandledNoEnd
<1>4. CASE ServiceUnregistered
  <2>1. Delivered("unregistered") /\ (cookie' = cookie \/ cookie' = NoCookie)
    BY <1>4 DEF ServiceUnregistered
  <2>2. NoCookie \notin held
    BY Names DEF TypeOK
  <2> QED
    BY <2>1, <2>2, Members, HandledNoEnd
<1>5. CASE WakelockRefused
  <2>1. Delivered("error") /\ cookie' = cookie
    BY <1>5 DEF WakelockRefused
  <2> QED
    BY <2>1, Members, HandledNoEnd
<1>6. ASSUME NEW c \in Cookies, WakelockAcquired(c) PROVE NoEndAfterLock'
  <2>1. Delivered(c) /\ (cookie' = cookie \/ cookie' = c)
    BY <1>6 DEF WakelockAcquired
  <2> QED
    BY <2>1, Members, HandledNoEnd
<1>7. ASSUME NEW c \in Cookies, PowerdGrants(c) PROVE NoEndAfterLock'
  <2>1. /\ inbox' = Append(inbox, c) /\ cookie' = cookie
        /\ held' = held \cup { c } /\ c # cookie
        /\ \A i \in DOMAIN inbox : inbox[i] # c
    BY <1>7 DEF PowerdGrants, Known, lock
  <2>2. c \in Messages /\ c # "unregistered"
    BY Members, Names DEF BusNews
  <2> QED
    BY <2>1, <2>2, SentNoEnd
<1>8. CASE Crash \/ Shutdown
  <2>1. inbox' = << >> /\ DOMAIN << >> = {}
    BY <1>8 DEF Crash, Shutdown, Gone
  <2> QED
    BY <2>1 DEF NoEndAfterLock
<1>9. CASE Start
  <2>1. CASE inbox' = << >>
    <3>1. DOMAIN inbox' = {}
      BY <2>1
    <3> QED
      BY <3>1 DEF NoEndAfterLock
  <2>2. CASE inbox' = << News(powerd) >>
    <3>1. DOMAIN inbox' = 1..1 /\ inbox'[1] = News(powerd)
      BY <2>2
    <3>2. held' # {} => powerd
      BY <1>9 DEF Start, NothingWhenGone
    <3>3. powerd => inbox'[1] # "unregistered"
      BY <3>1 DEF News
    <3> QED
      BY <3>1, <3>2, <3>3 DEF NoEndAfterLock
  <2> QED
    BY <1>9, <2>1, <2>2 DEF Start, News
<1>10. CASE PowerdClears
  <2>1. UNCHANGED << inbox, cookie >> /\ held' \subseteq held
    BY <1>10 DEF PowerdClears, lock
  <2> QED
    BY <2>1, SameNoEnd
<1>11. CASE BusRefuses
  <2>1. /\ UNCHANGED << cookie, held >>
        /\ inbox' = inbox \/ inbox' = Append(inbox, "error")
    BY <1>11 DEF BusRefuses, lock
  <2> QED
    BY <2>1, Members, SentNoEnd, SameNoEnd
<1>12. CASE PowerdVanishes
  <2>1. held' = {}
    BY <1>12 DEF PowerdVanishes
  <2> QED
    BY <2>1 DEF NoEndAfterLock
<1>13. CASE PowerdAppears
  <2>1. /\ UNCHANGED << cookie, held >>
        /\ inbox' = inbox \/ inbox' = Append(inbox, "registered")
    BY <1>13 DEF PowerdAppears, Tell, lock
  <2> QED
    BY <2>1, Members, SentNoEnd, SameNoEnd
<1>14. CASE UNCHANGED vars
  BY <1>14, SameNoEnd DEF vars
<1> QED
  BY <1>1, <1>2, <1>3, <1>4, <1>5, <1>6, <1>7, <1>8, <1>9, <1>10, <1>11,
     <1>12, <1>13, <1>14 DEF Next

(* Where a lock may be. *)
Among(c, q) == \E i \in DOMAIN q : q[i] = c

LEMMA AmongMoves ==
  ASSUME NEW S, NEW q \in Seq(S), NEW c, c \in S
  PROVE  /\ \A m \in S : /\ Among(c, q) => Among(c, Append(q, m))
                        /\ Among(m, Append(q, m))
         /\ q # << >> /\ Among(c, q) /\ c # Head(q) => Among(c, Tail(q))
<1>1. ASSUME NEW m \in S
      PROVE  /\ Among(c, q) => Among(c, Append(q, m))
             /\ Among(m, Append(q, m))
  <2>1. /\ Len(q) + 1 \in DOMAIN Append(q, m) /\ Append(q, m)[Len(q) + 1] = m
        /\ \A i \in DOMAIN q : i \in DOMAIN Append(q, m) /\ Append(q, m)[i] = q[i]
    OBVIOUS
  <2> QED
    BY <2>1 DEF Among
<1>2. ASSUME q # << >>, Among(c, q), c # Head(q) PROVE Among(c, Tail(q))
  <2>1. PICK i \in DOMAIN q : q[i] = c
    BY <1>2 DEF Among
  <2>2. i # 1 /\ i \in 1..Len(q)
    BY <1>2, <2>1
  <2>3. i - 1 \in DOMAIN Tail(q) /\ Tail(q)[i - 1] = q[i]
    BY <1>2, <2>2
  <2> QED
    BY <2>1, <2>3 DEF Among
<1> QED
  BY <1>1, <1>2

LEMMA RememberedStep ==
  ASSUME TypeOK, NothingWhenGone, NoEndAfterLock, NoCookieForgotten, [Next]_vars
  PROVE  NoCookieForgotten'
<1> DEFINE Kept(c) == \/ c = cookie
                      \/ ~running /\ c = file
                      \/ Among(c, inbox)
                      \/ Among(c, calls)
<1>1. NoCookieForgotten <=> \A c \in held : Kept(c)
  BY DEF NoCookieForgotten, Among
<1>2. NoCookieForgotten' <=> \A c \in held' : Kept(c)'
  BY DEF NoCookieForgotten, Among
<1> SUFFICES ASSUME NEW d \in held' PROVE Kept(d)'
  BY <1>2
<1>3. /\ inbox \in Seq(Messages) /\ calls \in Seq(Calls)
      /\ held \subseteq Cookies /\ cookie \in Cookies \cup { NoCookie }
      /\ \A c \in Cookies : c \in Messages /\ c \in Calls /\ c # NoCookie
                          /\ c # "request" /\ c \notin BusNews
      /\ "request" \in Calls /\ "error" \in Messages
      /\ "registered" \in Messages /\ "unregistered" \in Messages
  BY Members, Names DEF TypeOK
<1>4. d \in held => Kept(d)
  BY <1>1
<1>5. ASSUME NEW m \in Calls, d \in held, Among(d, calls)
      PROVE  Among(d, Append(calls, m))
  BY <1>3, <1>5, AmongMoves
<1>6. ASSUME NEW m \in Messages, d \in held, Among(d, inbox)
      PROVE  Among(d, Append(inbox, m))
  BY <1>3, <1>6, AmongMoves
<1>7. ASSUME NEW m \in Messages, Delivered(m), d \in held, Among(d, inbox), d # m
      PROVE  Among(d, inbox')
  BY <1>3, <1>7, AmongMoves DEF Delivered
<1>8. ASSUME calls # << >>, d \in held, Among(d, calls), d # Head(calls)
      PROVE  Among(d, Tail(calls))
  BY <1>3, <1>8, AmongMoves
<1>9. ASSUME NEW c \in Cookies
      PROVE  Among(c, Append(calls, c)) /\ Among(c, Append(inbox, c))
  BY <1>3, AmongMoves
<1> HIDE DEF Kept
<1>10. ASSUME NEW o \in Owners, Acquire(o) PROVE Kept(d)'
  <2>1. /\ UNCHANGED << held, cookie, file, running, inbox >>
        /\ calls' = calls \/ calls' = Append(calls, "request")
    BY <1>10 DEF Acquire, AcquireLock, RequestLock, lock, outside
  <2> QED
    BY <1>3, <1>4, <1>5, <2>1 DEF Kept
<1>11. ASSUME NEW o \in Owners, Release(o) PROVE Kept(d)'
  <2>1. /\ UNCHANGED << held, running, inbox >> /\ running
        /\ \/ UNCHANGED << cookie, calls >>
           \/ cookie \in Cookies /\ calls' = Append(calls, cookie)
    BY <1>11, <1>3 DEF Release, ReleaseLock, lock, outside
  <2> QED
    BY <1>3, <1>4, <1>5, <1>9, <2>1 DEF Kept
<1>12. CASE ServiceRegistered
  <2>1. /\ Delivered("registered") /\ UNCHANGED << held, running, cookie, file >>
        /\ calls' = calls \/ calls' = Append(calls, "request")
    BY <1>12 DEF ServiceRegistered, Delivered, lock
  <2>2. d # "registered"
    BY <1>3, <2>1 DEF BusNews
  <2> QED
    BY <1>3, <1>4, <1>5, <1>7, <2>1, <2>2 DEF Kept
<1>13. CASE ServiceUnregistered
  <2>1. /\ Delivered("unregistered") /\ UNCHANGED << held, running, calls >>
        /\ running
    BY <1>13 DEF ServiceUnregistered, Delivered
  <2>2. Head(inbox) = "unregistered" /\ inbox # << >>
    BY <2>1 DEF Delivered
  <2>3. inbox[1] = "unregistered" /\ 1 \in DOMAIN inbox
    BY <1>3, <2>2, Moves
  <2>4. d # cookie
    BY <2>1, <2>3 DEF NoEndAfterLock
  <2>5. d # "unregistered"
    BY <1>3, <2>1 DEF BusNews
  <2> QED
    BY <1>3, <1>4, <1>7, <2>1, <2>4, <2>5 DEF Kept
<1>14. CASE WakelockRefused
  <2>1. Delivered("error") /\ UNCHANGED << held, running, calls, cookie, file >>
    BY <1>14 DEF WakelockRefused, Delivered
  <2>2. d # "error"
    BY <1>3, <2>1 DEF BusNews
  <2> QED
    BY <1>3, <1>4, <1>7, <2>1, <2>2 DEF Kept
<1>15. ASSUME NEW c \in Cookies, WakelockAcquired(c) PROVE Kept(d)'
  <2>1. /\ Delivered(c) /\ UNCHANGED << held, running >> /\ running
        /\ \/ cookie' = cookie /\ calls' = Append(calls, c)
           \/ cookie = NoCookie /\ cookie' = c /\ calls' = calls
    BY <1>15 DEF WakelockAcquired, Delivered
  <2>2. d \in held /\ d # NoCookie
    BY <1>3, <2>1
  <2>3. CASE d = c
    BY <1>9, <2>1, <2>3 DEF Kept
  <2>4. CASE d # c
    BY <1>3, <1>4, <1>5, <1>7, <2>1, <2>2, <2>4 DEF Kept
  <2> QED
    BY <2>3, <2>4
<1>16. ASSUME NEW c \in Cookies, PowerdGrants(c) PROVE Kept(d)'
  <2>1. /\ calls # << >> /\ Head(calls) = "request" /\ calls' = Tail(calls)
        /\ inbox' = Append(inbox, c) /\ held' = held \cup { c }
        /\ UNCHANGED << cookie, file, running >>
    BY <1>16 DEF PowerdGrants, lock
  <2>2. CASE d = c
    BY <1>9, <2>1, <2>2 DEF Kept
  <2>3. CASE d \in held
    BY <1>3, <1>4, <1>6, <1>8, <2>1, <2>3 DEF Kept
  <2> QED
    BY <2>1, <2>2, <2>3
<1>17. CASE Crash
  BY <1>17 DEF Crash, Gone, Kept
<1>18. CASE Shutdown
  BY <1>18 DEF Shutdown
<1>19. CASE Start
  <2>1. d \in held /\ UNCHANGED << file, calls >> /\ ~running
    BY <1>19 DEF Start
  <2>2. Truncated # d
    BY <2>1, CookieAssumption DEF TypeOK
  <2>3. file = d => cookie' = d
    BY <1>19, <2>2 DEF Start
  <2> QED
    BY <1>4, <2>1, <2>3 DEF NothingWhenGone, Kept
<1>20. CASE PowerdClears
  <2>1. /\ calls # << >> /\ held' = held \ { Head(calls) } /\ calls' = Tail(calls)
        /\ UNCHANGED << cookie, file, running, inbox >>
    BY <1>20 DEF PowerdClears, lock
  <2> QED
    BY <1>4, <1>8, <2>1 DEF Kept
<1>21. CASE BusRefuses \/ PowerdVanishes
  BY <1>21 DEF BusRefuses, PowerdVanishes, NothingWhenGone
<1>22. CASE PowerdAppears
  BY <1>22 DEF PowerdAppears, NothingWhenGone
<1>23. CASE UNCHANGED vars
  BY <1>4, <1>23 DEF vars, Kept
<1> QED
  BY <1>10, <1>11, <1>12, <1>13, <1>14, <1>15, <1>16, <1>17, <1>18, <1>19,
     <1>20, <1>21, <1>22, <1>23 DEF Next

-----------------------------------------------------------------------------

LEMMA InductiveInit == Init => IInv
<1> SUFFICES ASSUME Init PROVE IInv
  OBVIOUS
<1>1. /\ inbox = << >> /\ DOMAIN inbox = {} /\ Len(inbox) = 0
      /\ held = {} /\ available = powerd /\ running
  BY DEF Init
<1>2. AnswersInOrder
  BY <1>1 DEF AnswersInOrder, Settles
<1> QED
  BY <1>1, <1>2, TypeInit
  DEF IInv, NothingWhenGone, NoEndAfterLock, NoCookieForgotten

LEMMA InductiveStep == IInv /\ [Next]_vars => IInv'
BY TypeStep, GoneStep, InOrderStep, NoEndStep, RememberedStep DEF IInv

(* The variables of the wakelock, powerd and the bus keep their types.      *)
THEOREM TypeCorrect == Spec => []TypeOK
<1>1. TypeOK /\ [Next]_vars => TypeOK'
  BY TypeStep
<1> QED
  BY TypeInit, <1>1, PTL DEF Spec

(* None of the handlers forgets a lock: every cookie powerd holds for the   *)
(* shell is m_cookie, or in an answer to come, or in a call to give it back,*)
(* or, after a crash, in the file.                                          *)
THEOREM LocksRemembered == Spec => []NoCookieForgotten
<1>1. IInv => NoCookieForgotten
  BY DEF IInv
<1> QED
  BY InductiveInit, InductiveStep, <1>1, PTL DEF Spec

(* Without knowing powerd to be there, no handler uses dbusInterface(): the *)
(* one that does not ask, onWakeLockAcquired(), runs only where it is.      *)
THEOREM InterfaceThere == Spec => CallsHaveInterface
<1>1. IInv /\ [Next]_vars => [Len(calls') > Len(calls) => available']_vars
  <2> SUFFICES ASSUME IInv, Next, Len(calls') > Len(calls) PROVE available'
    OBVIOUS
  <2>1. Len(calls) \in Nat /\ (calls # << >> => Len(Tail(calls)) < Len(calls))
    BY DEF IInv, TypeOK
  <2>2. calls' # calls /\ calls' # << >> /\ (calls # << >> => calls' # Tail(calls))
    BY <2>1
  <2>3. ASSUME NEW o \in Owners, Acquire(o) \/ Release(o) PROVE available'
    BY <2>2, <2>3 DEF Acquire, AcquireLock, RequestLock, Release, ReleaseLock,
                      lock, outside
  <2>4. CASE ServiceRegistered \/ ServiceUnregistered \/ WakelockRefused
    BY <2>2, <2>4 DEF ServiceRegistered, ServiceUnregistered, WakelockRefused
  <2>5. ASSUME NEW c \in Cookies, WakelockAcquired(c) PROVE available'
    <3>1. /\ inbox # << >> /\ Head(inbox) = c /\ available' = available
          /\ inbox \in Seq(Messages)
      BY <2>5 DEF WakelockAcquired, Delivered, IInv, TypeOK
    <3>2. 1 \in DOMAIN inbox /\ inbox[1] = c /\ 1 - 1 = 0
      BY <3>1, Moves
    <3>3. Settles(inbox, 0, available, TRUE)
      BY <3>2 DEF IInv, AnswersInOrder
    <3> QED
      BY <3>1, <3>3 DEF Settles
  <2>6. CASE Crash \/ Shutdown \/ Start
    BY <2>2, <2>6 DEF Crash, Shutdown, Gone, Start
  <2>7. CASE \/ PowerdClears \/ BusRefuses \/ PowerdVanishes \/ PowerdAppears
             \/ \E c \in Cookies : PowerdGrants(c)
    BY <2>2, <2>7 DEF PowerdClears, BusRefuses, PowerdVanishes, PowerdAppears,
                      PowerdGrants
  <2> QED
    BY <2>3, <2>4, <2>5, <2>6, <2>7 DEF Next
<1> QED
  BY InductiveInit, InductiveStep, <1>1, PTL DEF Spec, CallsHaveInterface

-----------------------------------------------------------------------------
(* The cookie file. A lock the shell has is wanted, and powerd is there for *)
(* it: an error can only be delivered while the shell takes powerd for gone *)
(* and so has no cookie.                                                    *)
LockUsable == running /\ cookie # NoCookie => enabled /\ available

FInv == IInv /\ LockUsable /\ FileFollowsCookie

LEMMA FileStep ==
  ASSUME RestoredIsHeld, FInv, [Next]_vars
  PROVE  LockUsable' /\ FileFollowsCookie'
<1> USE DEF LockUsable, FileFollowsCookie
<1>1. LockUsable /\ FileFollowsCookie /\ TypeOK /\ NothingWhenGone
  BY DEF FInv, IInv
<1>2. ASSUME NEW o \in Owners, Acquire(o) PROVE LockUsable' /\ FileFollowsCookie'
  BY <1>1, <1>2 DEF Acquire, AcquireLock, lock, outside
<1>3. ASSUME NEW o \in Owners, Release(o) PROVE LockUsable' /\ FileFollowsCookie'
  BY <1>1, <1>3 DEF Release, ReleaseLock, lock, outside
<1>4. CASE ServiceRegistered
  BY <1>1, <1>4 DEF ServiceRegistered, Delivered, lock
<1>5. CASE ServiceUnregistered
  BY <1>1, <1>5 DEF ServiceUnregistered, Delivered
<1>6. CASE WakelockRefused
  <2>1. inbox # << >> /\ Head(inbox) = "error" /\ inbox \in Seq(Messages) /\ running
    BY <1>1, <1>6 DEF WakelockRefused, Delivered, TypeOK
  <2>2. 1 \in DOMAIN inbox /\ inbox[1] = "error" /\ 1 - 1 = 0
    BY <2>1, Moves
  <2>3. Settles(inbox, 0, available, FALSE)
    BY <2>2 DEF FInv, IInv, AnswersInOrder
  <2>4. ~available
    BY <2>3 DEF Settles
  <2>5. cookie = NoCookie /\ file = NoCookie
    BY <1>1, <2>1, <2>4
  <2> QED
    BY <1>6, <2>5 DEF WakelockRefused
<1>7. ASSUME NEW c \in Cookies, WakelockAcquired(c)
      PROVE  LockUsable' /\ FileFollowsCookie'
  <2>1. inbox # << >> /\ Head(inbox) = c /\ inbox \in Seq(Messages) /\ running
    BY <1>1, <1>7 DEF WakelockAcquired, Delivered, TypeOK
  <2>2. 1 \in DOMAIN inbox /\ inbox[1] = c /\ 1 - 1 = 0
    BY <2>1, Moves
  <2>3. Settles(inbox, 0, available, TRUE)
    BY <2>2 DEF FInv, IInv, AnswersInOrder
  <2>4. available
    BY <2>3 DEF Settles
  <2> QED
    BY <1>1, <1>7, <2>1, <2>4 DEF WakelockAcquired, Delivered
<1>8. CASE Crash \/ Shutdown
  BY <1>8 DEF Crash, Shutdown, Gone
<1>9. CASE Start
  <2>1. file # NoCookie => powerd
    BY <1>1, <1>9 DEF Start, NothingWhenGone
  <2>2. /\ file \in held \cup { NoCookie } /\ held \subseteq Cookies
        /\ Truncated \notin Cookies \cup { NoCookie }
    BY <1>1, <1>9, CookieAssumption DEF Start, TypeOK
  <2>3. file # Truncated
    BY <2>2
  <2>4. cookie' = file /\ file' = file
    BY <1>9, <2>3 DEF Start
  <2>5. enabled' = (file # NoCookie) /\ available' = powerd
    BY <1>9 DEF Start
  <2> QED
    BY <2>1, <2>4, <2>5
<1>10. CASE \/ PowerdClears \/ BusRefuses \/ PowerdVanishes \/ PowerdAppears
            \/ \E c \in Cookies : PowerdGrants(c)
  <2>1. UNCHANGED << running, lock, available >>
    BY <1>10 DEF PowerdClears, BusRefuses, PowerdVanishes, PowerdAppears, PowerdGrants
  <2> QED
    BY <1>1, <2>1 DEF lock
<1>11. CASE UNCHANGED vars
  BY <1>1, <1>11 DEF vars
<1> QED
  BY <1>2, <1>3, <1>4, <1>5, <1>6, <1>7, <1>8, <1>9, <1>10, <1>11 DEF Next

(* If the cookie a shell finds at its start is one powerd still honours,    *)
(* the file always holds the cookie of the lock the shell has, and is gone  *)
(* when it has none.                                                        *)
THEOREM FileExact ==
  ASSUME RestoredIsHeld
  PROVE  Spec => []FileFollowsCookie
<1>1. Init => FInv
  BY InductiveInit DEF Init, FInv, LockUsable, FileFollowsCookie
<1>2. FInv /\ [Next]_vars => FInv'
  <2>1. ASSUME FInv, [Next]_vars PROVE FInv'
    BY <2>1, InductiveStep, FileStep DEF FInv
  <2> QED
    BY <2>1
<1>3. FInv => FileFollowsCookie
  BY DEF FInv
<1> QED
  BY <1>1, <1>2, <1>3, PTL DEF Spec

-----------------------------------------------------------------------------
(* What the shell asked for, and what it has, once all is answered. A lock  *)
(* the shell wants is there, or asked for, or on its way, or will be asked  *)
(* for again: EnabledWillHold. That survives powerd's end because the shell *)
(* hears of the end after every cookie of before (EndIsToCome), and powerd's*)
(* clearing of a lock because no other message names it (OneOfEach).        *)
In(q) == { q[i] : i \in DOMAIN q }
Once(q) == \A i, j \in DOMAIN q : q[i] \in Cookies /\ q[i] = q[j] => i = j

(* Each cookie there is, is in one place. *)
OneOfEach ==
  /\ Once(inbox) /\ Once(calls)
  /\ \A c \in Cookies : c \notin In(inbox) \/ c \notin In(calls)
  /\ cookie \in Cookies => cookie \notin In(inbox) /\ cookie \notin In(calls)

(* Behind each cookie that is not in H the queue has news of powerd's end. *)
Followed(q, H) ==
  \A i \in DOMAIN q :
    q[i] \in Cookies \ H => \E j \in DOMAIN q : i < j /\ q[j] = "unregistered"

(* Of a cookie powerd honours no more, the shell hears that powerd left. *)
EndIsToCome ==
  /\ running /\ cookie \in Cookies /\ cookie \notin held => "unregistered" \in In(inbox)
  /\ Followed(inbox, held)

(* A lock that is wanted is there, or there will be an answer. *)
EnabledWillHold ==
  running /\ enabled =>
    \/ cookie \in held
    \/ ~ powerd
    \/ "request" \in In(calls)
    \/ \E m \in In(inbox) : m \in held \cup { "registered", "error" }

(* The lock is wanted for an owner, or was restored from the file. *)
EnabledIsWanted ==
  /\ running /\ owners = {} /\ ~ restored => ~ enabled
  /\ ~ running => owners = {}

LEMMA Elements ==
  ASSUME NEW S, NEW q \in Seq(S)
  PROVE  /\ q # << >> => In(q) = In(Tail(q)) \cup { Head(q) }
         /\ \A m \in S : In(Append(q, m)) = In(q) \cup { m }
         /\ In(<< >>) = {} /\ Once(<< >>)
<1>1. ASSUME q # << >>
      PROVE  In(q) = In(Tail(q)) \cup { Head(q) }
  <2>1. /\ DOMAIN q = 1 .. Len(q) /\ Len(q) \in Nat /\ Head(q) = q[1] /\ 1 \in DOMAIN q
        /\ DOMAIN Tail(q) = 1 .. (Len(q) - 1)
        /\ \A i \in DOMAIN Tail(q) : Tail(q)[i] = q[i + 1] /\ i + 1 \in DOMAIN q
    BY <1>1, Moves
  <2>2. ASSUME NEW x \in In(q)
        PROVE  x \in In(Tail(q)) \cup { Head(q) }
    <3>1. PICK i \in DOMAIN q : x = q[i]
      BY DEF In
    <3>2. CASE i = 1
      BY <2>1, <3>1, <3>2
    <3>3. CASE i # 1
      <4>1. i - 1 \in DOMAIN Tail(q) /\ (i - 1) + 1 = i
        BY <2>1, <3>3
      <4> QED
        BY <2>1, <3>1, <4>1 DEF In
    <3> QED
      BY <3>2, <3>3
  <2>3. In(Tail(q)) \cup { Head(q) } \subseteq In(q)
    BY <2>1 DEF In
  <2> QED
    BY <2>2, <2>3
<1>2. ASSUME NEW m \in S
      PROVE  In(Append(q, m)) = In(q) \cup { m }
  <2>1. /\ DOMAIN q = 1 .. Len(q) /\ Len(q) \in Nat
        /\ DOMAIN Append(q, m) = 1 .. (Len(q) + 1)
        /\ Append(q, m)[Len(q) + 1] = m
        /\ \A i \in DOMAIN q : Append(q, m)[i] = q[i]
    BY Moves
  <2>2. DOMAIN Append(q, m) = DOMAIN q \cup { Len(q) + 1 }
    BY <2>1
  <2> QED
    BY <2>1, <2>2 DEF In
<1>3. In(<< >>) = {} /\ Once(<< >>)
  BY DEF In, Once
<1> QED
  BY <1>1, <1>2, <1>3

LEMMA OnceMoves ==
  ASSUME NEW S, NEW q \in Seq(S), Once(q)
  PROVE  /\ q # << >> => Once(Tail(q)) /\ (Head(q) \in Cookies => Head(q) \notin In(Tail(q)))
         /\ \A m \in S : m \notin Cookies \cap In(q) => Once(Append(q, m))
<1>1. ASSUME q # << >>
      PROVE  Once(Tail(q)) /\ (Head(q) \in Cookies => Head(q) \notin In(Tail(q)))
  <2>1. /\ DOMAIN q = 1 .. Len(q) /\ Len(q) \in Nat /\ Head(q) = q[1] /\ 1 \in DOMAIN q
        /\ DOMAIN Tail(q) = 1 .. (Len(q) - 1)
        /\ \A i \in DOMAIN Tail(q) : Tail(q)[i] = q[i + 1] /\ i + 1 \in DOMAIN q
    BY <1>1, Moves
  <2>2. ASSUME NEW i \in DOMAIN Tail(q), NEW j \in DOMAIN Tail(q),
               Tail(q)[i] \in Cookies, Tail(q)[i] = Tail(q)[j]
        PROVE  i = j
    <3>1. i + 1 = j + 1
      BY <2>1, <2>2 DEF Once
    <3> QED
      BY <2>1, <3>1
  <2>3. ASSUME Head(q) \in Cookies, NEW i \in DOMAIN Tail(q)
        PROVE  Tail(q)[i] # Head(q)
    <3>1. i + 1 # 1
      BY <2>1
    <3> QED
      BY <2>1, <2>3, <3>1 DEF Once
  <2> QED
    BY <2>2, <2>3 DEF Once, In
<1>2. ASSUME NEW m \in S, m \notin Cookies \cap In(q)
      PROVE  Once(Append(q, m))
  <2>1. /\ DOMAIN q = 1 .. Len(q) /\ Len(q) \in Nat
        /\ DOMAIN Append(q, m) = 1 .. (Len(q) + 1)
        /\ Append(q, m)[Len(q) + 1] = m
        /\ \A i \in DOMAIN q : Append(q, m)[i] = q[i]
    BY Moves
  <2>2. DOMAIN Append(q, m) = DOMAIN q \cup { Len(q) + 1 }
    BY <2>1
  <2>3. m \in Cookies => \A i \in DOMAIN q : q[i] # m
    BY <1>2 DEF In
  <2> QED
    BY <2>1, <2>2, <2>3 DEF Once
<1> QED
  BY <1>1, <1>2

LEMMA FollowedMoves ==
  ASSUME NEW S, NEW q \in Seq(S), NEW H, Followed(q, H)
  PROVE  /\ q # << >> => Followed(Tail(q), H)
         /\ q # << >> /\ Head(q) \in Cookies \ H => "unregistered" \in In(Tail(q))
         /\ \A m \in S : m \notin Cookies \ H => Followed(Append(q, m), H)
<1>1. ASSUME q # << >>
      PROVE  /\ Followed(Tail(q), H)
             /\ Head(q) \in Cookies \ H => "unregistered" \in In(Tail(q))
  <2>1. /\ DOMAIN q = 1 .. Len(q) /\ Len(q) \in Nat /\ Head(q) = q[1] /\ 1 \in DOMAIN q
        /\ DOMAIN Tail(q) = 1 .. (Len(q) - 1)
        /\ \A i \in DOMAIN Tail(q) : Tail(q)[i] = q[i + 1] /\ i + 1 \in DOMAIN q
    BY <1>1, Moves
  <2>2. ASSUME NEW i \in DOMAIN q, q[i] \in Cookies \ H
        PROVE  \E j \in DOMAIN Tail(q) : i < j + 1 /\ Tail(q)[j] = "unregistered"
    <3>1. PICK j \in DOMAIN q : i < j /\ q[j] = "unregistered"
      BY <2>2 DEF Followed
    <3>2. j - 1 \in DOMAIN Tail(q) /\ (j - 1) + 1 = j
      BY <2>1, <3>1
    <3> QED
      BY <2>1, <3>1, <3>2
  <2>3. ASSUME NEW i \in DOMAIN Tail(q), Tail(q)[i] \in Cookies \ H
        PROVE  \E j \in DOMAIN Tail(q) : i < j /\ Tail(q)[j] = "unregistered"
    <3>1. PICK j \in DOMAIN Tail(q) : i + 1 < j + 1 /\ Tail(q)[j] = "unregistered"
      BY <2>1, <2>2, <2>3
    <3>2. i < j
      BY <2>1, <3>1
    <3> QED
      BY <3>1, <3>2
  <2> QED
    BY <2>1, <2>2, <2>3 DEF Followed, In
<1>2. ASSUME NEW m \in S, m \notin Cookies \ H
      PROVE  Followed(Append(q, m), H)
  <2>1. /\ DOMAIN q = 1 .. Len(q) /\ Len(q) \in Nat
        /\ DOMAIN Append(q, m) = 1 .. (Len(q) + 1)
        /\ Append(q, m)[Len(q) + 1] = m
        /\ \A i \in DOMAIN q : Append(q, m)[i] = q[i]
    BY Moves
  <2>2. DOMAIN Append(q, m) = DOMAIN q \cup { Len(q) + 1 }
    BY <2>1
  <2> QED
    BY <1>2, <2>1, <2>2 DEF Followed
<1> QED
  BY <1>1, <1>2

(* News of powerd's end comes after all there is. *)
LEMMA EndFollows ==
  ASSUME NEW S, NEW q \in Seq(S), "unregistered" \in S, "unregistered" \notin Cookies, NEW H
  PROVE  Followed(Append(q, "unregistered"), H)
<1>1. /\ DOMAIN q = 1 .. Len(q) /\ Len(q) \in Nat
      /\ DOMAIN Append(q, "unregistered") = 1 .. (Len(q) + 1)
      /\ Append(q, "unregistered")[Len(q) + 1] = "unregistered"
  BY Moves
<1>2. ASSUME NEW i \in DOMAIN Append(q, "unregistered"), Append(q, "unregistered")[i] \in Cookies
      PROVE  i < Len(q) + 1
  <2>1. i # Len(q) + 1
    BY <1>1, <1>2
  <2> QED
    BY <1>1, <2>1
<1> QED
  BY <1>1, <1>2 DEF Followed

LEMMA FollowedMore ==
  ASSUME NEW q, NEW H, NEW G, Followed(q, H), H \cap In(q) \subseteq G
  PROVE  Followed(q, G)
BY DEF Followed, In

(* Where the names of messages are no cookies. *)
LEMMA NoNames ==
  /\ \A m \in BusNews \cup { "request" } : m \notin Cookies
  /\ "registered" \in BusNews /\ "unregistered" \in BusNews /\ "error" \in BusNews
  /\ NoCookie \notin Cookies
BY CookieAssumption DEF BusNews

LEMMA OneOfEachStep ==
  ASSUME TypeOK, NothingWhenGone, FileFollowsCookie, OneOfEach, [Next]_vars
  PROVE  OneOfEach'
<1> USE NoNames
<1>1. inbox \in Seq(Messages) /\ calls \in Seq(Calls)
  BY DEF TypeOK
<1>2. /\ inbox # << >> => In(inbox) = In(Tail(inbox)) \cup { Head(inbox) }
      /\ \A m \in Messages : In(Append(inbox, m)) = In(inbox) \cup { m }
  BY <1>1, Elements
<1>3. /\ calls # << >> => In(calls) = In(Tail(calls)) \cup { Head(calls) }
      /\ \A m \in Calls : In(Append(calls, m)) = In(calls) \cup { m }
  BY <1>1, Elements
<1>4. In(<< >>) = {} /\ Once(<< >>)
  BY DEF In, Once
<1>5. /\ inbox # << >> => /\ Once(Tail(inbox))
                          /\ Head(inbox) \in Cookies => Head(inbox) \notin In(Tail(inbox))
      /\ \A m \in Messages : m \notin Cookies \cap In(inbox) => Once(Append(inbox, m))
  BY <1>1, OnceMoves DEF OneOfEach
<1>6. /\ calls # << >> => Once(Tail(calls))
      /\ \A m \in Calls : m \notin Cookies \cap In(calls) => Once(Append(calls, m))
  BY <1>1, OnceMoves DEF OneOfEach
<1>7. ASSUME NEW o \in Owners, Acquire(o)
      PROVE  OneOfEach'
  <2>1. UNCHANGED << inbox, cookie >> /\ (calls' = calls \/ calls' = Append(calls, "request"))
    BY <1>7 DEF Acquire, AcquireLock, RequestLock, lock
  <2> QED
    BY <1>3, <1>6, <2>1, Members DEF OneOfEach
<1>8. ASSUME NEW o \in Owners, Release(o)
      PROVE  OneOfEach'
  <2>1. /\ UNCHANGED inbox
        /\ \/ UNCHANGED << cookie, calls >>
           \/ cookie \in Cookies /\ calls' = Append(calls, cookie) /\ cookie' = NoCookie
    BY <1>8 DEF Release, ReleaseLock, lock, TypeOK
  <2>2. CASE cookie \in Cookies /\ calls' = Append(calls, cookie) /\ cookie' = NoCookie
    <3>1. Once(calls') /\ In(calls') = In(calls) \cup { cookie }
      BY <1>3, <1>6, <2>2, Members DEF OneOfEach
    <3> QED
      BY <2>1, <2>2, <3>1 DEF OneOfEach
  <2> QED
    BY <2>1, <2>2 DEF OneOfEach
<1>9. CASE ServiceRegistered \/ ServiceUnregistered \/ WakelockRefused
  <2>1. /\ inbox # << >> /\ inbox' = Tail(inbox)
        /\ cookie' = cookie \/ cookie' = NoCookie
        /\ calls' = calls \/ calls' = Append(calls, "request")
    BY <1>9 DEF ServiceRegistered, ServiceUnregistered, WakelockRefused, Delivered, lock
  <2>2. Once(inbox') /\ In(inbox') \subseteq In(inbox)
    BY <1>2, <1>5, <2>1
  <2>3. Once(calls') /\ In(calls') \subseteq In(calls) \cup { "request" }
    BY <1>3, <1>6, <2>1, Members DEF OneOfEach
  <2> QED
    BY <2>1, <2>2, <2>3 DEF OneOfEach
<1>10. ASSUME NEW c \in Cookies, WakelockAcquired(c)
       PROVE  OneOfEach'
  <2>1. /\ inbox # << >> /\ inbox' = Tail(inbox) /\ Head(inbox) = c
        /\ \/ UNCHANGED cookie /\ calls' = Append(calls, c)
           \/ cookie' = c /\ UNCHANGED calls
    BY <1>10 DEF WakelockAcquired, Delivered
  <2>2. /\ Once(inbox') /\ c \in In(inbox) /\ c \notin In(inbox')
        /\ In(inbox') \subseteq In(inbox)
    BY <1>2, <1>5, <2>1
  <2>3. CASE UNCHANGED cookie /\ calls' = Append(calls, c)
    <3>1. Once(calls') /\ In(calls') = In(calls) \cup { c }
      BY <1>3, <1>6, <2>2, <2>3, Members DEF OneOfEach
    <3> QED
      BY <2>2, <2>3, <3>1 DEF OneOfEach
  <2>4. CASE cookie' = c /\ UNCHANGED calls
    BY <2>2, <2>4 DEF OneOfEach
  <2> QED
    BY <2>1, <2>3, <2>4
<1>11. CASE Crash \/ Shutdown
  <2>1. inbox' = << >> /\ calls' = << >> /\ cookie' = NoCookie
    BY <1>11 DEF Crash, Shutdown, Gone
  <2> QED
    BY <1>4, <2>1 DEF OneOfEach
<1>12. CASE Start
  <2>1. /\ inbox = << >> /\ calls = << >> /\ UNCHANGED calls
        /\ inbox' = << >> \/ \E m \in BusNews : inbox' = Append(<< >>, m)
    BY <1>12 DEF Start, NothingWhenGone
  <2>2. Once(inbox') /\ \A x \in In(inbox') : x \notin Cookies
    BY <1>2, <1>4, <1>5, <2>1 DEF Messages
  <2> QED
    BY <1>4, <2>1, <2>2 DEF OneOfEach
<1>13. ASSUME NEW c \in Cookies, PowerdGrants(c)
       PROVE  OneOfEach'
  <2>1. /\ c \notin In(inbox) /\ c \notin In(calls) /\ c # cookie /\ UNCHANGED cookie
        /\ inbox' = Append(inbox, c) /\ calls # << >> /\ calls' = Tail(calls)
    BY <1>13 DEF PowerdGrants, Known, In, lock
  <2>2. Once(inbox') /\ In(inbox') = In(inbox) \cup { c }
    BY <1>2, <1>5, <2>1, Members
  <2>3. Once(calls') /\ In(calls') \subseteq In(calls)
    BY <1>3, <1>6, <2>1
  <2> QED
    BY <2>1, <2>2, <2>3 DEF OneOfEach
<1>14. CASE PowerdClears \/ BusRefuses
  <2>1. /\ calls # << >> /\ calls' = Tail(calls) /\ UNCHANGED cookie
        /\ inbox' = inbox \/ inbox' = Append(inbox, "error")
    BY <1>14 DEF PowerdClears, BusRefuses, lock
  <2>2. Once(inbox') /\ In(inbox') \subseteq In(inbox) \cup { "error" }
    BY <1>2, <1>5, <2>1, Members DEF OneOfEach
  <2>3. Once(calls') /\ In(calls') \subseteq In(calls)
    BY <1>3, <1>6, <2>1
  <2> QED
    BY <2>1, <2>2, <2>3 DEF OneOfEach
<1>15. CASE PowerdVanishes \/ PowerdAppears \/ UNCHANGED vars
  <2>1. /\ UNCHANGED << calls, cookie >>
        /\ inbox' = inbox \/ \E m \in BusNews : inbox' = Append(inbox, m)
    BY <1>15 DEF PowerdVanishes, PowerdAppears, Tell, lock, vars
  <2>2. Once(inbox') /\ In(inbox') \subseteq In(inbox) \cup BusNews
    BY <1>2, <1>5, <2>1 DEF OneOfEach, Messages
  <2> QED
    BY <2>1, <2>2 DEF OneOfEach
<1> QED
  BY <1>7, <1>8, <1>9, <1>10, <1>11, <1>12, <1>13, <1>14, <1>15 DEF Next

LEMMA EndIsToComeStep ==
  ASSUME RestoredIsHeld, FInv, OneOfEach, EndIsToCome, [Next]_vars
  PROVE  EndIsToCome'
<1> USE NoNames
<1>1. inbox \in Seq(Messages) /\ calls \in Seq(Calls) /\ LockUsable /\ NothingWhenGone /\ FileFollowsCookie
  BY DEF FInv, IInv, TypeOK
<1>2. /\ inbox # << >> => In(inbox) = In(Tail(inbox)) \cup { Head(inbox) }
      /\ \A m \in Messages : In(Append(inbox, m)) = In(inbox) \cup { m }
  BY <1>1, Elements
<1>3. Followed(inbox, held)
  BY DEF EndIsToCome
<1>4. inbox # << >> => /\ Followed(Tail(inbox), held)
                       /\ Head(inbox) \in Cookies \ held => "unregistered" \in In(Tail(inbox))
  BY <1>1, <1>3, FollowedMoves
<1>5. \A m \in BusNews : Followed(Append(inbox, m), held)
  BY <1>1, <1>3, FollowedMoves DEF Messages
<1>6. CASE UNCHANGED << running, held, inbox >> /\ (cookie' = cookie \/ cookie' = NoCookie)
  BY <1>6 DEF EndIsToCome
<1>7. ASSUME NEW o \in Owners, Acquire(o) \/ Release(o)
      PROVE  EndIsToCome'
  <2>1. UNCHANGED << running, held, inbox >> /\ (cookie' = cookie \/ cookie' = NoCookie)
    BY <1>7 DEF Acquire, AcquireLock, Release, ReleaseLock, lock, outside
  <2> QED
    BY <2>1, <1>6
<1>8. CASE ServiceRegistered \/ WakelockRefused
  <2>1. /\ inbox # << >> /\ inbox' = Tail(inbox) /\ Head(inbox) # "unregistered"
        /\ UNCHANGED << running, held, cookie >>
    BY <1>8 DEF ServiceRegistered, WakelockRefused, Delivered, lock
  <2>2. "unregistered" \in In(inbox) => "unregistered" \in In(inbox')
    BY <1>2, <2>1
  <2> QED
    BY <1>4, <2>1, <2>2 DEF EndIsToCome
<1>9. CASE ServiceUnregistered
  <2>1. /\ inbox # << >> /\ inbox' = Tail(inbox) /\ UNCHANGED << running, held >> /\ running
        /\ cookie' = IF enabled THEN NoCookie ELSE cookie
    BY <1>9 DEF ServiceUnregistered, Delivered
  <2>2. cookie' = NoCookie
    BY <1>1, <2>1 DEF LockUsable
  <2> QED
    BY <1>4, <2>1, <2>2 DEF EndIsToCome
<1>10. ASSUME NEW c \in Cookies, WakelockAcquired(c)
       PROVE  EndIsToCome'
  <2>1. /\ inbox # << >> /\ inbox' = Tail(inbox) /\ Head(inbox) = c
        /\ UNCHANGED << running, held >> /\ (cookie' = cookie \/ cookie' = c)
    BY <1>10 DEF WakelockAcquired, Delivered
  <2>2. "unregistered" \in In(inbox) => "unregistered" \in In(inbox')
    BY <1>2, <2>1
  <2> QED
    BY <1>4, <2>1, <2>2 DEF EndIsToCome
<1>11. CASE Crash \/ Shutdown
  <2>1. inbox' = << >> /\ running' = FALSE
    BY <1>11 DEF Crash, Shutdown, Gone
  <2> QED
    BY <2>1 DEF EndIsToCome, Followed
<1>12. CASE Start
  <2>1. /\ inbox = << >> /\ UNCHANGED held /\ (cookie' \in held \/ cookie' = NoCookie)
        /\ inbox' = << >> \/ \E m \in BusNews : inbox' = Append(inbox, m)
    BY <1>1, <1>12 DEF Start, NothingWhenGone
  <2> QED
    BY <1>3, <1>5, <2>1 DEF EndIsToCome
<1>13. ASSUME NEW c \in Cookies, PowerdGrants(c)
       PROVE  EndIsToCome'
  <2>1. inbox' = Append(inbox, c) /\ held' = held \cup { c } /\ UNCHANGED << running, cookie >>
    BY <1>13 DEF PowerdGrants, lock
  <2>2. Followed(inbox, held')
    BY <1>3, <2>1, FollowedMore
  <2>3. Followed(inbox', held')
    <3>1. c \in Messages /\ c \notin Cookies \ held'
      BY <2>1, Members
    <3> QED
      BY <1>1, <2>1, <2>2, <3>1, FollowedMoves
  <2>4. In(inbox) \subseteq In(inbox')
    BY <1>2, <2>1, Members
  <2> QED
    BY <2>1, <2>3, <2>4 DEF EndIsToCome
<1>14. CASE PowerdClears
  <2>1. /\ calls # << >> /\ Head(calls) # "request" /\ held' = held \ { Head(calls) }
        /\ UNCHANGED << running, inbox, cookie >>
    BY <1>14 DEF PowerdClears, lock
  <2>2. Head(calls) \in Cookies /\ Head(calls) \in In(calls)
    BY <1>1, <2>1, Queues, Elements DEF Calls
  <2>3. Head(calls) \notin In(inbox) /\ Head(calls) # cookie
    BY <2>2 DEF OneOfEach
  <2>4. Followed(inbox, held')
    BY <1>3, <2>1, <2>3, FollowedMore
  <2> QED
    BY <2>1, <2>3, <2>4 DEF EndIsToCome
<1>15. CASE BusRefuses \/ PowerdAppears
  <2>1. /\ inbox' = inbox \/ \E m \in BusNews : inbox' = Append(inbox, m)
        /\ UNCHANGED << running, held, cookie >>
    BY <1>15 DEF BusRefuses, PowerdAppears, Tell, lock
  <2>2. In(inbox) \subseteq In(inbox')
    BY <1>2, <2>1 DEF Messages
  <2> QED
    BY <1>3, <1>5, <2>1, <2>2 DEF EndIsToCome
<1>16. CASE PowerdVanishes
  <2>1. UNCHANGED << running, cookie >>
    BY <1>16 DEF PowerdVanishes, lock
  <2>2. CASE running
    <3>1. inbox' = Append(inbox, "unregistered")
      BY <1>16, <2>2 DEF PowerdVanishes, Tell
    <3>2. "unregistered" \in In(inbox')
      BY <1>2, <3>1 DEF Messages
    <3>3. Followed(inbox', held')
      BY <1>1, <3>1, EndFollows DEF Messages
    <3> QED
      BY <3>2, <3>3 DEF EndIsToCome
  <2>3. CASE ~ running
    <3>1. inbox' = << >>
      BY <1>1, <1>16, <2>3 DEF PowerdVanishes, Tell, NothingWhenGone
    <3> QED
      BY <2>1, <2>3, <3>1 DEF EndIsToCome, Followed
  <2> QED
    BY <2>2, <2>3
<1> QED
  BY <1>6, <1>7, <1>8, <1>9, <1>10, <1>11, <1>12, <1>13, <1>14, <1>15, <1>16 DEF Next, vars

LEMMA EnabledIsWantedStep ==
  ASSUME EnabledIsWanted, [Next]_vars
  PROVE  EnabledIsWanted'
<1> USE DEF EnabledIsWanted
<1>1. ASSUME NEW o \in Owners, Acquire(o)
      PROVE  EnabledIsWanted'
  BY <1>1 DEF Acquire, outside
<1>2. ASSUME NEW o \in Owners, Release(o)
      PROVE  EnabledIsWanted'
  BY <1>2 DEF Release, ReleaseLock, lock, outside
<1>3. CASE ServiceRegistered \/ ServiceUnregistered \/ WakelockRefused
           \/ \E c \in Cookies : WakelockAcquired(c) \/ PowerdGrants(c)
  BY <1>3 DEF ServiceRegistered, ServiceUnregistered, WakelockRefused, WakelockAcquired, Delivered,
     PowerdGrants, lock
<1>4. CASE Crash \/ Shutdown \/ Start
  BY <1>4 DEF Crash, Shutdown, Gone, Start
<1>5. CASE PowerdClears \/ BusRefuses \/ PowerdVanishes \/ PowerdAppears \/ UNCHANGED vars
  BY <1>5 DEF PowerdClears, BusRefuses, PowerdVanishes, PowerdAppears, lock, vars
<1> QED
  BY <1>1, <1>2, <1>3, <1>4, <1>5 DEF Next

(* Who is enabled and has no lock that powerd holds has one to come, or is  *)
(* told that powerd is there.                                               *)
LEMMA EnabledWillHoldStep ==
  ASSUME RestoredIsHeld, FInv, OneOfEach, EndIsToCome, EnabledWillHold, [Next]_vars
  PROVE  EnabledWillHold'
<1> USE NoNames
<1>1. /\ inbox \in Seq(Messages) /\ calls \in Seq(Calls) /\ held \subseteq Cookies
      /\ powerd \in BOOLEAN /\ available \in BOOLEAN /\ enabled \in BOOLEAN
      /\ LockUsable /\ NothingWhenGone /\ NoEndAfterLock /\ AnswersInOrder
  BY DEF FInv, IInv, TypeOK
<1>2. /\ inbox # << >> => In(inbox) = In(Tail(inbox)) \cup { Head(inbox) }
      /\ \A m \in Messages : In(Append(inbox, m)) = In(inbox) \cup { m }
  BY <1>1, Elements
<1>3. /\ calls # << >> => In(calls) = In(Tail(calls)) \cup { Head(calls) }
      /\ \A m \in Calls : In(Append(calls, m)) = In(calls) \cup { m }
  BY <1>1, Elements
<1> DEFINE Comes(q, H) == \E m \in In(q) : m \in H \cup { "registered", "error" }
<1> USE DEF EnabledWillHold
<1>4. ASSUME NEW o \in Owners, Acquire(o)
      PROVE  EnabledWillHold'
  <2>1. running /\ UNCHANGED << running, cookie, held, powerd, inbox, available >>
    BY <1>4 DEF Acquire, AcquireLock, lock, outside
  <2>2. CASE enabled
    BY <1>4, <2>1, <2>2 DEF Acquire, AcquireLock
  <2>3. CASE ~ enabled /\ available
    <3>1. "request" \in In(calls')
      BY <1>3, <1>4, <2>3, Members DEF Acquire, AcquireLock, RequestLock
    <3> QED
      BY <3>1
  <2>4. CASE ~ available /\ powerd
    <3>1. Settles(inbox, Len(inbox), available, powerd)
      BY <1>1, <2>1 DEF AnswersInOrder
    <3>2. PICK k \in 1 .. Len(inbox) : inbox[k] = News(powerd)
      BY <2>4, <3>1 DEF Settles
    <3>3. inbox[k] = "registered" /\ k \in DOMAIN inbox
      BY <1>1, <2>4, <3>2 DEF News
    <3>4. "registered" \in In(inbox)
      BY <3>3 DEF In
    <3> QED
      BY <2>1, <3>4
  <2>5. CASE ~ powerd
    BY <2>1, <2>5
  <2> QED
    BY <2>2, <2>3, <2>4, <2>5
<1>5. ASSUME NEW o \in Owners, Release(o)
      PROVE  EnabledWillHold'
  <2>1. enabled' = FALSE \/ UNCHANGED << running, cookie, held, powerd, inbox, calls, enabled >>
    BY <1>5 DEF Release, ReleaseLock, lock, outside
  <2>2. CASE enabled' = FALSE
    BY <2>2, Zenon
  <2>3. CASE UNCHANGED << running, cookie, held, powerd, inbox, calls, enabled >>
    <3>1. /\ running' = running /\ cookie' = cookie /\ held' = held /\ powerd' = powerd
          /\ inbox' = inbox /\ calls' = calls /\ enabled' = enabled
      BY <2>3
    <3> QED
      BY <3>1 DEF In
  <2> QED
    BY <2>1, <2>2, <2>3, Zenon
<1>6. CASE ServiceRegistered
  <2>1. /\ UNCHANGED << running, enabled >>
        /\ calls' = IF enabled THEN Append(calls, "request") ELSE calls
    BY <1>6 DEF ServiceRegistered, Delivered, lock
  <2>2. enabled => "request" \in In(calls')
    BY <1>3, <2>1, Members
  <2> QED
    BY <2>1, <2>2
<1>7. CASE ServiceUnregistered
  <2>1. /\ inbox # << >> /\ inbox' = Tail(inbox) /\ Head(inbox) = "unregistered"
        /\ UNCHANGED << running, enabled, held, powerd, calls >>
    BY <1>7 DEF ServiceUnregistered, Delivered
  <2>2. cookie \notin held
    <3>1. 1 \in DOMAIN inbox /\ inbox[1] = "unregistered"
      BY <1>1, <2>1, Moves
    <3> QED
      BY <1>1, <3>1 DEF NoEndAfterLock
  <2>3. Comes(inbox, held) => Comes(inbox', held)
    BY <1>1, <1>2, <2>1
  <2> QED
    BY <2>1, <2>2, <2>3
<1>8. CASE WakelockRefused \/ Crash \/ Shutdown
  BY <1>8 DEF WakelockRefused, Crash, Shutdown, Gone
<1>9. ASSUME NEW c \in Cookies, WakelockAcquired(c)
      PROVE  EnabledWillHold'
  <2>1. /\ running /\ inbox # << >> /\ inbox' = Tail(inbox) /\ Head(inbox) = c
        /\ UNCHANGED << running, enabled, held, powerd >>
    BY <1>9 DEF WakelockAcquired, Delivered
  <2>2. In(calls) \subseteq In(calls') /\ (cookie # NoCookie => cookie' = cookie)
    BY <1>3, <1>9, Members DEF WakelockAcquired
  <2>3. CASE c \in held
    <3>1. 1 \in DOMAIN inbox /\ inbox[1] = c /\ \A j \in DOMAIN inbox : j = 1 \/ 1 < j
      BY <1>1, <2>1, Moves
    <3>2. "unregistered" \notin In(inbox)
      BY <1>1, <2>3, <3>1 DEF NoEndAfterLock, In
    <3>3. cookie \in Cookies => cookie \in held
      BY <2>1, <3>2 DEF EndIsToCome
    <3>4. enabled /\ cookie = NoCookie => cookie' = c
      BY <1>9 DEF WakelockAcquired
    <3>5. cookie \in Cookies \cup { NoCookie }
      BY DEF FInv, IInv, TypeOK
    <3> QED
      BY <2>1, <2>2, <2>3, <3>3, <3>4, <3>5
  <2>4. CASE c \notin held
    <3>1. Comes(inbox, held) => Comes(inbox', held)
      BY <1>2, <2>1, <2>4
    <3>2. cookie \in held => cookie' = cookie
      BY <1>1, <2>2
    <3> QED
      BY <2>1, <2>2, <3>1, <3>2
  <2> QED
    BY <2>3, <2>4
<1>10. CASE Start
  <2>1. cookie' \in held \/ enabled' = FALSE
    <3>1. /\ file \in held \cup { NoCookie } /\ held \subseteq Cookies
          /\ Truncated \notin Cookies \cup { NoCookie }
      BY <1>10, CookieAssumption DEF Start, FInv, IInv, TypeOK
    <3>2. cookie' = file /\ enabled' = (file # NoCookie)
      BY <1>10, <3>1 DEF Start
    <3> QED
      BY <3>1, <3>2
  <2> QED
    BY <1>10, <2>1 DEF Start
<1>11. ASSUME NEW c \in Cookies, PowerdGrants(c)
       PROVE  EnabledWillHold'
  <2>1. inbox' = Append(inbox, c) /\ held' = held \cup { c }
    BY <1>11 DEF PowerdGrants
  <2>2. c \in In(inbox') /\ c \in held'
    BY <1>2, <2>1, Members
  <2> QED
    BY <2>2
<1>12. CASE PowerdClears
  <2>1. /\ calls # << >> /\ Head(calls) # "request" /\ held' = held \ { Head(calls) }
        /\ calls' = Tail(calls) /\ UNCHANGED << running, inbox, cookie, enabled, powerd >>
    BY <1>12 DEF PowerdClears, lock
  <2>2. Head(calls) \in Cookies /\ Head(calls) \in In(calls)
    BY <1>1, <1>3, <2>1, Queues DEF Calls
  <2>3. Head(calls) \notin In(inbox) /\ Head(calls) # cookie
    BY <2>2 DEF OneOfEach
  <2>4. "request" \in In(calls) => "request" \in In(calls')
    BY <1>3, <2>1
  <2> QED
    BY <2>1, <2>3, <2>4
<1>13. CASE BusRefuses
  BY <1>13 DEF BusRefuses
<1>14. CASE PowerdVanishes
  BY <1>14 DEF PowerdVanishes
<1>15. CASE PowerdAppears
  <2>1. running => inbox' = Append(inbox, "registered")
    BY <1>15 DEF PowerdAppears, Tell
  <2>2. running => "registered" \in In(inbox')
    BY <1>2, <2>1, Members
  <2>3. UNCHANGED running
    BY <1>15 DEF PowerdAppears
  <2> QED
    BY <2>2, <2>3
<1>16. CASE UNCHANGED vars
  BY <1>16 DEF vars
<1> QED
  BY <1>4, <1>5, <1>6, <1>7, <1>8, <1>9, <1>10, <1>11, <1>12, <1>13, <1>14, <1>15, <1>16 DEF Next

(* The invariant of the three theorems below. *)
WInv == FInv /\ OneOfEach /\ EndIsToCome /\ EnabledWillHold /\ EnabledIsWanted

LEMMA WantedInit == Init => EnabledIsWanted
BY DEF Init, EnabledIsWanted

LEMMA WantedInvInit == Init => WInv
<1> SUFFICES ASSUME Init
             PROVE  WInv
  OBVIOUS
<1>1. /\ inbox = << >> /\ calls = << >> /\ cookie = NoCookie /\ ~ enabled /\ running
      /\ file = NoCookie
  BY DEF Init
<1>2. FInv
  BY <1>1, InductiveInit DEF FInv, LockUsable, FileFollowsCookie
<1>3. OneOfEach
  BY <1>1, NoNames DEF OneOfEach, Once, In
<1>4. EndIsToCome
  BY <1>1, NoNames DEF EndIsToCome, Followed
<1>5. EnabledWillHold
  BY <1>1 DEF EnabledWillHold
<1> QED
  BY <1>2, <1>3, <1>4, <1>5, WantedInit DEF WInv

LEMMA WantedInvStep ==
  ASSUME RestoredIsHeld, WInv, [Next]_vars
  PROVE  WInv'
<1>1. FInv /\ IInv /\ TypeOK /\ NothingWhenGone /\ FileFollowsCookie
  BY DEF WInv, FInv, IInv
<1>2. OneOfEach /\ EndIsToCome /\ EnabledWillHold /\ EnabledIsWanted
  BY DEF WInv
<1>3. FInv'
  BY <1>1, InductiveStep, FileStep DEF FInv
<1>4. OneOfEach'
  BY <1>1, <1>2, OneOfEachStep
<1>5. EndIsToCome'
  BY <1>1, <1>2, EndIsToComeStep
<1>6. EnabledWillHold'
  BY <1>1, <1>2, EnabledWillHoldStep
<1>7. EnabledIsWanted'
  BY <1>2, EnabledIsWantedStep
<1> QED
  BY <1>3, <1>4, <1>5, <1>6, <1>7 DEF WInv

(* If the cookie a shell finds at its start is one powerd still honours, a  *)
(* lock the shell believes to have is one powerd holds, whenever everything *)
(* asked was answered: what the shell asked for and did not get yet is in   *)
(* the calls, in the inbox, or to be asked again when powerd is back.       *)
THEOREM LockIsReal ==
  ASSUME RestoredIsHeld
  PROVE  Spec => []EnabledMeansHeld
<1>1. WInv /\ [Next]_vars => WInv'
  BY WantedInvStep
<1>2. WInv => EnabledMeansHeld
  <2> SUFFICES ASSUME WInv, AtRest, enabled
               PROVE  cookie \in held
    BY DEF EnabledMeansHeld
  <2>1. In(inbox) = {} /\ In(calls) = {}
    BY DEF AtRest, In
  <2> QED
    BY <2>1 DEF AtRest, WInv, EnabledWillHold
<1> QED
  BY WantedInvInit, <1>1, <1>2, PTL DEF Spec

(* If the cookie a shell finds at its start is one powerd still honours,    *)
(* powerd holds no lock for a shell whose applications own none, whenever   *)
(* everything asked was answered, but the one restored from the file.       *)
THEOREM NoLockUnowned ==
  ASSUME RestoredIsHeld
  PROVE  Spec => []NothingHeldUnowned
<1>1. WInv /\ [Next]_vars => WInv'
  BY WantedInvStep
<1>2. WInv => NothingHeldUnowned
  <2> SUFFICES ASSUME WInv, AtRest, owners = {}, ~ restored, NEW c \in held
               PROVE  FALSE
    BY DEF NothingHeldUnowned
  <2>1. DOMAIN inbox = {} /\ DOMAIN calls = {} /\ running
    BY DEF AtRest
  <2>2. c = cookie
    BY <2>1 DEF WInv, FInv, IInv, NoCookieForgotten
  <2>3. c \in Cookies
    BY DEF WInv, FInv, IInv, TypeOK
  <2>4. ~ enabled
    BY <2>1 DEF WInv, EnabledIsWanted
  <2>5. cookie = NoCookie
    BY <2>1, <2>4 DEF WInv, FInv, LockUsable
  <2> QED
    BY <2>2, <2>3, <2>5, NoNames
<1> QED
  BY WantedInvInit, <1>1, <1>2, PTL DEF Spec

(* While applications own the wakelock, its cookie is not dropped but for   *)
(* powerd's leaving the bus: not by the release of another owner, nor by an *)
(* answer that comes late.                                                  *)
THEOREM LockOfOwnersKept == Spec => OwnedLockKept
<1>1. EnabledIsWanted /\ [Next]_vars => EnabledIsWanted'
  BY EnabledIsWantedStep
<1>2. EnabledIsWanted /\ [Next]_vars =>
        [owners # {} /\ owners' # {} /\ cookie # NoCookie /\ cookie' # cookie
         => inbox # << >> /\ Head(inbox) = "unregistered"]_vars
  <2> SUFFICES ASSUME EnabledIsWanted, Next,
                      owners # {}, owners' # {}, cookie # NoCookie, cookie' # cookie
               PROVE  inbox # << >> /\ Head(inbox) = "unregistered"
    OBVIOUS
  <2>1. ASSUME NEW o \in Owners, Acquire(o) \/ Release(o)
        PROVE  FALSE
    BY <2>1 DEF Acquire, AcquireLock, Release, lock
  <2>2. CASE ServiceRegistered \/ WakelockRefused
    BY <2>2 DEF ServiceRegistered, WakelockRefused, lock
  <2>3. CASE ServiceUnregistered
    BY <2>3 DEF ServiceUnregistered, Delivered
  <2>4. ASSUME NEW c \in Cookies, WakelockAcquired(c) \/ PowerdGrants(c)
        PROVE  FALSE
    BY <2>4 DEF WakelockAcquired, PowerdGrants, lock
  <2>5. CASE Crash \/ Shutdown \/ Start
    BY <2>5 DEF Crash, Shutdown, Gone, Start, EnabledIsWanted
  <2>6. CASE PowerdClears \/ BusRefuses \/ PowerdVanishes \/ PowerdAppears
    BY <2>6 DEF PowerdClears, BusRefuses, PowerdVanishes, PowerdAppears, lock
  <2> QED
    BY <2>1, <2>2, <2>3, <2>4, <2>5, <2>6 DEF Next
<1> QED
  BY WantedInit, <1>1, <1>2, PTL DEF Spec, OwnedLockKept

=============================================================================
