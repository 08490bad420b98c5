--------------------------- MODULE SharedWakelock ---------------------------
(***************************************************************************)
(* The wakelock the applications share (class SharedWakelock, its inner    *)
(* Wakelock and AbstractDBusServiceMonitor), powerd that gives it, and the *)
(* bus between the two.                                                    *)
(*                                                                         *)
(* Requests are asynchronous: what the shell asks of powerd waits in       *)
(* `calls', what the bus has for the shell waits in `inbox'; both keep     *)
(* their order, as a D-Bus connection does. The shell may end or crash and *)
(* be started again, and powerd may leave the bus and come back, at any    *)
(* point. A crash leaves the cookie file behind, which is empty if the     *)
(* cookie was being written to it.                                         *)
(***************************************************************************)
EXTENDS Integers, Sequences

CONSTANTS
  Owners,          (* the callers of acquire(): applications                *)
  Cookies,         (* what powerd hands out for a lock                      *)
  NoCookie,        (* an empty m_cookie, an absent file                     *)
  MaxMessages,     (* a bound: nobody adds to this many messages under way  *)
  RestoredIsHeld   (* TRUE: a shell that finds a cookie file finds the      *)
                   (* powerd that gave the cookie in it, as the constructor *)
                   (* takes for granted                                     *)

BusNews == { "registered", "unregistered", "error" }
Messages == BusNews \cup Cookies
Calls == { "request" } \cup Cookies

(* The file that was opened for a cookie which was not written to it.       *)
Truncated == "truncated"

ASSUME CookieAssumption ==
  /\ NoCookie \notin Cookies
  /\ (BusNews \cup { "request" }) \cap Cookies = {}
  /\ Truncated \notin Cookies \cup { NoCookie }
ASSUME BoundAssumption == MaxMessages \in Nat
ASSUME RestoredAssumption == RestoredIsHeld \in BOOLEAN

VARIABLES
  running,     (* the shell is up                                           *)
  owners,      (* m_owners                                                  *)
  enabled,     (* m_wakelockEnabled                                         *)
  cookie,      (* m_cookie                                                  *)
  file,        (* the content of /tmp/qtmir_powerd_cookie                   *)
  available,   (* m_dbusInterface is there                                  *)
  inbox,       (* on its way to the shell: BusNews, or the cookie of a reply*)
  calls,       (* on its way to powerd: "request" is requestSysState, a     *)
               (* cookie is clearSysState of that cookie                    *)
  powerd,      (* powerd is on the bus                                      *)
  held,        (* the cookies of locks powerd holds for the present shell,  *)
               (* or for the one whose cookie is in the file                *)
  restored     (* history: the lock is that of the cookie file, and has not *)
               (* been given up since                                       *)

vars == << running, owners, enabled, cookie, file, available, inbox, calls,
           powerd, held, restored >>

lock == << enabled, cookie, file, restored >>
outside == << running, available, powerd, held >>

Init ==
  /\ running = TRUE
  /\ owners = {}
  /\ enabled = FALSE
  /\ cookie = NoCookie
  /\ file = NoCookie
  /\ powerd \in BOOLEAN
  /\ available = powerd
  /\ inbox = << >>
  /\ calls = << >>
  /\ held = {}
  /\ restored = FALSE

(* Calls of the shell and comings and goings of powerd pause at the bound. *)
Room == Len(inbox) + Len(calls) < MaxMessages

-----------------------------------------------------------------------------
(* Wakelock *)

(* A fault: the interface is used whether the service is there or not. *)
RequestBlindly == calls' = Append(calls, "request")

(* acquireWakelock() *)
RequestLock ==
  calls' = IF available THEN Append(calls, "request") ELSE calls

(* Wakelock::acquire() *)
AcquireLock ==
  \/ /\ enabled
     /\ UNCHANGED << lock, calls >>
  \/ /\ ~enabled
     /\ enabled' = TRUE
     /\ RequestLock
     /\ UNCHANGED << cookie, file, restored >>

(* Wakelock::release(): the file goes in any case; the cookie is kept when  *)
(* powerd is not there.                                                     *)
ReleaseLock ==
  /\ file' = NoCookie
  /\ enabled' = FALSE
  /\ restored' = FALSE
  /\ \/ /\ enabled /\ available /\ cookie # NoCookie
        /\ calls' = Append(calls, cookie)
        /\ cookie' = NoCookie
     \/ /\ ~(enabled /\ available /\ cookie # NoCookie)
        /\ UNCHANGED << calls, cookie >>

-----------------------------------------------------------------------------
(* SharedWakelock *)

Acquire(o) ==
  /\ running /\ Room
  /\ o \notin owners
  /\ AcquireLock
  /\ owners' = owners \cup { o }
  /\ UNCHANGED << outside, inbox >>

(* A fault: whoever releases gives the lock back for all. *)
ReleaseForAll(o) ==
  /\ running /\ Room
  /\ o \in owners
  /\ owners' = owners \ { o }
  /\ ReleaseLock
  /\ UNCHANGED << outside, inbox >>

(* Also the slot of the owner's destroyed signal. *)
Release(o) ==
  /\ running /\ Room
  /\ o \in owners
  /\ owners' = owners \ { o }
  /\ IF owners' = {} THEN ReleaseLock ELSE UNCHANGED << lock, calls >>
  /\ UNCHANGED << outside, inbox >>

-----------------------------------------------------------------------------
(* What the bus brings, in the order it comes *)

Delivered(message) ==
  /\ running
  /\ inbox # << >>
  /\ Head(inbox) = message
  /\ inbox' = Tail(inbox)
  /\ UNCHANGED << running, owners, powerd, held >>

(* createInterface() and onServiceAvailableChanged(true) *)
ServiceRegistered ==
  /\ Delivered("registered")
  /\ available' = TRUE
  /\ calls' = IF enabled THEN Append(calls, "request") ELSE calls
  /\ UNCHANGED lock

(* A fault: the cookie outlives the powerd that gave it. *)
KeepCookieOfTheGone ==
  /\ Delivered("unregistered")
  /\ available' = FALSE
  /\ UNCHANGED << lock, calls >>

(* destroyInterface() and onServiceAvailableChanged(false) *)
ServiceUnregistered ==
  /\ Delivered("unregistered")
  /\ available' = FALSE
  /\ cookie' = IF enabled THEN NoCookie ELSE cookie
  /\ file' = IF enabled THEN NoCookie ELSE file
  /\ UNCHANGED << enabled, calls, restored >>

(* onWakeLockAcquired(), the error *)
WakelockRefused ==
  /\ Delivered("error")
  /\ enabled' = FALSE
  /\ restored' = FALSE
  /\ UNCHANGED << cookie, file, available, calls >>

(* A fault: a lock that came too late is kept, but not noted. *)
IgnoreLateLock(c) ==
  /\ Delivered(c)
  /\ \/ /\ ~enabled \/ cookie # NoCookie
        /\ UNCHANGED << cookie, file, calls >>
     \/ /\ enabled /\ cookie = NoCookie
        /\ cookie' = c
        /\ file' = c
        /\ UNCHANGED calls
  /\ UNCHANGED << enabled, available, restored >>

(* A fault: a lock is kept although it is no longer wanted. *)
KeepUnwantedLock(c) ==
  /\ Delivered(c)
  /\ \/ /\ cookie # NoCookie
        /\ calls' = Append(calls, c)
        /\ UNCHANGED << cookie, file >>
     \/ /\ cookie = NoCookie
        /\ cookie' = c
        /\ file' = c
        /\ UNCHANGED calls
  /\ UNCHANGED << enabled, available, restored >>

(* A fault: the file is written for a lock that is not kept. *)
WriteFileFirst(c) ==
  /\ Delivered(c)
  /\ file' = c
  /\ \/ /\ ~enabled \/ cookie # NoCookie
        /\ calls' = Append(calls, c)
        /\ UNCHANGED cookie
     \/ /\ enabled /\ cookie = NoCookie
        /\ cookie' = c
        /\ UNCHANGED calls
  /\ UNCHANGED << enabled, available, restored >>

(* The cookie of a lock that is wanted, of which a crash may leave the file *)
(* empty.                                                                   *)
Saving == inbox # << >> /\ Head(inbox) \in Cookies /\ enabled /\ cookie = NoCookie

(* onWakeLockAcquired(), the cookie: a lock not wanted, or one too many, is *)
(* given back at once.                                                      *)
WakelockAcquired(c) ==
  /\ Delivered(c)
  /\ \/ /\ ~enabled \/ cookie # NoCookie
        /\ calls' = Append(calls, c)
        /\ UNCHANGED << cookie, file >>
     \/ /\ enabled /\ cookie = NoCookie
        /\ cookie' = c
        /\ file' = c
        /\ UNCHANGED calls
  /\ UNCHANGED << enabled, available, restored >>

-----------------------------------------------------------------------------
(* The shell ends and starts *)

(* What the old shell has under way is lost. Of the locks powerd holds for  *)
(* it, only the one in the file can still be given back (lp:1409722).       *)
Gone ==
  /\ running' = FALSE
  /\ owners' = {}
  /\ enabled' = FALSE
  /\ cookie' = NoCookie
  /\ available' = FALSE
  /\ inbox' = << >>
  /\ calls' = << >>
  /\ restored' = FALSE
  /\ UNCHANGED powerd

Crash ==
  /\ running
  /\ Gone
  /\ \/ file' = file
     \/ Saving /\ file' = Truncated
  /\ held' = held \cap { file' }

(* The destructor releases, whoever owns. *)
Shutdown ==
  /\ running
  /\ Gone
  /\ held' = {}
  /\ file' = NoCookie

(* The constructors: the watcher of the name is set up first, so a change   *)
(* of the name before the question whether it is there comes as news too;   *)
(* onServiceAvailableChanged() is not connected yet when the answer is yes. *)
(* Whatever is in the file, even nothing, is the cookie of a lock.          *)
Start ==
  /\ ~running
  /\ RestoredIsHeld => file \in held \cup { NoCookie }
  /\ running' = TRUE
  /\ available' = powerd
  /\ enabled' = (file # NoCookie)
  /\ cookie' = IF file = Truncated THEN NoCookie ELSE file
  /\ restored' = (file # NoCookie)
  /\ inbox' \in { << >>, << IF powerd THEN "registered" ELSE "unregistered" >> }
  /\ UNCHANGED << owners, file, calls, powerd, held >>

-----------------------------------------------------------------------------
(* powerd, and the bus that answers for it when it is gone *)

Known == held \cup { cookie, file }
         \cup { inbox[i] : i \in DOMAIN inbox }
         \cup { calls[i] : i \in DOMAIN calls }

PowerdGrants(c) ==
  /\ powerd
  /\ calls # << >>
  /\ Head(calls) = "request"
  /\ c \notin Known
  /\ held' = held \cup { c }
  /\ inbox' = Append(inbox, c)
  /\ calls' = Tail(calls)
  /\ UNCHANGED << running, owners, lock, available, powerd >>

PowerdClears ==
  /\ powerd
  /\ calls # << >>
  /\ Head(calls) # "request"
  /\ held' = held \ { Head(calls) }
  /\ calls' = Tail(calls)
  /\ UNCHANGED << running, owners, lock, available, inbox, powerd >>

BusRefuses ==
  /\ ~powerd
  /\ calls # << >>
  /\ inbox' = IF Head(calls) = "request" THEN Append(inbox, "error") ELSE inbox
  /\ calls' = Tail(calls)
  /\ UNCHANGED << running, owners, lock, available, powerd, held >>

Tell(news) == inbox' = IF running THEN Append(inbox, news) ELSE inbox

(* powerd loses its locks when it leaves the bus. *)
PowerdVanishes ==
  /\ powerd /\ Room
  /\ powerd' = FALSE
  /\ held' = {}
  /\ Tell("unregistered")
  /\ UNCHANGED << running, owners, lock, available, calls >>

PowerdAppears ==
  /\ ~powerd /\ Room
  /\ powerd' = TRUE
  /\ Tell("registered")
  /\ UNCHANGED << running, owners, lock, available, calls, held >>

-----------------------------------------------------------------------------

Next ==
  \/ \E o \in Owners : Acquire(o) \/ Release(o)
  \/ ServiceRegistered \/ ServiceUnregistered \/ WakelockRefused
  \/ \E c \in Cookies : WakelockAcquired(c) \/ PowerdGrants(c)
  \/ Crash \/ Shutdown \/ Start
  \/ PowerdClears \/ BusRefuses \/ PowerdVanishes \/ PowerdAppears

Spec == Init /\ [][Next]_vars

-----------------------------------------------------------------------------
(* Properties *)

(* Every variable has its type. *)
TypeOK ==
  /\ running \in BOOLEAN /\ enabled \in BOOLEAN /\ available \in BOOLEAN
  /\ powerd \in BOOLEAN /\ restored \in BOOLEAN
  /\ owners \subseteq Owners
  /\ cookie \in Cookies \cup { NoCookie }
  /\ file \in Cookies \cup { NoCookie, Truncated }
  /\ held \subseteq Cookies
  /\ inbox \in Seq(Messages)
  /\ calls \in Seq(Calls)

(* Every message has arrived and was handled. *)
AtRest == running /\ powerd /\ inbox = << >> /\ calls = << >>

(* Whenever everything asked was answered, a lock the shell believes to     *)
(* have is one powerd holds, although replies come after releases, requests *)
(* overlap, and powerd forgets its locks when it restarts                   *)
(* (onWakeLockAcquired(), onServiceAvailableChanged()).                     *)
EnabledMeansHeld == AtRest /\ enabled => cookie \in held

(* Whenever everything asked was answered and no application owns the       *)
(* wakelock, powerd holds none, unless it is the one restored from the file *)
(* (SharedWakelock::release()).                                             *)
NothingHeldUnowned == AtRest /\ owners = {} /\ ~restored => held = {}

(* Every lock powerd holds for the shell is the one the shell has, or on    *)
(* its way to the shell, or on its way back: none is forgotten in the       *)
(* handlers.                                                                *)
NoCookieForgotten ==
  \A c \in held :
    \/ c = cookie
    \/ ~running /\ c = file
    \/ \E i \in DOMAIN inbox : inbox[i] = c
    \/ \E i \in DOMAIN calls : calls[i] = c

(* The cookie file holds the cookie of the lock the shell has, and is there *)
(* exactly while it has one: a crash between two events finds in it what is *)
(* to be given back.                                                        *)
FileFollowsCookie == running => file = cookie

(* A call is made only while the interface to powerd is there:              *)
(* onWakeLockAcquired() does not look before it uses dbusInterface().       *)
CallsHaveInterface == [][ Len(calls') > Len(calls) => available' ]_vars

(* The lock of an owner is not taken away: with owners before and after,    *)
(* only powerd's leaving the bus takes the cookie, neither the release of   *)
(* another owner nor a late answer does (SharedWakelock::release(),         *)
(* onWakeLockAcquired()).                                                   *)
OwnedLockKept ==
  [][ owners # {} /\ owners' # {} /\ cookie # NoCookie /\ cookie' # cookie
      => inbox # << >> /\ Head(inbox) = "unregistered" ]_vars

(* "Should the PowerD service vanish from the bus, the wakelock will be     *)
(* re-acquired when it re-joins the bus." (sharedwakelock.cpp:33): whenever *)
(* everything asked was answered and an application owns the wakelock,      *)
(* powerd holds it.                                                         *)
ReacquiredWhenBack == AtRest /\ owners # {} => cookie \in held

=============================================================================
