------------------------------ MODULE ClientConn ------------------------------
(***************************************************************************)
(* ConnClient.GetConn of src/util/client_conn/client_conn.go with the      *)
(* connection cache of conn_cache.go.                                      *)
(*                                                                         *)
(* Processes: goroutines that call GetConn, each for one service, and gRPC,*)
(* which moves each connection between its connectivity states.  The cache *)
(* and the mutex are per service; the options of a dial are not: line 83   *)
(* appends to optsDefault, which init fills with seven options and append  *)
(* has given a capacity of eight, so the first option of every call is     *)
(* written to one shared array element before the dial reads it back; so   *)
(* is a single start-up option (line 88), for a call without one.          *)
(***************************************************************************)
EXTENDS Naturals

CONSTANTS Callers,
          Services,
          ServiceOf,  \* the service each caller asks for
          WithOption, \* the callers that pass one dial option of their own
          Startup,    \* the option in optsStartup; None unless it is exactly one
          MaxDials,   \* bound: dials in a behaviour
          None

Conns == 1..MaxDials

ASSUME ClientConnAssumption ==
    /\ ServiceOf \in [Callers -> Services]
    /\ WithOption \subseteq Callers
    /\ MaxDials \in Nat
    /\ None \notin Callers /\ None \notin Conns
    /\ Startup \notin Callers

VARIABLES pc,      \* per caller, its control point in GetConn
          conn,    \* per caller, its local variable conn
          holder,  \* per service, the caller that holds its mutex
          cache,   \* per service, the cached connection
          state,   \* per connection, what GetConn tells apart of its connectivity
          slot,    \* the shared eighth element of optsDefault's array
          dialed,  \* per connection, the caller that dialed it
          option   \* per connection, the eighth option it was dialed with

vars == <<pc, conn, holder, cache, state, slot, dialed, option>>
sharedVars == <<holder, cache, state, slot, dialed, option>>

PC == {"idle", "lookup", "check", "close", "lock", "relookup", "recheck", "reclose",
       "options", "dial", "checkNew", "closeNew", "store", "unlock", "returned"}

(* Not dialed yet; Idle or Ready; Connecting or TransientFailure; Shutdown. *)
ConnState == {"unborn", "effective", "ineffective", "shutdown"}

TypeOK ==
    /\ pc \in [Callers -> PC]
    /\ conn \in [Callers -> Conns \cup {None}]
    /\ holder \in [Services -> Callers \cup {None}]
    /\ cache \in [Services -> Conns \cup {None}]
    /\ state \in [Conns -> ConnState]
    /\ slot \in Callers \cup {Startup, None}
    /\ dialed \in [Conns -> Callers \cup {None}]
    /\ option \in [Conns -> Callers \cup {Startup, None}]

Init ==
    /\ pc = [c \in Callers |-> "idle"]
    /\ conn = [c \in Callers |-> None]
    /\ holder = [s \in Services |-> None]
    /\ cache = [s \in Services |-> None]
    /\ state = [k \in Conns |-> "unborn"]
    /\ slot = None
    /\ dialed = [k \in Conns |-> None]
    /\ option = [k \in Conns |-> None]

Goto(c, l) == pc' = [pc EXCEPT ![c] = l]

Live(k) == state[k] \in {"effective", "ineffective"}

-----------------------------------------------------------------------------
(* Mistakes the code does not make, for the properties to catch.           *)

(* A lock whose holder dials without looking the cache up again.           *)
BugLock(c) ==
    /\ pc[c] = "lock" /\ holder[ServiceOf[c]] = None
    /\ holder' = [holder EXCEPT ![ServiceOf[c]] = c]
    /\ Goto(c, "options")
    /\ UNCHANGED <<conn, cache, state, slot, dialed, option>>

(* An unlock that is not deferred, and so skipped when the dial fails.     *)
BugUnlock(c) ==
    /\ pc[c] = "unlock"
    /\ holder' = [holder EXCEPT ![ServiceOf[c]] = IF conn[c] = None THEN c ELSE None]
    /\ Goto(c, "returned")
    /\ UNCHANGED <<conn, cache, state, slot, dialed, option>>

(* A justConnEffective that leaves an ineffective connection open.         *)
BugReclose(c) ==
    /\ pc[c] = "reclose"
    /\ Goto(c, "options")
    /\ UNCHANGED <<conn, sharedVars>>

-----------------------------------------------------------------------------
(* GetConn *)

Call(c) ==
    /\ pc[c] \in {"idle", "returned"}
    /\ conn' = [conn EXCEPT ![c] = None]
    /\ Goto(c, "lookup")
    /\ UNCHANGED sharedVars

(* getRPCConn, before the lock and again under it.                         *)
Lookup(c) ==
    /\ pc[c] \in {"lookup", "relookup"}
    /\ LET k == cache[ServiceOf[c]] IN
       /\ conn' = [conn EXCEPT ![c] = k]
       /\ Goto(c, IF pc[c] = "lookup"
                  THEN IF k = None THEN "lock" ELSE "check"
                  ELSE IF k = None THEN "options" ELSE "recheck")
    /\ UNCHANGED sharedVars

(* justConnEffective: the state is read ...                                *)
Check(c) ==
    /\ pc[c] \in {"check", "recheck", "checkNew"}
    /\ Goto(c, IF state[conn[c]] = "effective"
               THEN CASE pc[c] = "check" -> "returned"
                      [] pc[c] = "recheck" -> "unlock"
                      [] pc[c] = "checkNew" -> "store"
               ELSE CASE pc[c] = "check" -> "close"
                      [] pc[c] = "recheck" -> "reclose"
                      [] pc[c] = "checkNew" -> "closeNew")
    /\ UNCHANGED <<conn, sharedVars>>

(* ... and a connection that was not effective then is closed now.         *)
CloseConn(c, from, to) ==
    /\ pc[c] = from
    /\ state' = [state EXCEPT ![conn[c]] = "shutdown"]
    /\ Goto(c, to)
    /\ UNCHANGED <<conn, holder, cache, slot, dialed, option>>

Close(c) == CloseConn(c, "close", "lock")
Reclose(c) == CloseConn(c, "reclose", "options")
CloseNew(c) == CloseConn(c, "closeNew", "unlock")

Lock(c) ==
    /\ pc[c] = "lock" /\ holder[ServiceOf[c]] = None
    /\ holder' = [holder EXCEPT ![ServiceOf[c]] = c]
    /\ Goto(c, "relookup")
    /\ UNCHANGED <<conn, cache, state, slot, dialed, option>>

(* What append(append(optsDefault, opts...), optsStartup...) leaves in the *)
(* shared element: the caller's option, or the only one there is from the  *)
(* start-up.                                                               *)
UsesSlot(c) == c \in WithOption \/ Startup # None

AppendOptions(c) ==
    /\ pc[c] = "options"
    /\ slot' = IF c \in WithOption THEN c ELSE IF UsesSlot(c) THEN Startup ELSE slot
    /\ Goto(c, "dial")
    /\ UNCHANGED <<conn, holder, cache, state, dialed, option>>

(* grpc.DialContext, which does not block, reads the options; or fails.    *)
Dial(c) ==
    /\ pc[c] = "dial"
    /\ \E k \in Conns :
          /\ state[k] = "unborn" /\ \A i \in 1..(k - 1) : state[i] # "unborn"
          /\ state' = [state EXCEPT ![k] = "effective"]
          /\ conn' = [conn EXCEPT ![c] = k]
          /\ dialed' = [dialed EXCEPT ![k] = c]
          /\ option' = [option EXCEPT ![k] = IF UsesSlot(c) THEN slot ELSE None]
    /\ Goto(c, "checkNew")
    /\ UNCHANGED <<holder, cache, slot>>

DialFail(c) ==
    /\ pc[c] = "dial"
    /\ conn' = [conn EXCEPT ![c] = None]
    /\ Goto(c, "unlock")
    /\ UNCHANGED sharedVars

Store(c) ==
    /\ pc[c] = "store"
    /\ cache' = [cache EXCEPT ![ServiceOf[c]] = conn[c]]
    /\ Goto(c, "unlock")
    /\ UNCHANGED <<conn, holder, state, slot, dialed, option>>

(* The deferred Unlock of every return under the lock.                     *)
Unlock(c) ==
    /\ pc[c] = "unlock"
    /\ holder' = [holder EXCEPT ![ServiceOf[c]] = None]
    /\ Goto(c, "returned")
    /\ UNCHANGED <<conn, cache, state, slot, dialed, option>>

(* gRPC: the states its resolver, balancer and transports report.          *)
Connectivities(k) ==
    /\ Live(k)
    /\ state' \in {[state EXCEPT ![k] = "effective"], [state EXCEPT ![k] = "ineffective"]}
    /\ UNCHANGED <<pc, conn, holder, cache, slot, dialed, option>>

Step(c) == \/ Lookup(c) \/ Check(c) \/ Close(c) \/ Reclose(c) \/ CloseNew(c)
           \/ AppendOptions(c) \/ Dial(c) \/ DialFail(c) \/ Store(c) \/ Unlock(c)

Next == \/ \E c \in Callers : Call(c) \/ Lock(c) \/ Step(c)
        \/ \E k \in Conns : Connectivities(k)

(* A goroutine that can run does, a dial that the bound on dials would     *)
(* keep from succeeding fails, and sync.Mutex starves nobody.              *)
Spec == /\ Init /\ [][Next]_vars
        /\ \A c \in Callers : WF_vars(Step(c)) /\ SF_vars(Lock(c))

-----------------------------------------------------------------------------
(* Properties *)

ConnsOf(s) == {k \in Conns : dialed[k] # None /\ ServiceOf[dialed[k]] = s}

(* "prevent the same service from concurrently creating connections"       *)
(* (client_conn.go:62): a service never has two open connections, and an   *)
(* open one is in the cache or in the hand of the goroutine that dialed    *)
(* it; a second would leak, as nobody would close it.                      *)
OneLiveConn ==
    \A s \in Services : \A k \in ConnsOf(s) : Live(k) =>
        /\ \A l \in ConnsOf(s) : Live(l) => l = k
        /\ \/ cache[s] = k
           \/ \E c \in Callers : /\ holder[s] = c /\ conn[c] = k
                                 /\ pc[c] \in {"checkNew", "closeNew", "store"}

(* The cache gives a connection up only once it is closed: replacing an    *)
(* open one would strand the calls running on it.                          *)
ReplacedOnlyWhenClosed ==
    [][\A s \in Services : cache'[s] # cache[s] /\ cache[s] # None =>
           state[cache[s]] = "shutdown"]_vars

(* Every call of GetConn returns, whatever fails under the mutex.          *)
CallsReturn == \A c \in Callers : pc[c] = "lookup" ~> pc[c] = "returned"

(* "priority order: optsStartup > opts > optsDefault" (client_conn.go:82): *)
(* a connection is dialed with the option its caller passed.               *)
DialsWithOwnOptions ==
    \A k \in Conns : dialed[k] \in WithOption => option[k] = dialed[k]
==============================================================================
