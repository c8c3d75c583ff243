-------------------------- MODULE ClientConnProofs --------------------------
(***************************************************************************)
(* Proofs about ClientConn, for any callers, services, options and number  *)
(* of dials.                                                               *)
(***************************************************************************)
EXTENDS ClientConn, TLAPS

Critical == {"relookup", "recheck", "reclose", "options", "dial", "checkNew", "closeNew",
             "store", "unlock"}
Has == {"check", "close", "recheck", "reclose", "checkNew", "closeNew", "store"}

(* A goroutine between Lock and Unlock holds the mutex of its service.     *)
Mutex ==
    /\ \A c \in Callers : (pc[c] \in Critical) <=> (holder[ServiceOf[c]] = c)
    /\ \A s \in Services, c \in Callers : holder[s] = c => ServiceOf[c] = s

(* Connections are those that were dialed, each for one service.           *)
Born ==
    /\ \A k \in Conns : state[k] = "unborn" <=> dialed[k] = None
    /\ \A s \in Services : cache[s] # None => cache[s] \in ConnsOf(s)
    /\ \A c \in Callers : conn[c] # None => conn[c] \in ConnsOf(ServiceOf[c])
    /\ \A c \in Callers : pc[c] \in Has => conn[c] # None

(* What the holder of the mutex knows of the open connections of its       *)
(* service: there is none but its own, and none at all before it dials.    *)
HolderKnows ==
    \A c \in Callers : \A k \in ConnsOf(ServiceOf[c]) :
        /\ pc[c] \in {"options", "dial"} => ~Live(k)
        /\ pc[c] \in {"recheck", "reclose", "checkNew", "closeNew", "store"} /\ Live(k) =>
              k = conn[c]

IInv == TypeOK /\ Mutex /\ Born /\ HolderKnows /\ OneLiveConn

LEMMA InitHolds == Init => IInv
BY ClientConnAssumption
DEF Init, IInv, TypeOK, PC, ConnState, Mutex, Critical, Born, Has, HolderKnows, OneLiveConn,
    ConnsOf, Live

(* Every step keeps the types.                                             *)
LEMMA Types == ASSUME TypeOK, Born, Next PROVE TypeOK'
<1> USE ClientConnAssumption DEF TypeOK, PC, ConnState, Goto, sharedVars
<1>1. ASSUME NEW c \in Callers, Call(c) \/ Lock(c) \/ Lookup(c) \/ Unlock(c) PROVE TypeOK'
    BY <1>1 DEF Call, Lock, Lookup, Unlock
<1>2. ASSUME NEW c \in Callers, Check(c) PROVE TypeOK'
    BY <1>2 DEF Check
<1>3. ASSUME NEW c \in Callers, Close(c) \/ Reclose(c) \/ CloseNew(c) PROVE TypeOK'
    BY <1>3 DEF Close, Reclose, CloseNew, CloseConn
<1>4. ASSUME NEW c \in Callers, AppendOptions(c) \/ DialFail(c) PROVE TypeOK'
    BY <1>4 DEF AppendOptions, UsesSlot, DialFail
<1>5. ASSUME NEW c \in Callers, Dial(c) PROVE TypeOK'
    BY <1>5 DEF Dial, UsesSlot
<1>6. ASSUME NEW c \in Callers, Store(c) PROVE TypeOK'
    BY <1>6 DEF Store
<1>7. ASSUME NEW k \in Conns, Connectivities(k) PROVE TypeOK'
    BY <1>7 DEF Connectivities
<1> QED  BY <1>1, <1>2, <1>3, <1>4, <1>5, <1>6, <1>7 DEF Next, Step

(* Every step keeps the mutex.                                             *)
LEMMA MutexKept == ASSUME TypeOK, Mutex, Next PROVE Mutex'
<1> USE ClientConnAssumption DEF TypeOK, Mutex, Critical, Goto, sharedVars
<1>1. ASSUME NEW c \in Callers, Call(c) \/ Lookup(c) PROVE Mutex'
    BY <1>1 DEF Call, Lookup
<1>2. ASSUME NEW c \in Callers, Check(c) PROVE Mutex'
    BY <1>2 DEF Check
<1>3. ASSUME NEW c \in Callers, Close(c) \/ Reclose(c) \/ CloseNew(c) PROVE Mutex'
    BY <1>3 DEF Close, Reclose, CloseNew, CloseConn
<1>4. ASSUME NEW c \in Callers, AppendOptions(c) \/ Dial(c) \/ DialFail(c) \/ Store(c)
      PROVE  Mutex'
    BY <1>4 DEF AppendOptions, Dial, DialFail, Store
<1>5. ASSUME NEW c \in Callers, Lock(c) PROVE Mutex'
    BY <1>5 DEF Lock
<1>6. ASSUME NEW c \in Callers, Unlock(c) PROVE Mutex'
    BY <1>6 DEF Unlock
<1>7. ASSUME NEW k \in Conns, Connectivities(k) PROVE Mutex'
    BY <1>7 DEF Connectivities
<1> QED  BY <1>1, <1>2, <1>3, <1>4, <1>5, <1>6, <1>7 DEF Next, Step

(* Every step keeps connections to the service they were dialed for.       *)
LEMMA BornKept == ASSUME TypeOK, Born, Next PROVE Born'
<1> USE ClientConnAssumption DEF TypeOK, Born, Has, ConnsOf, Goto, sharedVars
<1>1. ASSUME NEW c \in Callers, Call(c) \/ Lock(c) \/ Unlock(c) PROVE Born'
    BY <1>1 DEF Call, Lock, Unlock
<1>2. ASSUME NEW c \in Callers, Lookup(c) PROVE Born'
    BY <1>2 DEF Lookup
<1>3. ASSUME NEW c \in Callers, Check(c) PROVE Born'
    BY <1>3 DEF Check
<1>4. ASSUME NEW c \in Callers, Close(c) \/ Reclose(c) \/ CloseNew(c) PROVE Born'
    BY <1>4 DEF Close, Reclose, CloseNew, CloseConn
<1>5. ASSUME NEW c \in Callers, AppendOptions(c) \/ DialFail(c) PROVE Born'
    BY <1>5 DEF AppendOptions, DialFail
<1>6. ASSUME NEW c \in Callers, Dial(c) PROVE Born'
    BY <1>6 DEF Dial
<1>7. ASSUME NEW c \in Callers, Store(c) PROVE Born'
    BY <1>7 DEF Store
<1>8. ASSUME NEW k \in Conns, Connectivities(k) PROVE Born'
    BY <1>8 DEF Connectivities, Live
<1> QED  BY <1>1, <1>2, <1>3, <1>4, <1>5, <1>6, <1>7, <1>8 DEF Next, Step

(* Every step keeps what the holder knows, and the one open connection.    *)
LEMMA OneKept == ASSUME IInv, Next PROVE HolderKnows' /\ OneLiveConn'
<1> USE ClientConnAssumption DEF IInv, TypeOK, Mutex, Critical, Born, Has, HolderKnows,
        OneLiveConn, ConnsOf, Live, Goto, sharedVars
<1>1. ASSUME NEW c \in Callers, Call(c) PROVE HolderKnows' /\ OneLiveConn'
    BY <1>1 DEF Call
<1>2. ASSUME NEW c \in Callers, Lock(c) PROVE HolderKnows' /\ OneLiveConn'
    BY <1>2 DEF Lock
<1>3. ASSUME NEW c \in Callers, Lookup(c) PROVE HolderKnows' /\ OneLiveConn'
    BY <1>3 DEF Lookup
<1>4. ASSUME NEW c \in Callers, Check(c) PROVE HolderKnows' /\ OneLiveConn'
    BY <1>4 DEF Check
<1>5. ASSUME NEW c \in Callers, Close(c) PROVE HolderKnows' /\ OneLiveConn'
    BY <1>5 DEF Close, CloseConn
<1>6. ASSUME NEW c \in Callers, Reclose(c) \/ CloseNew(c) PROVE HolderKnows' /\ OneLiveConn'
    BY <1>6 DEF Reclose, CloseNew, CloseConn
<1>7. ASSUME NEW c \in Callers, AppendOptions(c) \/ DialFail(c)
      PROVE  HolderKnows' /\ OneLiveConn'
    BY <1>7 DEF AppendOptions, DialFail
<1>8. ASSUME NEW c \in Callers, Dial(c) PROVE HolderKnows' /\ OneLiveConn'
    BY <1>8 DEF Dial
<1>9. ASSUME NEW c \in Callers, Store(c) PROVE HolderKnows' /\ OneLiveConn'
    BY <1>9 DEF Store
<1>10. ASSUME NEW c \in Callers, Unlock(c) PROVE HolderKnows' /\ OneLiveConn'
    BY <1>10 DEF Unlock
<1>11. ASSUME NEW k \in Conns, Connectivities(k) PROVE HolderKnows' /\ OneLiveConn'
    BY <1>11 DEF Connectivities
<1> QED  BY <1>1, <1>2, <1>3, <1>4, <1>5, <1>6, <1>7, <1>8, <1>9, <1>10, <1>11 DEF Next, Step

(* IInv is an invariant.                                                   *)
LEMMA Invariance == Spec => []IInv
<1>1. IInv /\ [Next]_vars => IInv'
    <2>1. ASSUME IInv, UNCHANGED vars PROVE IInv'
        BY <2>1 DEF vars, IInv, TypeOK, Mutex, Born, HolderKnows, OneLiveConn, ConnsOf, Live
    <2> QED  BY <2>1, Types, MutexKept, BornKept, OneKept DEF IInv
<1> QED  BY <1>1, InitHolds, PTL DEF Spec

(* Callers, connections and the cache stay in their ranges.                *)
THEOREM TypeCorrect == Spec => []TypeOK
<1>1. IInv => TypeOK
    BY DEF IInv
<1> QED  BY <1>1, Invariance, PTL

(* The mutex keeps two callers from opening two connections to a service.  *)
THEOREM OneConnection == Spec => []OneLiveConn
<1>1. IInv => OneLiveConn
    BY DEF IInv
<1> QED  BY <1>1, Invariance, PTL

(* A connection that is open is never dropped from the cache.              *)
THEOREM NothingStranded == Spec => ReplacedOnlyWhenClosed
<1>1. ASSUME IInv, Next, NEW s \in Services, cache'[s] # cache[s], cache[s] # None
      PROVE  state[cache[s]] = "shutdown"
    <2>1. PICK c \in Callers : Store(c) /\ s = ServiceOf[c]
        BY <1>1, ClientConnAssumption
        DEF IInv, TypeOK, Next, Step, Call, Lock, Lookup, Check, Close, Reclose, CloseNew,
            CloseConn, AppendOptions, Dial, DialFail, Store, Unlock, Connectivities, sharedVars
    <2>2. cache[s] \in ConnsOf(s) /\ state[cache[s]] # "unborn"
        BY <1>1 DEF IInv, Born, ConnsOf
    <2>3. cache[s] # conn[c]
        BY <1>1, <2>1, ClientConnAssumption DEF Store, IInv, TypeOK
    <2>4. ~Live(cache[s])
        BY <1>1, <2>1, <2>2, <2>3 DEF IInv, HolderKnows, Store
    <2> QED  BY <1>1, <2>2, <2>4 DEF IInv, TypeOK, ConnState, Live, ConnsOf
<1>2. IInv /\ [Next]_vars =>
          [\A s \in Services : cache'[s] # cache[s] /\ cache[s] # None =>
              state[cache[s]] = "shutdown"]_vars
    BY <1>1
<1> QED  BY <1>2, Invariance, PTL DEF Spec, ReplacedOnlyWhenClosed
==============================================================================
