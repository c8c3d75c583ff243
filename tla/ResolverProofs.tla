---------------------------- MODULE ResolverProofs ----------------------------
(***************************************************************************)
(* Proofs about Resolver, for any set of addresses and any number of       *)
(* changes and of failed requests.                                         *)
(***************************************************************************)
EXTENDS Resolver, TLAPS

(* A resolution that will read from now on is on its way.                  *)
Told ==
    \/ asked # 0 /\ rev >= asked
    \/ waitIndex # 0 /\ rev >= waitIndex
    \/ watch = "notify" \/ notice = 1 \/ listen = "resolve"
    \/ rn = 1 \/ watcher = "get"

(* What the watcher holds, or gRPC when the watcher holds nothing, is what *)
(* etcd holds, or someone is on the way.  The value read matters from the  *)
(* read to UpdateState: a change in between must be told of, too.          *)
HoldsOrTold ==
    LET held == IF watcher = "update" THEN read ELSE addrs
    IN  held # etcd /\ (watcher = "update" \/ etcd # {}) => Told \/ missed \/ Closed

(* The next event is asked for at the latest by the next revision, and a   *)
(* request in progress asks for what the one after its failure would.      *)
AskedInTime ==
    /\ rev \in Nat /\ waitIndex \in 0..(rev + 1) /\ asked \in 0..(rev + 1)
    /\ (watch = "waiting") <=> (asked # 0)
    /\ asked # 0 /\ waitIndex # 0 => asked = waitIndex

IInv == HoldsOrTold /\ AskedInTime

(* What the watcher goroutine does.                                        *)
LEMMA WatcherKeeps ==
    ASSUME IInv, TakeToken \/ GetConfigs \/ GetConfigsFails \/ UpdateState
                 \/ Wake \/ WatcherReturns
    PROVE  IInv'
<1> USE DEF IInv, AskedInTime, watcherVars, watchVars, closeVars
<1>1. CASE TakeToken
    BY <1>1 DEF TakeToken, HoldsOrTold, Told, Closed
<1>2. CASE GetConfigs
    BY <1>2 DEF GetConfigs, HoldsOrTold, Told, Closed
<1>3. CASE GetConfigsFails
    BY <1>3 DEF GetConfigsFails, Fails, HoldsOrTold, Told, Closed
<1>4. CASE UpdateState
    BY <1>4 DEF UpdateState, HoldsOrTold, Told, Closed
<1>5. CASE Wake
    BY <1>5 DEF Wake, HoldsOrTold, Told, Closed
<1>6. CASE WatcherReturns
    BY <1>6 DEF WatcherReturns, HoldsOrTold, Told, Closed
<1> QED  BY <1>1, <1>2, <1>3, <1>4, <1>5, <1>6

(* What the goroutine of Watch does.                                       *)
LEMMA WatchKeeps ==
    ASSUME IInv, Check \/ WatchRegistered \/ WatchEvent \/ Notify
                 \/ Backoff \/ WatchFails
    PROVE  IInv'
<1> USE DEF IInv, AskedInTime, watcherVars, watchVars, closeVars
<1>1. CASE Check
    BY <1>1 DEF Check, HoldsOrTold, Told, Closed
<1>2. CASE WatchRegistered
    BY <1>2 DEF WatchRegistered, HoldsOrTold, Told, Closed
<1>3. CASE WatchEvent
    BY <1>3 DEF WatchEvent, HoldsOrTold, Told, Closed
<1>4. CASE Notify
    BY <1>4 DEF Notify, HoldsOrTold, Told, Closed
<1>5. CASE Backoff
    BY <1>5 DEF Backoff, HoldsOrTold, Told, Closed
<1>6. CASE WatchFails
    <2>1. asked' = 0 /\ watch' = "backoff" /\ rev' = rev /\ waitIndex' = waitIndex
        BY <1>6 DEF WatchFails
    <2>2. (missed => missed') /\ (asked # 0 /\ waitIndex = 0 /\ rev >= asked => missed')
        BY <1>6 DEF WatchFails
    <2>3. Told => Told' \/ missed'
        BY <1>6, <2>1, <2>2 DEF WatchFails, Told
    <2> QED  BY <1>6, <2>1, <2>2, <2>3 DEF WatchFails, HoldsOrTold, Closed
<1> QED  BY <1>1, <1>2, <1>3, <1>4, <1>5, <1>6

(* What listenEtcd does.                                                   *)
LEMMA ListenKeeps ==
    ASSUME IInv, TakeNotice \/ ListenResolves \/ ListenReturns
    PROVE  IInv'
<1> USE DEF IInv, AskedInTime, watcherVars, watchVars, closeVars
<1>1. CASE TakeNotice
    BY <1>1 DEF TakeNotice, HoldsOrTold, Told, Closed
<1>2. CASE ListenResolves
    BY <1>2 DEF ListenResolves, HoldsOrTold, Told, Closed
<1>3. CASE ListenReturns
    BY <1>3 DEF ListenReturns, HoldsOrTold, Told, Closed
<1> QED  BY <1>1, <1>2, <1>3

(* What etcd, gRPC and the framework do.                                   *)
LEMMA OthersKeep ==
    ASSUME IInv, Change \/ GrpcResolves \/ Close \/ AppClose
    PROVE  IInv'
<1> USE DEF IInv, AskedInTime, watcherVars, watchVars, closeVars
<1>1. CASE Change
    <2>1. rev' = rev + 1 /\ (waitIndex = 0 /\ asked = 0 => missed')
        BY <1>1 DEF Change, Observe
    <2>2. Told' \/ missed'
        BY <1>1, <2>1 DEF Change, Observe, Told
    <2> QED  BY <1>1, <2>1, <2>2 DEF Change, Observe, HoldsOrTold
<1>2. CASE GrpcResolves
    BY <1>2 DEF GrpcResolves, HoldsOrTold, Told, Closed
<1>3. CASE Close
    BY <1>3 DEF Close, HoldsOrTold, Told, Closed
<1>4. CASE AppClose
    BY <1>4 DEF AppClose, HoldsOrTold, Told, Closed
<1> QED  BY <1>1, <1>2, <1>3, <1>4

(* IInv is an invariant, whatever runs and whatever does not.              *)
LEMMA Invariance == Init /\ [][Next]_vars => []IInv
<1>1. Init => IInv
    BY DEF Init, IInv, HoldsOrTold, Told, AskedInTime
<1>2. IInv /\ [Next]_vars => IInv'
    <2>1. ASSUME IInv, UNCHANGED vars PROVE IInv'
        BY <2>1 DEF vars, watcherVars, watchVars, closeVars, IInv, HoldsOrTold, Told,
           AskedInTime, Closed
    <2> QED
        BY <2>1, WatcherKeeps, WatchKeeps, ListenKeeps, OthersKeep
        DEF Next, WatcherSteps, WatchSteps, ListenSteps
<1> QED  BY <1>1, <1>2, PTL

(* The types, the flags apart from the rest.                               *)
Flags == cancelled \in BOOLEAN /\ appClosed \in BOOLEAN /\ missed \in BOOLEAN

LEMMA FlagsKept == ASSUME Flags, Next PROVE Flags'
<1> USE DEF Flags, closeVars
<1>1. CASE WatcherSteps \/ WatcherReturns
    BY <1>1 DEF WatcherSteps, TakeToken, GetConfigs, GetConfigsFails, UpdateState, Wake,
                WatcherReturns
<1>2. CASE WatchSteps \/ ListenSteps
    BY <1>2 DEF WatchSteps, Check, WatchRegistered, WatchEvent, WatchFails, Backoff, Notify,
                ListenSteps, TakeNotice, ListenResolves, ListenReturns
<1>3. CASE Change \/ GrpcResolves \/ Close \/ AppClose
    BY <1>3 DEF Change, Observe, GrpcResolves, Close, AppClose
<1> QED  BY <1>1, <1>2, <1>3 DEF Next

LEMMA TypesKept == ASSUME TypeOK, Next PROVE TypeOK'
<1>0. Flags'
    BY FlagsKept DEF TypeOK, Flags
<1> USE <1>0, ResolverAssumption
    DEF TypeOK, Flags, WatcherPC, WatchPC, watcherVars, watchVars, Fails
<1>1. CASE TakeToken \/ GetConfigs \/ UpdateState \/ Wake \/ WatcherReturns
    BY <1>1 DEF TakeToken, GetConfigs, UpdateState, Wake, WatcherReturns
<1>2. CASE GetConfigsFails
    BY <1>2 DEF GetConfigsFails
<1>3. CASE Check \/ Notify \/ Backoff
    BY <1>3 DEF Check, Notify, Backoff
<1>4. CASE WatchRegistered
    BY <1>4 DEF WatchRegistered
<1>5. CASE WatchEvent
    BY <1>5 DEF WatchEvent
<1>6. CASE WatchFails
    BY <1>6 DEF WatchFails
<1>7. CASE TakeNotice \/ ListenResolves \/ ListenReturns
    BY <1>7 DEF TakeNotice, ListenResolves, ListenReturns
<1>8. CASE Change
    BY <1>8 DEF Change, Observe
<1>9. CASE GrpcResolves \/ Close \/ AppClose
    BY <1>9 DEF GrpcResolves, Close, AppClose
<1> QED  BY <1>1, <1>2, <1>3, <1>4, <1>5, <1>6, <1>7, <1>8, <1>9
         DEF Next, WatcherSteps, WatchSteps, ListenSteps

(* The channels hold one token and one notice, and a watch is under way    *)
(* exactly while its goroutine waits for it.                               *)
THEOREM TypeCorrect == Spec => []TypeOK
<1>1. Init => TypeOK
    <2> SUFFICES ASSUME Init PROVE TypeOK
        OBVIOUS
    <2>1. Flags
        BY Zenon DEF Init, Flags
    <2> QED  BY <2>1, ResolverAssumption DEF Init, Flags, TypeOK, WatcherPC, WatchPC
<1>2. TypeOK /\ [Next]_vars => TypeOK'
    BY TypesKept DEF vars, watcherVars, watchVars, closeVars, TypeOK
<1> QED  BY <1>1, <1>2, PTL DEF Spec

(* A client never rests on addresses that are not those registered, unless *)
(* the change was one Watch cannot see.                                    *)
THEOREM ResolverNeverStale == Spec => []NeverStale
<1>1. IInv => NeverStale
    BY DEF IInv, HoldsOrTold, Told, NeverStale, Pending
<1> QED  BY <1>1, Invariance, PTL DEF Spec
==============================================================================
