--------------------------- MODULE DiscoveryProofs ---------------------------
(***************************************************************************)
(* Proofs about Discovery: it runs Registry and Resolver as they are, and  *)
(* what is proved of each of them adds up to what a client may rely on,    *)
(* for any number of processes and addresses, starts, faults and errors.   *)
(***************************************************************************)
EXTENDS Discovery, RegistryProofs, ResolverProofs

(* Together the processes take the steps of Registry.                      *)
THEOREM DiscoveryUsesRegistry == DiscoverySpec => RegistrySpec
<1>1. DiscoveryInit => RegistryInit
    BY DEF DiscoveryInit
<1>2. [DiscoveryNext]_discoveryVars => [RegistryNext]_registryVars
    BY DEF DiscoveryNext, RegistryStep, ResolverStep, discoveryVars
<1> QED  BY <1>1, <1>2, PTL DEF DiscoverySpec, RegistrySpec

(* One request creates or deletes at most one key: a key that is written   *)
(* was not there, and what a Delete leaves without it stays.               *)
LEMMA OneKeyAtATime ==
    ASSUME RegistryInv, RegistryNext, Nodes' # Nodes
    PROVE  \E k \in Keys : Nodes' = IF k \in Nodes THEN Nodes \ {k} ELSE Nodes \cup {k}
<1> USE RegistryAssumption DEF RegistryInv, RegistryTypeOK
<1>1. PICK i \in Instances :
           \/ owner' = owner
           \/ owner' = [owner EXCEPT ![KeyOf[i]] = NoInstance]
           \/ ~Exists(KeyOf[i]) /\ owner' = [owner EXCEPT ![KeyOf[i]] = i]
    BY DEF RegistryNext, InstanceSteps, Start, GetConfig, WriteConfig, Listen, ClearConfig,
           Shutdown, Exit, WriteConfigLost, ClearConfigLost, Crash, LateSet, LateDelete
<1>2. owner' # owner
    BY DEF Nodes, Exists
<1>3. CASE owner' = [owner EXCEPT ![KeyOf[i]] = NoInstance]
    <2>1. Nodes' = Nodes \ {KeyOf[i]}
        BY <1>3 DEF Nodes, Exists
    <2>2. KeyOf[i] \in Nodes
        BY <2>1
    <2> QED  BY <2>1, <2>2
<1>4. CASE ~Exists(KeyOf[i]) /\ owner' = [owner EXCEPT ![KeyOf[i]] = i]
    <2>1. Nodes' = Nodes \cup {KeyOf[i]}
        BY <1>4 DEF Nodes, Exists
    <2>2. KeyOf[i] \notin Nodes
        BY <1>4 DEF Nodes
    <2> QED  BY <2>1, <2>2
<1> QED  BY <1>1, <1>2, <1>3, <1>4

(* What etcd holds for the client is what the processes have written.      *)
Directory == etcd = Nodes

LEMMA DirectoryKept == ASSUME Directory, [DiscoveryNext]_discoveryVars PROVE Directory'
<1> USE DEF Directory, Nodes, Exists
<1>1. CASE RegistryStep
    BY <1>1 DEF RegistryStep
<1>2. CASE ResolverStep
    <2>1. etcd' = etcd
        BY <1>2 DEF ResolverStep, WatcherSteps, WatchSteps, ListenSteps, TakeToken, GetConfigs,
           GetConfigsFails, UpdateState, Wake, WatcherReturns, Check, WatchRegistered, WatchEvent,
           WatchFails, Backoff, Notify, TakeNotice, ListenResolves, ListenReturns, GrpcResolves,
           Close, AppClose
    <2> QED  BY <1>2, <2>1 DEF ResolverStep, registryVars
<1>3. CASE UNCHANGED discoveryVars
    BY <1>3 DEF discoveryVars, registryVars, vars
<1> QED  BY <1>1, <1>2, <1>3 DEF DiscoveryNext

(* The client takes the steps of Resolver, and the registrations change    *)
(* only as Resolver lets them: what is proved of Resolver for registrations*)
(* that come and go at will holds of those the framework makes.            *)
LEMMA StepUsesResolver ==
    ASSUME RegistryInv, Directory, Directory', [DiscoveryNext]_discoveryVars
    PROVE  [Next]_vars
<1>1. CASE RegistryStep
    <2>1. CASE etcd' = etcd
        BY <1>1, <2>1 DEF RegistryStep
    <2>2. CASE etcd' # etcd
        <3>1. rev < MaxChanges /\ Observe
            BY <1>1, <2>2 DEF RegistryStep
        <3>2. PICK a \in Addrs : etcd' = IF a \in etcd THEN etcd \ {a} ELSE etcd \cup {a}
            BY <1>1, <2>2, OneKeyAtATime, DiscoveryAssumption DEF RegistryStep, Directory
        <3>3. Change
            BY <3>1, <3>2 DEF Change
        <3> QED  BY <3>3 DEF Next
    <2> QED  BY <2>1, <2>2
<1>2. CASE ResolverStep
    BY <1>2 DEF ResolverStep, Next
<1>3. CASE UNCHANGED discoveryVars
    BY <1>3 DEF discoveryVars
<1> QED  BY <1>1, <1>2, <1>3 DEF DiscoveryNext

LEMMA DirectoryAlways == DiscoverySpec => []Directory
<1>1. DiscoveryInit => Directory
    BY DEF DiscoveryInit, Directory
<1> QED  BY <1>1, DirectoryKept, PTL DEF DiscoverySpec

THEOREM DiscoveryUsesResolver == DiscoverySpec => Init /\ [][Next]_vars
<1>1. DiscoveryInit => Init
    BY DEF DiscoveryInit
<1>2. DiscoverySpec => []RegistryInv
    BY DiscoveryUsesRegistry, RegistryInvariance, PTL
<1>3. RegistryInv /\ Directory /\ Directory' /\ [DiscoveryNext]_discoveryVars => [Next]_vars
    BY StepUsesResolver
<1> QED  BY <1>1, <1>2, <1>3, DirectoryAlways, PTL DEF DiscoverySpec

(* A client at rest balances over exactly the registered processes: it     *)
(* takes that a registered process owns its key, that keys do not outlive  *)
(* processes, and that a client does not rest on anything stale.           *)
THEOREM ClientsSeeServers == DiscoverySpec => []ClientSeesServers
<1>1. RegistryInv /\ Directory /\ IInv => ClientSeesServers
    <2> SUFFICES ASSUME RegistryInv, Directory, IInv, ~(Pending \/ missed \/ Closed)
                 PROVE  /\ \A i \in Instances : Registered(i) => KeyOf[i] \in addrs
                        /\ faults = 0 /\ etcd # {} =>
                              \A a \in addrs : \E i \in Instances : Registered(i) /\ KeyOf[i] = a
        BY DEF ClientSeesServers
    <2>1. addrs = etcd \/ etcd = {}
        BY DEF IInv, HoldsOrTold, Told, Pending
    <2>2. ASSUME NEW i \in Instances, Registered(i) PROVE KeyOf[i] \in addrs
        <3>1. KeyOf[i] \in etcd
            BY <2>2, RegistryAssumption
            DEF Directory, Nodes, Exists, RegistryInv, RegisteredOwns
        <3> QED  BY <3>1, <2>1
    <2>3. ASSUME faults = 0, etcd # {}, NEW a \in addrs
          PROVE  \E i \in Instances : Registered(i) /\ KeyOf[i] = a
        <3>1. a \in Keys /\ Exists(a)
            BY <2>1, <2>3 DEF Directory, Nodes
        <3>2. /\ owner[a] \in Instances
              /\ KeyOf[owner[a]] = a
              /\ Registered(owner[a])
            BY <2>3, <3>1 DEF RegistryInv, RegistryTypeOK, OwnersFit, OrphanOnlyByFault, Exists
        <3> QED  BY <3>2
    <2> QED  BY <2>2, <2>3
<1>2. DiscoverySpec => []RegistryInv
    BY DiscoveryUsesRegistry, RegistryInvariance, PTL
<1>3. DiscoverySpec => []IInv
    BY DiscoveryUsesResolver, Invariance, PTL
<1> QED  BY <1>1, <1>2, <1>3, DirectoryAlways, PTL
==============================================================================
