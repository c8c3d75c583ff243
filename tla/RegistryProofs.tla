---------------------------- MODULE RegistryProofs ----------------------------
(***************************************************************************)
(* Proofs about Registry, for any number of processes and addresses, any   *)
(* number of starts and any number of faults.                              *)
(***************************************************************************)
EXTENDS Registry, TLAPS

(* A delete that etcd may still apply is the danger: it would take the key *)
(* of a later process.  DeletesOwn says it cannot, since the key it is for *)
(* is still there and keeps later processes out.  Sockets and, before the  *)
(* first fault, the absence of orphans ride along.                         *)
NothingInFlight == faults = 0 => inflight = {}

RegistryInv ==
    /\ RegistryTypeOK
    /\ RegisteredOwns
    /\ DeletesOwn
    /\ OwnersFit
    /\ ListenerAlive
    /\ OrphanOnlyByFault
    /\ NothingInFlight

(* Nothing is registered, held or in flight at first.                      *)
LEMMA InitHolds == RegistryInit => RegistryInv
BY RegistryAssumption DEF RegistryInit, RegistryInv, RegistryTypeOK, RegistryPC, RegisteredOwns,
   Registered, DeletesOwn, OwnersFit, ListenerAlive, OrphanOnlyByFault, NothingInFlight, Exists

(* The steps of a process that touch neither etcd nor a socket.            *)
LEMMA LocalSteps ==
    ASSUME RegistryInv, NEW i \in Instances, Start(i) \/ GetConfig(i) \/ Exit(i)
    PROVE  RegistryInv'
<1> USE RegistryAssumption DEF Start, GetConfig, Exit, Goto, RegistryInv, RegistryTypeOK, Exists
<1>1. RegistryTypeOK'
    BY DEF RegistryPC
<1>2. RegisteredOwns'
    BY DEF RegisteredOwns, Registered, DeletesOwn
<1>3. DeletesOwn'
    BY DEF RegisteredOwns, Registered, DeletesOwn
<1>4. OwnersFit'
    BY DEF OwnersFit
<1>5. ListenerAlive'
    BY DEF ListenerAlive
<1>6. OrphanOnlyByFault' /\ NothingInFlight'
    BY DEF OrphanOnlyByFault, NothingInFlight, RegisteredOwns, Registered, OwnersFit
<1> QED  BY <1>1, <1>2, <1>3, <1>4, <1>5, <1>6

(* The steps on a socket.                                                  *)
LEMMA SocketSteps ==
    ASSUME RegistryInv, NEW i \in Instances, Listen(i) \/ Shutdown(i)
    PROVE  RegistryInv'
<1> USE RegistryAssumption DEF Listen, Shutdown, Goto, RegistryInv, RegistryTypeOK, Exists
<1>1. RegistryTypeOK'
    BY DEF RegistryPC
<1>2. RegisteredOwns'
    BY DEF RegisteredOwns, Registered, DeletesOwn
<1>3. DeletesOwn'
    BY DEF RegisteredOwns, Registered, DeletesOwn
<1>4. OwnersFit'
    BY DEF OwnersFit
<1>5. ListenerAlive'
    BY DEF ListenerAlive
<1>6. OrphanOnlyByFault' /\ NothingInFlight'
    BY DEF OrphanOnlyByFault, NothingInFlight, RegisteredOwns, Registered, OwnersFit
<1> QED  BY <1>1, <1>2, <1>3, <1>4, <1>5, <1>6

(* The requests to etcd that are answered.                                 *)
LEMMA AnsweredSteps ==
    ASSUME RegistryInv, NEW i \in Instances, WriteConfig(i) \/ ClearConfig(i)
    PROVE  RegistryInv'
<1> USE RegistryAssumption DEF WriteConfig, ClearConfig, Goto, RegistryInv, RegistryTypeOK, Exists
<1>1. RegistryTypeOK'
    BY DEF RegistryPC
<1>2. RegisteredOwns'
    BY DEF RegisteredOwns, Registered, DeletesOwn
<1>3. DeletesOwn'
    BY DEF RegisteredOwns, Registered, DeletesOwn
<1>4. OwnersFit'
    BY DEF OwnersFit
<1>5. ListenerAlive'
    BY DEF ListenerAlive
<1>6. OrphanOnlyByFault' /\ NothingInFlight'
    BY DEF OrphanOnlyByFault, NothingInFlight, RegisteredOwns, Registered, OwnersFit
<1> QED  BY <1>1, <1>2, <1>3, <1>4, <1>5, <1>6

(* The requests that are not, and the deaths of processes.                 *)
LEMMA FaultSteps ==
    ASSUME RegistryInv, NEW i \in Instances, WriteConfigLost(i) \/ ClearConfigLost(i) \/ Crash(i)
    PROVE  RegistryInv'
<1> USE RegistryAssumption DEF WriteConfigLost, ClearConfigLost, Crash, Goto, Fault,
        RegistryInv, RegistryTypeOK, Exists
<1>1. RegistryTypeOK'
    BY DEF RegistryPC
<1>2. RegisteredOwns'
    BY DEF RegisteredOwns, Registered, DeletesOwn
<1>3. DeletesOwn'
    BY DEF RegisteredOwns, Registered, DeletesOwn
<1>4. OwnersFit'
    BY DEF OwnersFit
<1>5. ListenerAlive'
    BY DEF ListenerAlive
<1>6. OrphanOnlyByFault' /\ NothingInFlight'
    BY DEF OrphanOnlyByFault, NothingInFlight, RegisteredOwns, Registered, OwnersFit
<1> QED  BY <1>1, <1>2, <1>3, <1>4, <1>5, <1>6

(* The requests etcd applies after everyone has stopped waiting.           *)
LEMMA LateSteps ==
    ASSUME RegistryInv, NEW i \in Instances, LateSet(i) \/ LateDelete(i)
    PROVE  RegistryInv'
<1> USE RegistryAssumption DEF LateSet, LateDelete, Goto, RegistryInv, RegistryTypeOK, Exists
<1>1. RegistryTypeOK'
    BY DEF RegistryPC
<1>2. RegisteredOwns'
    BY DEF RegisteredOwns, Registered, DeletesOwn
<1>3. DeletesOwn'
    BY DEF RegisteredOwns, Registered, DeletesOwn
<1>4. OwnersFit'
    BY DEF OwnersFit
<1>5. ListenerAlive'
    BY DEF ListenerAlive
<1>6. OrphanOnlyByFault' /\ NothingInFlight'
    BY DEF OrphanOnlyByFault, NothingInFlight, RegisteredOwns, Registered, OwnersFit
<1> QED  BY <1>1, <1>2, <1>3, <1>4, <1>5, <1>6

(* RegistryInv is an invariant.                                                   *)
LEMMA RegistryInvariance == RegistrySpec => []RegistryInv
<1>1. RegistryInv /\ [RegistryNext]_registryVars => RegistryInv'
    <2>1. ASSUME RegistryInv, UNCHANGED registryVars PROVE RegistryInv'
        BY <2>1 DEF registryVars, RegistryInv, RegistryTypeOK, RegisteredOwns, Registered,
           DeletesOwn, OwnersFit, ListenerAlive, OrphanOnlyByFault, NothingInFlight, Exists
    <2> QED
        BY <2>1, LocalSteps, SocketSteps, AnsweredSteps, FaultSteps, LateSteps
        DEF RegistryNext, InstanceSteps
<1> QED  BY <1>1, InitHolds, PTL DEF RegistrySpec

(* Keys, leases and calls stay in their ranges.                            *)
THEOREM RegistryTypeCorrect == RegistrySpec => []RegistryTypeOK
<1>1. RegistryInv => RegistryTypeOK
    BY DEF RegistryInv
<1> QED  BY <1>1, RegistryInvariance, PTL

(* A registered process owns the key of its address.                       *)
THEOREM RegistrationIsExclusive == RegistrySpec => []RegisteredOwns
<1>1. RegistryInv => RegisteredOwns
    BY DEF RegistryInv
<1> QED  BY <1>1, RegistryInvariance, PTL

(* Without faults no key outlives its process.                             *)
THEOREM NoOrphanWithoutFault == RegistrySpec => []OrphanOnlyByFault
<1>1. RegistryInv => OrphanOnlyByFault
    BY DEF RegistryInv
<1> QED  BY <1>1, RegistryInvariance, PTL

(* A registered process meets at most a draining one on its address.       *)
THEOREM AddressesNotContested == RegistrySpec => []ConflictOnlyWithDraining
<1>1. RegistryInv => ConflictOnlyWithDraining
    BY RegistryAssumption
    DEF RegistryInv, RegistryTypeOK, RegisteredOwns, Registered, ListenerAlive,
       ConflictOnlyWithDraining
<1> QED  BY <1>1, RegistryInvariance, PTL
==============================================================================
