------------------------------ MODULE Discovery ------------------------------
(***************************************************************************)
(* Registration and discovery together: the processes of Registry, and one *)
(* client whose Resolver reads and watches the directory of their service. *)
(*                                                                         *)
(* GetKeyName puts the key of an instance below the name of its service,   *)
(* which is the directory that GetConfigs lists and Watch watches; the     *)
(* address a client dials is the one stored there.  Both modules are taken *)
(* as they are: where Resolver lets the registrations change as they like, *)
(* a change here is a request of a process, applied by etcd.               *)
(***************************************************************************)
EXTENDS Registry, Resolver

ASSUME DiscoveryAssumption == Addrs = Keys       \* an address is known by its key

discoveryVars == <<registryVars, vars>>

(* The keys in the directory of the service.                               *)
Nodes == {k \in Keys : Exists(k)}

DiscoveryInit ==
    /\ RegistryInit
    /\ Init /\ etcd = Nodes

(* A step of a process, or of etcd on its behalf.  A key that is created   *)
(* or deleted is an event of the directory; any other request, a Delete    *)
(* of a key that is not there among them, is none.                         *)
RegistryStep ==
    /\ RegistryNext
    /\ etcd' = Nodes'
    /\ IF etcd' = etcd THEN UNCHANGED vars
       ELSE rev < MaxChanges /\ Observe

(* A step of the client; it writes nothing to etcd.                        *)
ResolverStep ==
    /\ WatcherSteps \/ WatcherReturns \/ WatchSteps \/ ListenSteps
       \/ GrpcResolves \/ Close \/ AppClose
    /\ UNCHANGED registryVars

DiscoveryNext == RegistryStep \/ ResolverStep

DiscoverySpec == DiscoveryInit /\ [][DiscoveryNext]_discoveryVars

-----------------------------------------------------------------------------
(* Properties *)

(* A client at rest - nothing on its way to it, nothing it could not see - *)
(* balances over the address of every registered process, and, as long as  *)
(* no process has died and no request was lost, over no other; unless the  *)
(* service has no instance at all, when it keeps the last addresses it     *)
(* knew (resolver.go: an empty answer is not given to UpdateState).        *)
ClientSeesServers ==
    ~(Pending \/ missed \/ Closed) =>
        /\ \A i \in Instances : Registered(i) => KeyOf[i] \in addrs
        /\ faults = 0 /\ etcd # {} =>
              \A a \in addrs : \E i \in Instances : Registered(i) /\ KeyOf[i] = a
==============================================================================
