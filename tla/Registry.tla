------------------------------- MODULE Registry -------------------------------
(***************************************************************************)
(* Service registration in etcd: appRegisterServiceToEtcd and              *)
(* appUnRegisterServiceToEtcd of src/app/app.go, in the order in which     *)
(* runGRPC (grpc.go:85-163) and runHTTP (http.go) call them around the     *)
(* listener, with GetConfig, WriteConfig and ClearConfig of                *)
(* src/internal/service/slb/etcdconfig/service_config.go.                  *)
(*                                                                         *)
(* An instance is a process slot of a machine: its address, and so its     *)
(* key (GetKeyName, getServiceSequence), is fixed, and slots may share     *)
(* one.  The address of a key is the value stored under it, so a key is    *)
(* kept with the instance that wrote it.  A request whose reply is lost,   *)
(* or whose sender dies, is applied later or never, and not twice: that    *)
(* the etcd client may repeat a request at another endpoint is left out,   *)
(* and so is the socket a process inherits in a graceful restart.          *)
(***************************************************************************)
EXTENDS Naturals

CONSTANTS Instances,
          Keys,
          KeyOf,      \* the key of each instance's address
          NoInstance,
          MaxStarts,  \* bound: starts of processes
          MaxFaults   \* bound: crashes and lost replies

ASSUME RegistryAssumption ==
    /\ KeyOf \in [Instances -> Keys]
    /\ NoInstance \notin Instances
    /\ MaxStarts \in Nat
    /\ MaxFaults \in Nat

VARIABLES pc,        \* per instance, how far its process is
          owner,     \* per key, the instance that wrote it, if etcd has it
          listener,  \* per key, the process that holds its address's socket
          inflight,  \* requests sent and not answered: <<operation, instance>>
          starts,    \* processes started
          faults     \* crashes and lost replies so far

registryVars == <<pc, owner, listener, inflight, starts, faults>>

RegistryPC == {"down", "get", "write", "listen", "serving", "clear", "drain"}

RegistryTypeOK ==
    /\ pc \in [Instances -> RegistryPC]
    /\ owner \in [Keys -> Instances \cup {NoInstance}]
    /\ listener \in [Keys -> Instances \cup {NoInstance}]
    /\ inflight \subseteq {"set", "delete"} \X Instances
    /\ starts \in 0..MaxStarts
    /\ faults \in 0..MaxFaults

RegistryInit ==
    /\ pc = [i \in Instances |-> "down"]
    /\ owner = [k \in Keys |-> NoInstance]
    /\ listener = [k \in Keys |-> NoInstance]
    /\ inflight = {}
    /\ starts = 0
    /\ faults = 0

Goto(i, l) == pc' = [pc EXCEPT ![i] = l]

Exists(k) == owner[k] # NoInstance

Fault == faults < MaxFaults /\ faults' = faults + 1

-----------------------------------------------------------------------------
(* Mistakes the code does not make, for the properties to catch.           *)

(* A WriteConfig without PrevNoExist, trusting the earlier GetConfig.      *)
BugWriteConfig(i) ==
    /\ pc[i] = "write"
    /\ owner' = [owner EXCEPT ![KeyOf[i]] = i]
    /\ Goto(i, "listen")
    /\ UNCHANGED <<listener, inflight, starts, faults>>

(* A failure between the registration and the serving of requests that     *)
(* returns without unregistering.                                          *)
BugListen(i) ==
    /\ pc[i] = "listen"
    /\ \/ /\ listener[KeyOf[i]] = NoInstance
          /\ listener' = [listener EXCEPT ![KeyOf[i]] = i]
          /\ Goto(i, "serving")
       \/ Goto(i, "down") /\ UNCHANGED listener
    /\ UNCHANGED <<owner, inflight, starts, faults>>

-----------------------------------------------------------------------------
(* A process of the framework *)

Start(i) ==
    /\ pc[i] = "down" /\ starts < MaxStarts
    /\ starts' = starts + 1
    /\ Goto(i, "get")
    /\ UNCHANGED <<owner, listener, inflight, faults>>

(* GetConfig: an error, or a key that exists, ends the process; it has     *)
(* registered nothing yet and unregisters nothing.                         *)
GetConfig(i) ==
    /\ pc[i] = "get"
    /\ Goto(i, "down") \/ (~Exists(KeyOf[i]) /\ Goto(i, "write"))
    /\ UNCHANGED <<owner, listener, inflight, starts, faults>>

(* WriteConfig, a Set with PrevNoExist.                                    *)
WriteConfig(i) ==
    /\ pc[i] = "write"
    /\ IF Exists(KeyOf[i])
       THEN Goto(i, "down") /\ UNCHANGED owner
       ELSE Goto(i, "listen") /\ owner' = [owner EXCEPT ![KeyOf[i]] = i]
    /\ UNCHANGED <<listener, inflight, starts, faults>>

(* No answer: the process ends as if the key had not been written.         *)
WriteConfigLost(i) ==
    /\ pc[i] = "write" /\ Fault
    /\ inflight' = inflight \cup {<<"set", i>>}
    /\ Goto(i, "down")
    /\ UNCHANGED <<owner, listener, starts>>

(* What runGRPC and runHTTP do once registered, kp.Listen last.  Any of it *)
(* may fail, the Listen because another process has the address, or after  *)
(* it has the socket, in Ready; every return runs the deferred             *)
(* unregistration.                                                         *)
Listen(i) ==
    /\ pc[i] = "listen"
    /\ \/ /\ listener[KeyOf[i]] = NoInstance
          /\ listener' = [listener EXCEPT ![KeyOf[i]] = i]
          /\ Goto(i, "serving") \/ Goto(i, "clear")
       \/ Goto(i, "clear") /\ UNCHANGED listener
    /\ UNCHANGED <<owner, inflight, starts, faults>>

(* kp.Exit, or Serve returns.                                              *)
Exit(i) ==
    /\ pc[i] = "serving"
    /\ Goto(i, "clear")
    /\ UNCHANGED <<owner, listener, inflight, starts, faults>>

(* ClearConfig deletes the key, whoever wrote it.                          *)
ClearConfig(i) ==
    /\ pc[i] = "clear"
    /\ owner' = [owner EXCEPT ![KeyOf[i]] = NoInstance]
    /\ Goto(i, "drain")
    /\ UNCHANGED <<listener, inflight, starts, faults>>

(* No answer: the error is logged and the process goes on with its exit.   *)
ClearConfigLost(i) ==
    /\ pc[i] = "clear" /\ Fault
    /\ inflight' = inflight \cup {<<"delete", i>>}
    /\ Goto(i, "drain")
    /\ UNCHANGED <<owner, listener, starts>>

(* HttpServer.Shutdown closes the listener, after the unregistration.      *)
Shutdown(i) ==
    /\ pc[i] = "drain"
    /\ listener' = [k \in Keys |-> IF listener[k] = i THEN NoInstance ELSE listener[k]]
    /\ Goto(i, "down")
    /\ UNCHANGED <<owner, inflight, starts, faults>>

(* The process dies; a request it was making may have been sent.           *)
Crash(i) ==
    /\ pc[i] # "down" /\ Fault
    /\ inflight' \in {inflight}
          \cup (IF pc[i] = "write" THEN {inflight \cup {<<"set", i>>}} ELSE {})
          \cup (IF pc[i] = "clear" THEN {inflight \cup {<<"delete", i>>}} ELSE {})
    /\ listener' = [k \in Keys |-> IF listener[k] = i THEN NoInstance ELSE listener[k]]
    /\ Goto(i, "down")
    /\ UNCHANGED <<owner, starts>>

(* etcd applies a request that nobody waits for any more.                  *)
LateSet(i) ==
    /\ <<"set", i>> \in inflight
    /\ inflight' = inflight \ {<<"set", i>>}
    /\ owner' = IF Exists(KeyOf[i]) THEN owner ELSE [owner EXCEPT ![KeyOf[i]] = i]
    /\ UNCHANGED <<pc, listener, starts, faults>>

LateDelete(i) ==
    /\ <<"delete", i>> \in inflight
    /\ inflight' = inflight \ {<<"delete", i>>}
    /\ owner' = [owner EXCEPT ![KeyOf[i]] = NoInstance]
    /\ UNCHANGED <<pc, listener, starts, faults>>

(* runHTTP takes the same steps in the same order as runGRPC.              *)
InstanceSteps(i) ==
    \/ GetConfig(i) \/ WriteConfig(i) \/ Listen(i) \/ ClearConfig(i) \/ Shutdown(i)

RegistryNext ==
    \E i \in Instances :
        \/ Start(i) \/ InstanceSteps(i) \/ Exit(i)
        \/ WriteConfigLost(i) \/ ClearConfigLost(i) \/ Crash(i)
        \/ LateSet(i) \/ LateDelete(i)

RegistrySpec == RegistryInit /\ [][RegistryNext]_registryVars

-----------------------------------------------------------------------------
(* Properties *)

Registered(i) == pc[i] \in {"listen", "serving", "clear"}

(* While a process is registered the key of its address is in etcd and is  *)
(* the one it wrote itself: no other process, no request of an earlier     *)
(* process that etcd applies late, overwrites or deletes it.               *)
RegisteredOwns ==
    \A i \in Instances : Registered(i) => owner[KeyOf[i]] = i

(* Only a crash or a lost reply leaves a key without a process: every      *)
(* other way out of runGRPC and runHTTP, a failed registration and a       *)
(* failed Listen included, takes the key with it.                          *)
OrphanOnlyByFault ==
    faults = 0 => \A k \in Keys : Exists(k) => Registered(owner[k])

(* A registered process can find its address taken only by one that has    *)
(* unregistered and is draining: registering before Listen, and            *)
(* unregistering before Shutdown, keeps two servers off one address.       *)
ConflictOnlyWithDraining ==
    \A i \in Instances :
        Registered(i) /\ listener[KeyOf[i]] \notin {NoInstance, i} =>
            pc[listener[KeyOf[i]]] = "drain"

(* A key in etcd was written by a process of its address.                  *)
OwnersFit ==
    \A k \in Keys : Exists(k) => KeyOf[owner[k]] = k

(* Who holds a socket has it for its own address, and has not ended.       *)
ListenerAlive ==
    \A k \in Keys : listener[k] # NoInstance =>
        KeyOf[listener[k]] = k /\ pc[listener[k]] \in {"serving", "clear", "drain"}

(* Why RegisteredOwns is inductive: a delete in flight is for a key that   *)
(* is still there, whose writer has gone past its unregistration.          *)
DeletesOwn ==
    \A i \in Instances : <<"delete", i>> \in inflight =>
        owner[KeyOf[i]] = i /\ ~Registered(i)
==============================================================================
