------------------------------- MODULE Resolver -------------------------------
(***************************************************************************)
(* A client's view of a service: kelvinsResolver of                        *)
(* src/util/client_conn/resolver.go over GetConfigs and Watch of           *)
(* src/internal/service/slb/etcdconfig/service_config.go.                  *)
(*                                                                         *)
(* Three goroutines of one resolver: watcher, which resolves when rn holds *)
(* a token and then sleeps; the goroutine of Watch, which follows etcd and *)
(* leaves a notice; listenEtcd, which turns a notice into a token.         *)
(*                                                                         *)
(* The etcd v2 client is external.  Its Next waits for an event at         *)
(* WaitIndex; with WaitIndex 0, as Watch starts it, for an event after the *)
(* request has reached the server.  An event moves WaitIndex past itself;  *)
(* an error leaves it.                                                     *)
(***************************************************************************)
EXTENDS Naturals

CONSTANTS Addrs,       \* addresses of instances of the service
          MaxChanges,  \* bound: changes of the registrations
          MaxErrors    \* bound: failed requests to etcd

ASSUME ResolverAssumption == MaxChanges \in Nat /\ MaxErrors \in Nat

VARIABLES etcd,       \* the addresses registered
          rev,        \* the revision of the service's directory in etcd
          rn,         \* tokens in the channel of the same name
          watcher,    \* where the goroutine of that name is
          tries,      \* failed tries of the current resolution
          read,       \* the addresses GetConfigs returned last
          addrs,      \* the addresses last given to UpdateState
          watch,      \* where the goroutine of Watch is
          waitIndex,  \* WaitIndex of its next request
          asked,      \* the revision etcd was asked for, while it is
          notice,     \* elements in the channel of the same name
          listen,     \* where listenEtcd is
          cancelled,  \* Close has been called
          appClosed,  \* AppCloseCh is closed
          missed,     \* (history) a change the resolver was never told of
          errors      \* failed requests so far

watcherVars == <<rn, watcher, tries, read, addrs>>
watchVars == <<watch, waitIndex, asked, notice>>
closeVars == <<cancelled, appClosed>>
vars == <<etcd, rev, watcherVars, watchVars, listen, closeVars, missed, errors>>

WatcherPC == {"wait", "get", "update", "sleep", "exited"}
WatchPC == {"check", "request", "waiting", "notify", "backoff", "exited"}

TypeOK ==
    /\ etcd \subseteq Addrs /\ read \subseteq Addrs /\ addrs \subseteq Addrs
    /\ rev \in 0..MaxChanges
    /\ rn \in 0..1 /\ notice \in 0..1 /\ tries \in 0..2
    /\ watcher \in WatcherPC /\ watch \in WatchPC
    /\ listen \in {"wait", "resolve", "exited"}
    /\ waitIndex \in 0..(MaxChanges + 1) /\ asked \in 0..(MaxChanges + 1)
    /\ (watch = "waiting") <=> (asked # 0)
    /\ cancelled \in BOOLEAN /\ appClosed \in BOOLEAN /\ missed \in BOOLEAN
    /\ errors \in 0..MaxErrors

(* Build has started the goroutines and called ResolveNow.                 *)
Init ==
    /\ etcd \in SUBSET Addrs /\ rev = 0
    /\ rn = 1 /\ watcher = "wait" /\ tries = 0 /\ read = {} /\ addrs = {}
    /\ watch = "check" /\ waitIndex = 0 /\ asked = 0 /\ notice = 0
    /\ listen = "wait"
    /\ cancelled = FALSE /\ appClosed = FALSE
    /\ missed = FALSE /\ errors = 0

Closed == cancelled \/ appClosed

Fails == errors < MaxErrors /\ errors' = errors + 1

-----------------------------------------------------------------------------
(* Mistakes the code does not make, for the properties to catch.           *)

(* Requests to resolve that came during the rate limit are thrown away.    *)
BugWake ==
    /\ watcher = "sleep"
    /\ watcher' = "wait" /\ rn' = 0
    /\ UNCHANGED <<etcd, rev, tries, read, addrs, watchVars, listen, closeVars,
                   missed, errors>>

(* A notice that nobody was waiting for is dropped.                        *)
BugNotify ==
    /\ watch = "notify"
    /\ watch' = "check"
    /\ notice' = IF watcher = "wait" THEN 1 ELSE notice
    /\ UNCHANGED <<etcd, rev, watcherVars, waitIndex, asked, listen, closeVars,
                   missed, errors>>

(* The loop of Watch that does not look at ctx.                            *)
BugCheck ==
    /\ watch = "check"
    /\ watch' = IF appClosed THEN "exited" ELSE "request"
    /\ UNCHANGED <<etcd, rev, watcherVars, waitIndex, asked, notice, listen, closeVars,
                   missed, errors>>

(* A notice that is counted, not replaced.                                 *)
BugNotifyCount ==
    /\ watch = "notify"
    /\ watch' = "check" /\ notice' = notice + 1
    /\ UNCHANGED <<etcd, rev, watcherVars, waitIndex, asked, listen, closeVars,
                   missed, errors>>

-----------------------------------------------------------------------------
(* The watcher goroutine *)

TakeToken ==
    /\ watcher = "wait" /\ rn = 1
    /\ rn' = 0 /\ watcher' = "get" /\ tries' = 0
    /\ UNCHANGED <<etcd, rev, read, addrs, watchVars, listen, closeVars, missed, errors>>

(* GetConfigs answers; the directory outlives its last key.                *)
GetConfigs ==
    /\ watcher = "get"
    /\ read' = etcd /\ watcher' = "update"
    /\ missed' = FALSE
    /\ UNCHANGED <<etcd, rev, rn, tries, addrs, watchVars, listen, closeVars, errors>>

(* It fails, also when the directory has never existed; the third failure  *)
(* is reported to gRPC, and resolves nothing.                              *)
GetConfigsFails ==
    /\ watcher = "get"
    /\ Fails \/ (etcd = {} /\ rev = 0 /\ UNCHANGED errors)
    /\ \/ /\ tries < 2
          /\ tries' = tries + 1
          /\ UNCHANGED <<watcher, missed>>
       \/ /\ tries = 2
          /\ watcher' = "sleep"
          /\ missed' = (missed \/ etcd # {})
          /\ UNCHANGED tries
    /\ UNCHANGED <<etcd, rev, rn, read, addrs, watchVars, listen, closeVars>>

(* An empty answer is ignored.                                             *)
UpdateState ==
    /\ watcher = "update"
    /\ addrs' = IF read = {} THEN addrs ELSE read
    /\ watcher' = "sleep"
    /\ UNCHANGED <<etcd, rev, rn, tries, read, watchVars, listen, closeVars, missed, errors>>

Wake ==
    /\ watcher = "sleep"
    /\ watcher' = "wait"
    /\ UNCHANGED <<etcd, rev, rn, tries, read, addrs, watchVars, listen, closeVars,
                   missed, errors>>

WatcherReturns ==
    /\ watcher \in {"wait", "sleep"} /\ Closed
    /\ watcher' = "exited"
    /\ UNCHANGED <<etcd, rev, rn, tries, read, addrs, watchVars, listen, closeVars,
                   missed, errors>>

-----------------------------------------------------------------------------
(* The goroutine of Watch *)

Check ==
    /\ watch = "check"
    /\ watch' = IF Closed THEN "exited" ELSE "request"
    /\ UNCHANGED <<etcd, rev, watcherVars, waitIndex, asked, notice, listen, closeVars,
                   missed, errors>>

(* The request of Next reaches etcd.                                       *)
WatchRegistered ==
    /\ watch = "request"
    /\ asked' = IF waitIndex = 0 THEN rev + 1 ELSE waitIndex
    /\ watch' = "waiting"
    /\ UNCHANGED <<etcd, rev, watcherVars, waitIndex, notice, listen, closeVars,
                   missed, errors>>

WatchEvent ==
    /\ watch = "waiting" /\ rev >= asked
    /\ waitIndex' = asked + 1 /\ asked' = 0
    /\ watch' = "notify"
    /\ UNCHANGED <<etcd, rev, watcherVars, notice, listen, closeVars, missed, errors>>

(* Next fails, because of etcd or of ctx; an event it was about to deliver *)
(* will be asked for again only if an earlier one set WaitIndex.           *)
WatchFails ==
    /\ watch \in {"request", "waiting"}
    /\ Fails \/ (cancelled /\ UNCHANGED errors)
    /\ missed' = (missed \/ (watch = "waiting" /\ waitIndex = 0 /\ rev >= asked))
    /\ watch' = "backoff" /\ asked' = 0
    /\ UNCHANGED <<etcd, rev, watcherVars, waitIndex, notice, listen, closeVars>>

Backoff ==
    /\ watch = "backoff"
    /\ watch' = "check"
    /\ UNCHANGED <<etcd, rev, watcherVars, waitIndex, asked, notice, listen, closeVars,
                   missed, errors>>

(* The old notice is taken out, if there is one, and the new one put in.   *)
Notify ==
    /\ watch = "notify"
    /\ watch' = "check" /\ notice' = 1
    /\ UNCHANGED <<etcd, rev, watcherVars, waitIndex, asked, listen, closeVars,
                   missed, errors>>

-----------------------------------------------------------------------------
(* listenEtcd *)

TakeNotice ==
    /\ listen = "wait" /\ notice = 1
    /\ notice' = 0 /\ listen' = "resolve"
    /\ UNCHANGED <<etcd, rev, watcherVars, watch, waitIndex, asked, closeVars,
                   missed, errors>>

(* ResolveNow takes an old token out, if there is one, and puts one in.    *)
ListenResolves ==
    /\ listen = "resolve"
    /\ rn' = 1 /\ listen' = "wait"
    /\ UNCHANGED <<etcd, rev, watcher, tries, read, addrs, watchVars, closeVars,
                   missed, errors>>

(* The goroutine of Watch closes notice when it returns.                   *)
ListenReturns ==
    /\ listen = "wait" /\ notice = 0 /\ watch = "exited"
    /\ listen' = "exited"
    /\ UNCHANGED <<etcd, rev, watcherVars, watchVars, closeVars, missed, errors>>

-----------------------------------------------------------------------------
(* The surroundings *)

(* What the resolver notices of a change of the registrations: it learns   *)
(* of it if a request of Next waits for it or will still ask for it.       *)
Observe ==
    /\ rev' = rev + 1
    /\ missed' = (missed \/ (waitIndex = 0 /\ asked = 0))
    /\ UNCHANGED <<watcherVars, watchVars, listen, closeVars, errors>>

(* An instance registers or unregisters.                                   *)
Change ==
    /\ rev < MaxChanges
    /\ \E a \in Addrs : etcd' = IF a \in etcd THEN etcd \ {a} ELSE etcd \cup {a}
    /\ Observe

(* gRPC asks for a resolution, when a connection fails; not after Close.   *)
GrpcResolves ==
    /\ ~cancelled
    /\ rn' = 1
    /\ UNCHANGED <<etcd, rev, watcher, tries, read, addrs, watchVars, listen, closeVars,
                   missed, errors>>

(* gRPC closes the resolver with its ClientConn.                           *)
Close ==
    /\ cancelled' = TRUE
    /\ UNCHANGED <<etcd, rev, watcherVars, watchVars, listen, appClosed, missed, errors>>

AppClose ==
    /\ appClosed' = TRUE
    /\ UNCHANGED <<etcd, rev, watcherVars, watchVars, listen, cancelled, missed, errors>>

WatcherSteps == \/ TakeToken \/ GetConfigs \/ GetConfigsFails \/ UpdateState \/ Wake
WatchSteps == \/ Check \/ WatchRegistered \/ WatchEvent \/ Notify \/ Backoff
              \/ WatchFails
ListenSteps == \/ TakeNotice \/ ListenResolves \/ ListenReturns

Next == \/ WatcherSteps \/ WatcherReturns \/ WatchSteps \/ ListenSteps
        \/ Change \/ GrpcResolves \/ Close \/ AppClose

(* Goroutines run on, timers fire, etcd answers; a select that keeps       *)
(* finding a closed channel ready takes it in the end.                     *)
Fairness ==
    /\ WF_vars(WatcherSteps) /\ SF_vars(WatcherReturns)
    /\ WF_vars(WatchSteps) /\ WF_vars(ListenSteps)

Spec == Init /\ [][Next]_vars /\ Fairness

-----------------------------------------------------------------------------
(* Properties *)

(* Between a change in etcd and the addresses gRPC balances over, someone  *)
(* is on the way: an event not yet delivered, a notice, a token, a         *)
(* resolution that has not read yet or that holds what etcd holds.         *)
Pending ==
    \/ asked # 0 /\ rev >= asked
    \/ waitIndex # 0 /\ rev >= waitIndex
    \/ watch = "notify" \/ notice = 1 \/ listen = "resolve"
    \/ rn = 1 \/ watcher = "get"
    \/ watcher = "update" /\ read = etcd

(* A client never rests on addresses that are not those registered: while  *)
(* they differ a resolution is on its way, however notices, tokens and the *)
(* 3 s rate limit interleave, unless the change was one Watch cannot see.  *)
NeverStale ==
    addrs # etcd /\ etcd # {} => Pending \/ missed \/ Closed

(* "watch: listen to the service's etcd nodes and trigger the resolver"    *)
(* (README.md:480): while no request fails, every change triggers it.      *)
EveryChangeSeen ==
    errors = 0 /\ addrs # etcd /\ etcd # {} => Pending \/ Closed

(* Once the registrations stop changing, the client comes to use them and  *)
(* keeps using them.                                                       *)
Converges ==
    <>[](addrs = etcd \/ etcd = {} \/ missed \/ Closed)

(* After Close the three goroutines of the resolver all return.            *)
ClosedStops ==
    cancelled ~> (watcher = "exited" /\ watch = "exited" /\ listen = "exited")
==============================================================================
