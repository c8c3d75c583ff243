# A TLA+ model of kelvins

kelvins is a Go framework for microservices: an application hands it a description of a gRPC,
HTTP, cron or queue service, and the framework loads the configuration, opens the stores, registers
the service in etcd, serves it, and shuts everything down again. These modules model the parts of
it where goroutines, processes and etcd meet. The code is referred to as it is under `src/`.

## 1. Inventory

| Component | State | Operations | Interacts with |
|---|---|---|---|
| Goroutine pool, `util/goroutine/grpool.go` | job queue, free workers, WaitGroup, two-way stop channels | `SendJob`, `SendJobWithTimeout`, `SendJobWithDeadline`, `WaitAll`, `Release` | `appShutdown`, event producers and handlers, user code |
| Concurrency limiter, `util/middleware/rate_limit.go` | ticket channel, `ticketsState` | `Limit`, `ReturnTicket` | gRPC interceptors, the gin handler, `AppCloseCh` |
| Client connections, `util/client_conn/client_conn.go`, `conn_cache.go` | cache and mutex per service, shared dial options | `GetConn`, `GetEndpoints` | gRPC connectivity, resolver |
| Registration, `app/app.go`, `grpc.go`, `http.go`, `etcdconfig/service_config.go` | one etcd key per address | register, unregister | etcd, the listener, tableflip |
| Discovery, `util/client_conn/resolver.go`, `service_config.go` | `rn`, `notice`, the watcher's `WaitIndex`, addresses in gRPC | resolve, watch, `ResolveNow`, `Close` | etcd, gRPC, `AppCloseCh` |
| Balancer, `util/client_conn/balancer.go` | ready connections, next index | `Build`, `Pick` | gRPC |
| Application lifecycle, `app/*.go` | `appCloseCh`, open stores, servers | init, serve, drain, `appShutdown`, forced exit | everything above |
| Cron and queue applications, `app/cron.go`, `app/queue.go` | cron entries; consumers and `errorsChan` | run, stop | lifecycle, machinery, robfig/cron |
| Configuration and stores, `internal/config`, `setup` | sections of `app.ini`; clients of the stores | load, open | lifecycle |
| Process control, `util/kprocess`, `util/startup` | pid file, upgrader, signals | start, restart, stop | the lifecycle, the operating system |
| gRPC interceptors, `util/grpc_interceptor`, `util/middleware/rpc_*.go` | none between calls | contexts and retries of clients; recovery, limiter, log, token check of servers | limiter, handlers |
| gin helpers, `internal/setup` | none | per request, or once at the start | servers |

Messages and shared state between them: `AppCloseCh` is closed once by `appShutdown` and read by
the limiter, the resolver and the watch; the pool's `Release` and `WaitAll` are called by
`appShutdown` before the stores are closed; registration writes the keys that discovery reads
and watches; the connection cache dials the target that the resolver serves.

What is hard here, and what would make each component correct:

- *Pool.* Unbuffered channels used in both directions, a counter that is not always raised before
  the job is visible, jobs that panic, a shutdown that races with submitters. Correct when no
  accepted job is lost or run twice, `Release` leaves nothing running and always returns, the
  counter is exact, and `WaitAll` means what it says.
- *Limiter.* Requests that race with the closing of the channel they use. Correct when a ticket is
  held by exactly the requests being served, and a refusal always has a reason.
- *Connections.* Callers that all find a dead connection at once, a state read before it is acted
  upon, an `append` outside the mutex. Correct when a service has one open connection, which is
  replaced only once it is closed, and the dial uses the caller's options.
- *Registration.* Two requests that are not a transaction, replies that are lost, processes that
  die, a successor on the same address. Correct when a serving process owns its key, keys do not
  outlive processes, and addresses are not contested.
- *Discovery.* Two channels of capacity one, a rate limit, a watch that starts when it starts, an
  error path that may forget. Correct when a client never rests on addresses that are not the
  registered ones, and stops when it is closed.
- *Lifecycle, cron and queue.* Eight ways into the shutdown, code of the user that runs beside it in
  seven forms of which only some are waited for, errors that skip the rest, two places that close the
  same channel. Correct when nothing is opened or closed behind anybody's back, and leaving ends.
- *Process control.* A pid file that is checked, written and removed by different actors at
  different times and is all that orders them. Correct when one process serves, the file names it,
  and a file without a process has an explanation.
- *Calls.* Deferred functions in the order of the interceptors, panics, early returns, clocks that
  differ. Correct when an answer means what happened and a denial has a reason.

The hazards of the code, each at its line with the properties that watch it, are listed in
`PROJECT.json`.

## 2. Modules

| Module | What it is |
|---|---|
| `JobPool` | the abstract promise of a goroutine pool: a bounded FIFO, at most one execution per job, none started after the close |
| `GPool` | `grpool.go` in detail; `Promise` is its refinement mapping to `JobPool` |
| `GPoolProofs` | theorems on `GPool`: invariants, and the refinement |
| `RateLimit` | the limiter |
| `RpcServer` | a call through the client's interceptors and the server's chain; extends `RateLimit`, whose steps it takes for the limiter |
| `RateLimitProofs` | theorems on both, and that every step of `RpcServer` is one of `RateLimit` or leaves it alone |
| `ClientConn`, `ClientConnProofs` | `GetConn`, and theorems on it |
| `Registry`, `RegistryProofs` | registration, and theorems on it |
| `Resolver`, `ResolverProofs` | discovery, and theorems on it |
| `Discovery`, `DiscoveryProofs` | `Registry` and `Resolver` together, as they are; theorems that each implements its part, and what follows from both |
| `ServiceLife` | the abstract promise of a process to the requests and jobs it waits for: stores are given up only when none is left |
| `Lifecycle`, `LifecycleProofs` | one process from its configuration to its exit; `Life` is its refinement mapping to `ServiceLife`; theorems on both |
| `ProcessControl`, `ProcessControlProofs` | processes, commands and the pid file, and theorems on them |
| `MC*` | the instances TLC checks, one `.cfg` per run |

The operators `Bug...` are variants of an action with a mistake the code does not make; no
specification uses them. Putting one in the place of its action shows that a property notices.

### The pool

`send` is the control point of a submitting goroutine (one per job), `dpc`, `djob`, `dworker` and
`collected` the locals of `dispatch()`, `wpc` and `wjob` those of a worker, `caller` those of the
goroutines that call `WaitAll`; `Closer` also calls `Release`, as `appShutdown` does. A hand-over
on an unbuffered channel is one step of both sides. The WaitGroup is external: `WgAdd` changes the
counter and wakes waiters at zero, `WaitWake` panics if the counter has moved on meanwhile, and so
does a `WaitCount(1)` that leaves the counter below zero or meets the release of a waiter (`Added`).
A panic of the WaitGroup in a job ends in `runJob`'s recover; elsewhere it is unrecovered and
ends the process (`Alive`). That a `JobDone` too many can also meet the release of a waiter, and then
keep it from being released, is left out: `Done` is one step. Submitters may outlive the shutdown,
as event producers may.

In the refinement the job in the dispatcher's hand counts as pending (so `MaxPending` is one more
than the queue), and the pool is closed when `dispatch()` has returned.

### The limiter

One slot per server goroutine; a request goes through the load of `ticketsState`, the `select`, and
the deferred `ReturnTicket`. Go takes any ready case of a `select` and `default` only when none is
ready; a send on a closed channel is ready and panics, and the recovery interceptor turns that into
a lost request (`panicked`). `AppCloseCh` may be closed at any time.

### Calls

`Watched` slots of the limiter serve the calls that are followed; the other slots only compete for
tickets. `Send` and `Retry` put a request at the limiter (`Arrive`), `Limit` takes the limiter's own
steps, `Authenticate`, `Handle` and `Respond` are the chain below it (the last with the deferred
`ReturnTicket`), `Recovery` is the outermost deferred function and the answer. A health check passes
`Authenticate` without a token (`AuthFuncOverride`); one that reaches the chain is the framework's,
for without the health server gRPC answers before any interceptor. `caller` is what the client's
code has been told, `GiveUp` its deadline. A retry is made only for a unary call that ended in
`Internal`: the other code that is configured, `DeadlineExceeded`, is one the retry interceptor
never repeats. Times are in half seconds, because a token is stamped in whole seconds: half a second
is the smallest unit in which the truncation shows. Metadata, headers and trailers are left out, and
so are the wrappers of stream messages, which only log and recover.

What the model makes visible: a recovered panic is answered as a success, for the limiter's panics
during the shutdown too; a stream opened without a deadline is cancelled before its first message;
without `ExpireSecond` the window is empty, although `README.md:277` gives 30 s as the default
(`rpc_token.go:95` applies it to negative durations only, `rpc_auth.go:38` never makes one).

### Connections

One control point per atomic step of `GetConn`. Connectivity is Idle or Ready ("effective"),
Connecting or TransientFailure ("ineffective"), Shutdown; gRPC changes it at any time. `slot` is
the element of the backing array of `optsDefault` that `append` shares: `init` appends seven
options one by one, which leaves room for an eighth. A caller with one option of its own writes it
there (`client_conn.go:83`), and so does one without any when there is one start-up option (88);
`Startup` says whether there is. `MaxDials` bounds the connections of a
behaviour; a dial may always fail as well, so the bound adds no behaviour.

### Registration

An instance is a process slot with a fixed address, hence a fixed key; two instances may share one,
as a process and its successor do. A process that chooses a random port is a slot whose
address nobody shares. `Start`, `GetConfig`, `WriteConfig`, `Listen`, `Exit`, `ClearConfig` and
`Shutdown` follow `runGRPC` and `runHTTP`, which take the same steps; everything between the
registration and the serving can fail and then runs the deferred unregistration. `inflight` holds
requests whose sender no longer waits: etcd may apply them at any later time or never. Left out: a
request that the etcd client repeats at a second endpoint (it could be applied twice), and the
socket inherited in a graceful restart, which belongs to process control.

### Discovery

`watcher`, `watch` and `listen` are the three goroutines; `rn` and `notice` the channels of capacity
one, where "drain, then put" is one step because their readers only block on them. `waitIndex` is
what the etcd v2 client will ask for next and `asked` what etcd is being asked for; with 0 the
client asks for whatever comes after the request arrives. `missed` is a history variable: a
change that no request waits for or will ask for, an event forgotten in an error, a resolution
given up; the next successful read clears it. gRPC calls `ResolveNow` at any time, without
any fairness. After `AppCloseCh` is closed without a `Close`, the goroutine of `Watch` may stay in
`Next` until the next change, since only the context ends that call; `ClosedStops` therefore speaks
of `Close`.

### Registration and discovery together

`Discovery` extends both modules and changes neither: a step is one of `Registry`, or one of the
client's own steps in `Resolver`. What joins them is the directory: `GetKeyName` puts an instance's
key below the name of its service, `GetConfigs` lists that directory and `Watch` watches it, so
Resolver's `etcd` is the set of the keys that exist in `Registry` (`Nodes`), an address is its key,
and a request that creates or deletes a key is an event of the watch (`RegistryStep`). A `Set` that
is refused because of `PrevNoExist`, or a `Delete` of a missing key, is no event. Where `Resolver`
lets registrations change at will, one address at a time, `Discovery` has them change as processes
ask; that these are changes `Resolver` allows is a theorem.

The balancer below it is left out: it goes round the connections gRPC hands it and keeps nothing but
an index.

### Lifecycle

`pc` is the main goroutine, from `LoadDefaultConfig` through `setupCommonVars` and the set-up of the
four kinds of application to `serving`, and from any failure or `kp.Exit()` through the deferred
unregistration, the drain and `appShutdown` to `exited`. Ends that are not a return of main are
`aborted` (`log.Fatalf`, the forced exit) and `panicked`. `config` is the set of sections and user
functions that decide a branch; a store opens or its constructor fails. A task is any piece of
application code beside the main goroutine, in one of the forms the framework starts it in: `http`,
`rpc`, `hijacked` (h2c connections and websockets), `cron`, `consumer`, `queued` and `pooled` (the
pool), `event` and `health` (goroutines of their own, for the user's event functions and
`RegisterGRPCHealthHandle`, which nobody guards and nobody waits for). Tasks need never end. The
user's functions that main calls itself are taken to return, with or without an error. `sources` is
what still starts tasks. The pool is abstracted to what `GPool` shows: `Release` returns when no
worker runs a job and leaves the rest on the queue, `WaitAll` waits for them.

`ServiceLife` is the process as its requests and jobs see it: six phases, the stores that are open,
who is running. The mapping takes `phase` from `pc`, and for requests the `http` and `rpc` tasks, for
jobs the `pooled` ones; hijacked connections, cron jobs and messages are left out of the promise, for
the code does not wait for them. It does not wait for RPCs either, but keeps the promise to them: it
crashes before it closes a store.

RPCs reach the gRPC server through `ServeHTTP` (`http_server.go:38`). `GracefulStop` calls `Drain` on
the transport of each that is open, and for these transports grpc v1.40.0 (`go.mod`) answers with a
panic, in main's goroutine. `StopGRPC` is therefore no wait: with an RPC open, the stream of a health
`Watch` for one, the process crashes there and closes no store.

What the model makes visible beside its properties: the drain of gRPC that crashes, although
`grpc.go:47` means to "Wait for connections to drain"; XORM is never closed, although `vars.go:24` says
so; `queue.go:96` reads `QueueServerSetting` after line 84 has allowed for nil; `queue.go:174` calls
`GetNamedTaskFuncs` when only `RegisterEventHandler` is set; jobs left on the pool's queue hold
`WaitAll` until the forced exit, and no store is closed.

### Process control

A process is one run of `-s start`, by the operator or as the child of an upgrade; its number is its
pid. `pc` is its main goroutine, `handler` and `sig` the signal goroutine and its channel of
capacity one, `child` the upgrade it waits for. `cli` is a `restart` or `stop` that has read the
file and has not yet signalled. `raced` and `abandoned` are history variables that say which race or
which interruption has happened, so that the invariants can say that nothing else breaks the promise
of the file. `Ready` writes the file (`WritePid`) and then notifies the parent (`Announce`); with
the parent of an upgrade gone (`Orphaned`) the second fails, `Listen` returns the error, and main
leaves with the file in place. tableflip refuses an upgrade while the parent is there. An
application whose `PIDFile` is configured has `Dir` for a pid file (`app.go:154`). Pids are not used
again. Windows, which has no upgrade, is left out.

## 3. Runs

| Run | Shows | Bounds |
|---|---|---|
| `gpool` | `TypeOK`, `JobsConserved`, `CountExact`, `ReleaseQuiesces`, `ShutdownNeverPanics`, `WaitAllSound`, `JobsFinish`, `ReleaseReturns`, `ImplementsJobPool` | 3 jobs (one timed, calling `JobDone`), 2 workers, queue of 2, 2 callers |
| `gpool_timed` | violation of `WaitAllWaits` by `SendJobWithTimeout` | the same, no `JobDone` |
| `ratelimit` | `CallTypeOK`, `TicketsMatch`, `SuccessExplained`, `DenialsExplained`, `RefusedOnlyWhenFull`, `AlwaysAnswered` | 1 call followed, 2 other goroutines, limit 1 (capacity 2), 5 sorts of calls, 4 settings, clocks that differ by -0.5, 1.5 and 2.5 s, delays up to 2.5 s |
| `ratelimit_max` | violation of `AtMostMaxConcurrent` | 4 goroutines, limit 2 |
| `clientconn` | `OneLiveConn`, `ReplacedOnlyWhenClosed`, `CallsReturn` | 3 callers, 1 service, 2 dials |
| `clientconn_options` | violation of `DialsWithOwnOptions` | 3 callers, 2 services |
| `discovery` | `RegisteredOwns`, `OrphanOnlyByFault`, `ConflictOnlyWithDraining`, `ClientSeesServers` | 3 processes on 2 addresses, 2 starts, 1 fault, 1 client, 2 changes of the directory, no failed read; the slots of one address are symmetric |
| `resolver` | `TypeOK`, `NeverStale`, `Converges`, `ClosedStops` | 2 addresses, 2 changes, 3 errors |
| `resolver_missed` | violation of `EveryChangeSeen` | the same |
| `lifecycle` | `DrainedBeforeClose`, `ClosedUnlessError`, `PanicsExplained`, `ServesWithStores`, `ClosesInOrder`, `NoNewWorkAfterClose`, `ShutdownEnds`, `ImplementsServiceLife` | 4 kinds of application, configurations that together name every option, 3 tasks |
| `process` | `TypeOK`, `OneUnlessRaced`, `ReachableUnlessRaced`, `UpgradesReplaceNobody`, `StaleOnlyAfterCut`, `StopsWhenTold` | 2 processes, 2 events from outside |
| `restart` | violation of `RestartNotRefused` | 2 processes, none |

Why the bounds are enough for what the runs ask. With three jobs and a queue of two, a third
submitter finds the queue full while the dispatcher has not received yet, a job waits in the
dispatcher's hand while both workers run, and jobs are left on the queue after `Release`: every
blocking relation of the pool occurs. One goroutine more than the limiter's capacity makes refusals
happen; the delays and the clocks reach both sides of a window of two seconds. Three callers give a
holder of the mutex, one waiting and one that reads the cache meanwhile; two dials give a
replacement. Two processes of one address and two starts give a successor, one fault a lost request
or a crash; more is not needed, as every property of `discovery` is proved for any number of
processes, starts and faults, and the run is there to show that the cases occur and that mistakes
are seen. Symmetry is sound in it: it checks invariants only. In `resolver`, two changes give one
before and one after any read; three errors exhaust the tries of one resolution. Three tasks give a
request that is waited for, one that is not, and a job of the pool beside them. Two processes give a
start that races with a start, a child with its parent, and a successor with a stale file; two
events a signal and a crash, or a removal and a signal.

Deadlock is not checked in `gpool` and its variants, where submitters on a full queue and `WaitAll`
really stop after `Release`, in `discovery`, where the numbers of starts and changes are bounded, and in
`lifecycle`, `process` and `restart`, where the processes end.

### Fairness

Goroutines that can run do (weak fairness of each goroutine's steps), and job functions and
handlers return. Nobody must submit, expire, call `Release`, close, change a registration or fail.
`sync.Mutex` starves nobody (strong fairness of `Lock`): since Go 1.9 a waiter of 1 ms gets it.
A process that leaves takes every step it can, and its timer fires; a process's main and signal
goroutines run, and its drain is bounded by that timer. Tasks, operators and supervisors owe nothing.
The watcher's `select` on a closed channel has strong fairness, because Go chooses uniformly among
ready cases, so a case that is ready again and again is chosen.

### Findings

- `gpool_timed`: `SendJobWithTimeout` and `SendJobWithDeadline` count a job after it is on the
  queue (`grpool.go:147-148`, `161-162`). In the trace `SendJob` counts and queues `j1`; the timed
  `j3` runs and finishes before its own `WaitCount(1)`, and its `JobDone` takes the count of `j1`. The
  counter reads zero, and `WaitAll` (186: "Will wait for all jobs to finish") returns while `j1` is
  on the queue.
- `ratelimit_max`: the channel has room for `maxConcurrent + 1` (`rate_limit.go:12`).
- `clientconn_options`: `append(optsDefault, opts...)` (`client_conn.go:83`) shares an array element
  between dials of different services.
- `resolver_missed`: the watch begins with `AfterIndex: 0` (`service_config.go:145`) independently of
  the first resolution; a change in between triggers nothing (`README.md:480`).
- `restart`: tableflip runs the child with the arguments of its parent; `ParseCliCommand` finds the
  parent's pid file and refuses (`startup.go:30`), so that `-s restart` (`README.md:360`) never
  replaces a process. `UpgradesReplaceNobody` is the universal form of it, and a theorem: no upgrade
  gets past the check while its parent serves. `OneUnlessRaced` says what does.

## 4. Theorems

TLAPS checks these for every value of the constants that satisfies the module's `ASSUME`.

| Module | Theorem | States |
|---|---|---|
| `GPoolProofs` | `TypeCorrect`, `NoJobLostOrRepeated`, `ReleaseLeavesNothingRunning`, `WaitGroupExact`, `WaitAllIsSound`, `ShutdownIsSafe` | `TypeOK`, `JobsConserved`, `ReleaseQuiesces`, `CountExact`, `WaitAllSound`, `ShutdownNeverPanics` |
| | `KeepsPromise` | `SafeSpec => Promise!SafeSpec`, the implementation of `JobPool` |
| `RateLimitProofs` | `NoTicketLeaks`, `NoTicketLeaksInCalls`, `ConcurrencyBounded`, `RefusalsJustified`, `RefusalsJustifiedInCalls` | `TicketsMatch`, `AtMostCapacity`, `RefusedOnlyWhenFull` |
| | `CallsUseLimiter` | `CallSpec => Init /\ [][Next]_vars`, the implementation of the limiter by the calls |
| | `CallTypeCorrect`, `SuccessIsExplained`, `DenialsAreExplained` | `CallTypeOK`, `SuccessExplained`, `DenialsExplained` |
| `ClientConnProofs` | `TypeCorrect`, `OneConnection`, `NothingStranded` | `TypeOK`, `OneLiveConn`, `ReplacedOnlyWhenClosed` |
| `RegistryProofs` | `RegistryTypeCorrect`, `RegistrationIsExclusive`, `NoOrphanWithoutFault`, `AddressesNotContested` | `RegistryTypeOK`, `RegisteredOwns`, `OrphanOnlyByFault`, `ConflictOnlyWithDraining` |
| `ResolverProofs` | `TypeCorrect`, `ResolverNeverStale` | `TypeOK`, `NeverStale` |
| `DiscoveryProofs` | `DiscoveryUsesRegistry`, `DiscoveryUsesResolver` | `DiscoverySpec` implements `RegistrySpec`, and `Init /\ [][Next]_vars` of `Resolver` |
| | `ClientsSeeServers` | `ClientSeesServers` |
| `LifecycleProofs` | `TypeCorrect`, `Drained`, `StoresClosed`, `CrashesExplained`, `ConfiguredStoresServe`, `OrderedClosing`, `NothingNewAfterClose` | `TypeOK`, `DrainedBeforeClose`, `ClosedUnlessError`, `PanicsExplained`, `ServesWithStores`, `ClosesInOrder`, `NoNewWorkAfterClose` |
| | `KeepsItsPromise` | `Spec => Life!SafeSpec`, the implementation of `ServiceLife` |
| | `StoresOutliveGuests` | no step closes a store while a request or a job of the pool runs |
| `ProcessControlProofs` | `TypeCorrect`, `OneApplication`, `ServingReachable`, `RestartReplacesNobody`, `StaleExplained` | `TypeOK`, `OneUnlessRaced`, `ReachableUnlessRaced`, `UpgradesReplaceNobody`, `StaleOnlyAfterCut` |

Assumptions: finite sets of jobs, workers and slots; capacities that are positive numbers, as
`NewPool` and `NewKelvinsRateLimit` ensure; the closer is one of the callers; the calls that are
followed are among the slots; clocks and expiry times are integers; kinds and configurations are
among those the code tells apart; `None` and `Dir` are none of the values. Nothing is assumed of
fairness.

The inductive invariants and why they are needed:

- `GPool!IInv` adds to `TypeOK` and `JobsConserved` that the locals agree with the control points
  (`ControlInv`: a worker in the free pool is at its `select`, the one in the dispatcher's hand is
  not in the pool) and that `Release`, the stopping loop and the workers keep step
  (`HandshakeInv`: `collected` counts exactly the workers that have returned). Without the
  first a job could be delivered over another; without the second `Release` could return early.
  `CountExact`, `WaitAllSound` and `ShutdownNeverPanics` follow from cardinality lemmas on top.
- The refinement of `JobPool` uses `IInv` and three facts about the mapping: what the dispatcher holds and the
  queue form one FIFO, a worker to deliver to means fewer than all are running, and each step
  adds to or moves along exactly one of pending, running and done.
- `RateLimit`'s is `TypeOK /\ TicketsMatch`: the `default` of `ReturnTicket` is never taken. That
  of the calls, `CInv`, adds that a goroutine whose call is answered rests in the limiter (`Calm`)
  and that the limiter panics only when the application is closed (`AtShutdown`). Without them a
  call could be put on a goroutine that still holds a ticket, or a success have no reason.
- `ClientConn`'s adds to `OneLiveConn` that between `Lock` and `Unlock` a goroutine holds the mutex
  of its own service (`Mutex`), that a connection belongs to one service (`Born`), and that the
  holder knows every open connection of it: its own, or none once it is to dial (`HolderKnows`).
  `ReplacedOnlyWhenClosed` follows from the last.
- `Lifecycle`'s says at which control points what may still run (`SourcesFit`, `TasksFit`,
  `PoolFits`), that who has passed `close(appCloseCh)` has stopped the servers (`CloseChFits`), and
  which stores are closed already (`ClosedSoFar`). The action properties follow step by step; that a
  process serves with its stores needs a second invariant, `OpenedSoFar`, which gathers what has
  been opened as `setupCommonVars` proceeds.
- The refinement of `ServiceLife` needs no more than that invariant: a step moves the phase, opens or
  closes one store, or lets one guest come or go, and never two of these but at the end.
  `TasksFit` gives that no request is left at `shutdown`, `PoolFits` that no job is left
  when the stores are closed, and `SourcesFit` that nobody is admitted in between. Unlike
  `DrainedBeforeClose` it holds of processes that were cut short as well.
- `ProcessControl`'s says that a start between its check and the file keeps everybody else out
  (`Exclusive`), who can be named by the file (`WrittenLate`, `ChildReplaces`), that who waits for an
  upgrade has not been told to exit (`ChildReplaces`, which makes it the one the file
  names, so that the file refuses its upgrade), and that the process
  it names is going to remove it (`OwnerRemoves`, `HandlerFits`).
- `RegistryInv` adds to the properties of `Registry` `DeletesOwn` (a delete in flight is for a key
  that is still there, so no successor can have registered), `OwnersFit`, `ListenerAlive`, and that before the first fault
  nothing is in flight.
- `Resolver`'s is that what the watcher holds between its read and `UpdateState`, or gRPC otherwise,
  is what etcd holds unless a change is announced; and that the next event asked for is at most the
  next revision, and the same after a failure (`AskedInTime`).
- `Discovery` has no invariant of its own but `Directory`, that the client's `etcd` is the set of
  keys. It inherits `RegistryInv`, because its steps are steps of `Registry`. With it every
  change of the directory is that of one key (`OneKeyAtATime`), which makes its steps
  steps of `Resolver`, and so it inherits the invariant of `Resolver`. `ClientSeesServers` follows from
  `RegisteredOwns`, `OrphanOnlyByFault` and `NeverStale` at rest.

Model-checked only: liveness (`JobsFinish`, `ReleaseReturns`, `AlwaysAnswered`, `CallsReturn`,
`Converges`, `ClosedStops`, `ShutdownEnds`, `StopsWhenTold`, and the fairness of
`ImplementsJobPool` and `ImplementsServiceLife`), which the prover does not reach. Every other
property of a passing run is proved. The type invariants of `ClientConn`, `Registry` and
`Lifecycle` are proved and in no run: the other invariants of those runs rest on them.

## 5. Plan

1. *Done*: the pool with its abstract specification, the limiter, connections, registration,
   discovery and the two together; the lifecycle with cron and queue applications and its abstract
   specification, process control, and calls with their interceptors and tokens; every safety
   property of them proved.
2. `Discovery` with a bounded history of etcd, and its liveness: a client that is watching learns of
   every registration that stays.
3. An abstract specification of `Registry`, an address as a lease that one process holds at a time,
   and the faults under which it is not given back; the same for `GetConn`, a connection per
   service.
4. What the abstract pool says in general (the order in which jobs start, how many run) transferred
   to `GPool` along `KeepsPromise`.

## 6. Not modelled

- `balancer.go`: it keeps an index into the connections gRPC hands it, under a mutex; which those are
  is gRPC's affair.
- The history of etcd: once it has dropped what a watch asks for, `Next` fails for ever
  (`service_config.go:161`). What etcd answers then is not in this repository.
- Constructors of external clients (`setup/`, `internal/setup/`) and the reading of the
  configuration (`internal/config`, `config/`) beyond what `Lifecycle` asks of them: whether a
  section is there, and whether the constructor fails.
- The helpers without state (`gin_helper`, `http_helper`, `rpc_helper`, `metrics_mux`), the logging,
  `tools`, `publish.go` and the wrappers of stream messages: they keep nothing over time.
- External libraries (gRPC, the etcd client, tableflip, machinery, robfig/cron, gcache): only what the
  code needs of them.
- `GetEndpoints`, which reads etcd once and returns; the LRU eviction of the connection cache at
  32767 services; a second `Release` of a pool; a limiter with limit 0; the room in `errorsChan`.
- Process control on Windows, which writes no pid file and cannot restart, and of an application
  without a `kelvins-server` section, whose pid file has no path.
