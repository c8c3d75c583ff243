------------------------------ MODULE Lifecycle ------------------------------
(***************************************************************************)
(* One process of a kelvins application from the configuration to its      *)
(* exit: initApplication and the set-up of each kind of application,       *)
(* serving, the drain, and appShutdown with the 30 s forced exit (src/app, *)
(* src/setup, src/internal/config).                                        *)
(*                                                                         *)
(* pc is where the main goroutine is.  A task is any piece of application  *)
(* code beside it: a request, a cron job, a queue message, a job of the    *)
(* goroutine pool, an event or a health function.  A task may use every    *)
(* store, so what matters is which tasks can still run when one is closed. *)
(* The user's functions that main calls itself return, with or without an  *)
(* error.                                                                  *)
(*                                                                         *)
(* The three brokers of setupCommonQueue are one store, "queues"; the      *)
(* pool's channels are abstracted to what GPool shows of them.  An h2c     *)
(* connection, which carries all gRPC requests, is taken out of the HTTP   *)
(* server's hands: Shutdown neither closes it nor waits for it.  The gRPC  *)
(* server gets its requests from there through ServeHTTP and refuses them  *)
(* once it is stopped, but cannot drain those it has: what is a graceful   *)
(* stop on connections of its own panics on these (grpc v1.40.0,           *)
(* serverHandlerTransport.Drain).                                          *)
(***************************************************************************)
EXTENDS Naturals, FiniteSets

Options ==                         \* sections of app.ini, and what the user supplies
    {"mysql", "mongo", "redis", "gpool", "g2cache", "rocketmq", "queues", "queueserver",
     "h2",                         \* SupportH2
     "named", "handler"}           \* GetNamedTaskFuncs, RegisterEventHandler

CONSTANTS Kinds,                   \* the kinds of application considered
          Configs,                 \* their configurations
          Tasks                    \* pieces of application code

ASSUME LifecycleAssumption ==
    /\ Kinds \subseteq {"grpc", "http", "cron", "queue"}
    /\ Configs \subseteq SUBSET Options

VARIABLES kind, config,            \* fixed for the process
          appProcessNext,          \* the command line was an accepted start
          pc,                      \* the main goroutine
          open,                    \* stores opened and not closed
          pool,                    \* kelvins.GPool
          closeCh,                 \* appCloseCh is closed
          timer,                   \* the forced exit is armed
          failed,                  \* StopFunc or a Close returned an error
          sources,                 \* what still starts tasks
          task,                    \* per task, what it is doing
          errorsChan,              \* the channel queue consumers report to
          results,                 \* ... and the errors in it, nil among them
          quit                     \* the user told the consumers to quit

app == <<kind, config>>
stores == <<open, pool>>
leaving == <<closeCh, timer, failed>>
work == <<sources, task>>
consumers == <<errorsChan, results, quit>>
vars == <<app, appProcessNext, pc, stores, leaving, work, consumers>>

Stores == {"gorm", "xorm", "mongo", "redis", "g2cache", "event", "queues"}
Sources == {"http", "h2c", "rpc", "cron", "consume"}
Active == {"http", "rpc", "hijacked", "cron", "consumer", "pooled", "event", "health"}

SettingUp == {"load", "control", "user", "gorm", "xorm", "mongo", "redis", "gpool", "g2cache",
              "loggers", "event", "uservars", "kindvars", "queues", "register", "routes",
              "producer", "handler", "jobs", "listen", "start"}
Leaving == {"closeErrors", "drainErrors", "unregister", "leave", "httpStop", "httpWait",
            "rpcStop", "cronStop", "shutdown", "stopFunc", "release", "waitAll",
            "closeRedis", "closeGorm", "closeMongo"}
Ended == {"exited", "aborted", "panicked"}       \* main returned, os.Exit, a panic

TypeOK ==
    /\ kind \in Kinds /\ config \in Configs
    /\ appProcessNext \in BOOLEAN
    /\ pc \in SettingUp \cup Leaving \cup Ended \cup {"serving"}
    /\ open \subseteq Stores
    /\ pool \in {"none", "open", "stopped"}
    /\ closeCh \in BOOLEAN /\ timer \in BOOLEAN /\ failed \in BOOLEAN
    /\ sources \subseteq Sources
    /\ task \in [Tasks -> Active \cup {"idle", "queued"}]
    /\ errorsChan \in {"none", "open", "closed"}
    /\ results \subseteq {"nil", "err"}
    /\ quit \in BOOLEAN

Init ==
    /\ kind \in Kinds /\ config \in Configs
    /\ appProcessNext = FALSE
    /\ pc = "load"
    /\ open = {} /\ pool = "none"
    /\ closeCh = FALSE /\ timer = FALSE /\ failed = FALSE
    /\ sources = {} /\ task = [t \in Tasks |-> "idle"]
    /\ errorsChan = "none" /\ results = {} /\ quit = FALSE

Alive == pc \notin Ended
Doing(S) == {t \in Tasks : task[t] \in S}
Registers == kind \in {"grpc", "http"}           \* ... its address in etcd

(* The main goroutine moves on and nothing else changes.                   *)
Moves(from, to) ==
    /\ pc = from /\ pc' \in to
    /\ UNCHANGED <<app, appProcessNext, stores, leaving, work, consumers>>

(* A step of the set-up: skipped without its section, otherwise it opens   *)
(* a store, or fails and the application leaves.                           *)
Opens(from, section, store, to) ==
    /\ pc = from
    /\ \/ section \notin config /\ pc' = to /\ open' = open
       \/ section \in config /\ pc' = to /\ open' = open \cup {store}
       \/ section \in config /\ pc' = "leave" /\ open' = open
    /\ UNCHANGED <<app, appProcessNext, pool, leaving, work, consumers>>

(* A step of appShutdown: closes a store, if it was opened; an error ends  *)
(* the shutdown there.                                                     *)
Closes(from, store, to) ==
    /\ pc = from
    /\ \/ open' = open \ {store} /\ pc' = to /\ failed' = failed
       \/ store \in open /\ open' = open /\ pc' = "exited" /\ failed' = TRUE
    /\ UNCHANGED <<app, appProcessNext, pool, closeCh, timer, work, consumers>>

-----------------------------------------------------------------------------
(* Mistakes the code does not make, for the properties to catch.           *)

(* An error of MongoDB overwritten by the next one, as GORM's is.          *)
BugOpenMongo ==
    /\ pc = "mongo" /\ pc' = "redis"
    /\ open' \in {open, open \cup (IF "mongo" \in config THEN {"mongo"} ELSE {})}
    /\ UNCHANGED <<app, appProcessNext, pool, leaving, work, consumers>>

(* The forced exit is not armed.                                           *)
BugPrepareForceExit ==
    Moves("leave", {IF Registers THEN "httpStop" ELSE IF kind = "cron" THEN "cronStop"
                    ELSE "shutdown"})

(* The gRPC server is stopped without waiting for the HTTP requests.       *)
BugDrainHttp == Moves("httpWait", {IF kind = "grpc" THEN "rpcStop" ELSE "shutdown"})

(* The cron scheduler is left running.                                     *)
BugStopCron == Moves("cronStop", {"shutdown"})

(* appShutdown without its first test.                                     *)
BugShutdown ==
    /\ pc = "shutdown"
    /\ pc' = IF closeCh THEN "panicked" ELSE "stopFunc"
    /\ closeCh' = TRUE
    /\ UNCHANGED <<app, appProcessNext, stores, timer, failed, work, consumers>>

(* A StopFunc that is not set ends the shutdown.                           *)
BugStopFunc ==
    /\ pc = "stopFunc"
    /\ \/ pc' \in {"release", "exited"} /\ failed' = failed
       \/ pc' = "exited" /\ failed' = TRUE
    /\ UNCHANGED <<app, appProcessNext, stores, closeCh, timer, work, consumers>>

(* Release without waiting for the workers.                                *)
BugRelease ==
    /\ pc = "release"
    /\ IF pool = "none" THEN pc' = "closeRedis" /\ pool' = pool
       ELSE pc' = "waitAll" /\ pool' = "stopped"
    /\ UNCHANGED <<app, appProcessNext, open, leaving, work, consumers>>

-----------------------------------------------------------------------------
(* initApplication *)

(* LoadDefaultConfig: no file is an error, a section that does not map is  *)
(* the end (log.Fatalf).                                                   *)
LoadConfig == Moves("load", {"control", "leave", "aborted"})

(* startUpControl: an accepted start goes on; a start that finds a pid     *)
(* file has set appProcessNext all the same; stop and restart do their     *)
(* work, close appCloseCh and leave, or fail.                              *)
StartUpControl ==
    /\ pc = "control"
    /\ \/ appProcessNext' = TRUE /\ pc' \in {"user", "leave"} /\ closeCh' = closeCh
       \/ appProcessNext' = FALSE /\ pc' = "leave" /\ closeCh' \in {closeCh, TRUE}
    /\ UNCHANGED <<app, stores, timer, failed, work, consumers>>

(* The user's LoadConfig and the log directory may fail; an application    *)
(* without a name ends here.                                               *)
UserConfig == Moves("user", {"gorm", "leave", "aborted"})

(* NewMySQLWithGORM, whose error the next line overwrites (app.go:176-177).*)
OpenGORM ==
    /\ pc = "gorm" /\ pc' = "xorm"
    /\ open' \in {open, open \cup (IF "mysql" \in config THEN {"gorm"} ELSE {})}
    /\ UNCHANGED <<app, appProcessNext, pool, leaving, work, consumers>>

OpenXORM == Opens("xorm", "mysql", "xorm", "mongo")
OpenMongo == Opens("mongo", "mongo", "mongo", "redis")
OpenRedis == Opens("redis", "redis", "redis", "gpool")

NewGPool ==
    /\ pc = "gpool" /\ pc' = "g2cache"
    /\ pool' = IF "gpool" \in config THEN "open" ELSE "none"
    /\ UNCHANGED <<app, appProcessNext, open, leaving, work, consumers>>

OpenG2Cache == Opens("g2cache", "g2cache", "g2cache", "loggers")
Loggers == Moves("loggers", {"event", "leave"})
OpenEvent == Opens("event", "rocketmq", "event", "uservars")
UserVars == Moves("uservars", {"kindvars", "leave"})

-----------------------------------------------------------------------------
(* The rest of runGRPC, runHTTP, runCron and runQueue up to serving *)

(* The user's function for the health server runs in a goroutine of its    *)
(* own, if there are a health server and a function.                       *)
RegisterGRPCHealthHandle ==
    \/ task' = task
    \/ kind = "grpc" /\ \E t \in Tasks :
           task[t] = "idle" /\ task' = [task EXCEPT ![t] = "health"]

(* setupGRPCVars starts it; setupQueueVars refuses an application with     *)
(* neither functions nor an event handler, and then calls                  *)
(* GetNamedTaskFuncs whether or not it is there.                           *)
SetupKindVars ==
    /\ pc = "kindvars"
    /\ pc' = IF kind # "queue" \/ "named" \in config THEN "queues"
             ELSE IF "handler" \in config THEN "panicked" ELSE "leave"
    /\ RegisterGRPCHealthHandle
    /\ UNCHANGED <<app, appProcessNext, stores, leaving, sources, consumers>>

(* setupCommonQueue.                                                       *)
OpenQueues == Opens("queues", "queues", "queues", "register")

(* Registration, as Registry models it; cron and queue have none.          *)
Register == Moves("register", IF Registers THEN {"routes", "leave"} ELSE {"producer"})

(* The user's registration functions; what is registered is unregistered.  *)
Routes == Moves("routes", {"producer", "unregister"})

(* appRegisterEventProducer and appRegisterEventHandler: a job for the     *)
(* pool or, when there is none or it has no room for a second, a           *)
(* goroutine.                                                              *)
RegisterEvent(from, to) ==
    /\ pc = from /\ pc' = to
    /\ \/ task' = task                           \* no event server, or nothing to register
       \/ "event" \in open /\ \E t \in Tasks :
             /\ task[t] = "idle"
             /\ \E how \in {"event"} \cup (IF pool = "open" THEN {"queued"} ELSE {}) :
                    task' = [task EXCEPT ![t] = how]
    /\ UNCHANGED <<app, appProcessNext, stores, leaving, sources, consumers>>

RegisterProducer == RegisterEvent("producer", "handler")
RegisterHandler == RegisterEvent("handler", IF kind = "cron" THEN "jobs" ELSE "listen")

(* Cron jobs need a name, a specification and a function.                  *)
AddCronJobs == Moves("jobs", {"listen", "leave"})

(* kp.Listen, with the pid file and, for servers, the port.                *)
Listen == Moves("listen", {"start", IF Registers THEN "unregister" ELSE "leave"})

(* Serve, Cron.Start or LaunchAsync.  The queue application reads          *)
(* QueueServerSetting here, nil or not (queue.go:96).                      *)
Start ==
    /\ pc = "start"
    /\ IF kind = "queue" /\ "queueserver" \notin config
       THEN pc' = "panicked" /\ UNCHANGED <<sources, errorsChan>>
       ELSE /\ pc' = "serving"
            /\ sources' = CASE kind = "grpc" -> {"http", "rpc"}
                            [] kind = "http" -> {"http"}
                            [] kind = "cron" -> {"cron"}
                            [] OTHER -> IF "queues" \in open THEN {"consume"} ELSE {}
            /\ errorsChan' = IF kind = "queue" THEN "open" ELSE errorsChan
    /\ UNCHANGED <<app, appProcessNext, stores, leaving, task, results, quit>>

-----------------------------------------------------------------------------
(* Leaving *)

(* kp.Exit, or Serve has returned with its listener closed.                *)
StopServing ==
    /\ pc = "serving"
    /\ pc' = IF Registers THEN "unregister" ELSE IF kind = "cron" THEN "leave" ELSE "closeErrors"
    /\ sources' \in {sources, sources \ {"http"}}
    /\ UNCHANGED <<app, appProcessNext, stores, leaving, task, consumers>>

(* queueWorkerStop stops no worker; close(errorsChan) ...                  *)
CloseErrors ==
    /\ pc = "closeErrors" /\ pc' = "drainErrors"
    /\ errorsChan' = "closed"
    /\ UNCHANGED <<app, appProcessNext, stores, leaving, work, results, quit>>

(* ... and c.Error() of each c in it, of nil too.                          *)
DrainErrors == Moves("drainErrors", {IF "nil" \in results THEN "panicked" ELSE "leave"})

(* The deferred appUnRegisterServiceToEtcd; its error is only logged.      *)
Unregister == Moves("unregister", {"leave"})

(* appPrepareForceExit.                                                    *)
PrepareForceExit ==
    /\ pc = "leave"
    /\ pc' = IF Registers THEN "httpStop" ELSE IF kind = "cron" THEN "cronStop" ELSE "shutdown"
    /\ timer' = appProcessNext
    /\ UNCHANGED <<app, appProcessNext, stores, closeCh, failed, work, consumers>>

(* HttpServer.Shutdown stops listening ...                                 *)
StopHttp ==
    /\ pc = "httpStop" /\ pc' = "httpWait"
    /\ sources' = sources \ {"http"}
    /\ UNCHANGED <<app, appProcessNext, stores, leaving, task, consumers>>

(* ... and waits for the requests of connections it still has.             *)
DrainHttp ==
    /\ Doing({"http"}) = {}
    /\ Moves("httpWait", {IF kind = "grpc" THEN "rpcStop" ELSE "shutdown"})

(* stopGRPC: GracefulStop refuses new requests, and panics on an open one. *)
StopGRPC ==
    /\ pc = "rpcStop"
    /\ pc' = IF Doing({"rpc"}) = {} THEN "shutdown" ELSE "panicked"
    /\ sources' = sources \ {"rpc"}
    /\ UNCHANGED <<app, appProcessNext, stores, leaving, task, consumers>>

(* Cron.Stop; the context it returns, done when the jobs are, is dropped.  *)
StopCron ==
    /\ pc = "cronStop" /\ pc' = "shutdown"
    /\ sources' = sources \ {"cron"}
    /\ UNCHANGED <<app, appProcessNext, stores, leaving, task, consumers>>

(* appShutdown: closing a closed channel would panic.                      *)
Shutdown ==
    /\ pc = "shutdown"
    /\ pc' = IF ~appProcessNext THEN "exited" ELSE IF closeCh THEN "panicked" ELSE "stopFunc"
    /\ closeCh' = (closeCh \/ appProcessNext)
    /\ UNCHANGED <<app, appProcessNext, stores, timer, failed, work, consumers>>

StopFunc ==
    /\ pc = "stopFunc"
    /\ \/ pc' = "release" /\ failed' = failed
       \/ pc' = "exited" /\ failed' = TRUE
    /\ UNCHANGED <<app, appProcessNext, stores, closeCh, timer, work, consumers>>

(* Release returns when no worker runs a job (ReleaseQuiesces of GPool).   *)
Release ==
    /\ pc = "release"
    /\ IF pool = "none" THEN pc' = "closeRedis" /\ pool' = pool
       ELSE Doing({"pooled"}) = {} /\ pc' = "waitAll" /\ pool' = "stopped"
    /\ UNCHANGED <<app, appProcessNext, open, leaving, work, consumers>>

(* WaitAll waits for jobs that nobody takes from the queue any more.       *)
WaitAll == Doing({"queued"}) = {} /\ Moves("waitAll", {"closeRedis"})

CloseRedis == Closes("closeRedis", "redis", "closeGorm")
CloseGORM == Closes("closeGorm", "gorm", "closeMongo")
CloseMongo == Closes("closeMongo", "mongo", "exited")

(* The 30 s of appPrepareForceExit are over.                               *)
TimerFires ==
    /\ Alive /\ timer
    /\ pc' = "aborted"
    /\ UNCHANGED <<app, appProcessNext, stores, leaving, work, consumers>>

-----------------------------------------------------------------------------
(* Application code beside the main goroutine *)

Becomes(t, from, to) ==
    /\ Alive /\ task[t] \in from
    /\ task' = [task EXCEPT ![t] = to]
    /\ UNCHANGED <<app, appProcessNext, pc, stores, leaving, sources, consumers>>

(* A client opens an h2c connection (GRPCHandlerFunc, NewHttp2Server).     *)
ConnectH2c ==
    /\ Alive /\ "http" \in sources
    /\ kind = "grpc" \/ (kind = "http" /\ "h2" \in config)
    /\ sources' = sources \cup {"h2c"}
    /\ UNCHANGED <<app, appProcessNext, pc, stores, leaving, task, consumers>>

StartHttp(t) == "http" \in sources /\ Becomes(t, {"idle"}, "http")
StartRpc(t) == {"h2c", "rpc"} \subseteq sources /\ Becomes(t, {"idle"}, "rpc")
StartH2c(t) == "h2c" \in sources /\ Becomes(t, {"idle"}, "hijacked")
StartCron(t) == "cron" \in sources /\ Becomes(t, {"idle"}, "cron")
StartMessage(t) == "consume" \in sources /\ Becomes(t, {"idle"}, "consumer")

(* A websocket leaves the HTTP server's care as well.                      *)
Hijack(t) == Becomes(t, {"http"}, "hijacked")

(* A running task submits a job; a dispatcher that has not stopped runs it.*)
SubmitJob(t, job) ==
    /\ pool # "none" /\ task[t] \in Active
    /\ Becomes(job, {"idle"}, "queued")
RunJob(t) == pool = "open" /\ Becomes(t, {"queued"}, "pooled")

(* Servers, the cron wrapper and pool workers recover a panic; ...         *)
Finish(t) == Becomes(t, Active, "idle")

(* ... the goroutine of an event or a health function does not.            *)
UserPanics(t) ==
    /\ Alive /\ task[t] \in {"event", "health"}
    /\ pc' = "panicked"
    /\ UNCHANGED <<app, appProcessNext, stores, leaving, work, consumers>>

(* The user calls Quit of the workers in QueueServerToWorker.              *)
UserQuit ==
    /\ Alive /\ errorsChan # "none"
    /\ quit' = TRUE
    /\ UNCHANGED <<app, appProcessNext, pc, stores, leaving, work, errorsChan, results>>

(* A consumer told to quit reports how it ended, nil if all was well.      *)
ConsumerEnds ==
    /\ Alive /\ quit /\ "consume" \in sources
    /\ sources' = sources \ {"consume"}
    /\ IF errorsChan = "closed" THEN pc' = "panicked" /\ results' = results
       ELSE pc' = pc /\ results' \in {results \cup {"nil"}, results \cup {"err"}}
    /\ UNCHANGED <<app, appProcessNext, stores, leaving, task, errorsChan, quit>>

-----------------------------------------------------------------------------
SetUp ==
    \/ LoadConfig \/ StartUpControl \/ UserConfig
    \/ OpenGORM \/ OpenXORM \/ OpenMongo \/ OpenRedis \/ NewGPool \/ OpenG2Cache
    \/ Loggers \/ OpenEvent \/ UserVars
    \/ SetupKindVars \/ OpenQueues \/ Register \/ Routes
    \/ RegisterProducer \/ RegisterHandler \/ AddCronJobs \/ Listen \/ Start

Leave ==
    \/ CloseErrors \/ DrainErrors \/ Unregister \/ PrepareForceExit
    \/ StopHttp \/ DrainHttp \/ StopGRPC \/ StopCron
    \/ Shutdown \/ StopFunc \/ Release \/ WaitAll
    \/ CloseRedis \/ CloseGORM \/ CloseMongo

TaskStep(t) ==
    \/ StartHttp(t) \/ StartRpc(t) \/ StartH2c(t) \/ StartCron(t) \/ StartMessage(t) \/ Hijack(t)
    \/ (\E job \in Tasks : SubmitJob(t, job)) \/ RunJob(t) \/ Finish(t) \/ UserPanics(t)

Next ==
    \/ SetUp \/ StopServing \/ Leave \/ TimerFires \/ ConnectH2c \/ UserQuit \/ ConsumerEnds
    \/ \E t \in Tasks : TaskStep(t)

(* Once leaving, the main goroutine takes every step it can (etcd requests *)
(* time out), and time passes.  Tasks need not end, users need not stop.   *)
Spec == Init /\ [][Next]_vars /\ WF_vars(Leave) /\ WF_vars(TimerFires)

-----------------------------------------------------------------------------
(* Properties *)

(* Once appShutdown has begun to close stores, no request of the HTTP or   *)
(* the gRPC server runs any more, nor does a job of the pool: requests of  *)
(* the gateway and jobs were waited for (grpc.go:47-53, http.go:43-54,     *)
(* app.go:306-309), and an RPC that was open at GracefulStop has crashed   *)
(* the shutdown before it came to the stores (grpc.go:54-59, 363).         *)
(* Requests on h2c connections, websockets, cron jobs and messages are     *)
(* left running.                                                           *)
DrainedBeforeClose ==
    pc \in {"closeRedis", "closeGorm", "closeMongo", "exited"} /\ appProcessNext /\ ~failed =>
        Doing({"http", "rpc", "pooled"}) = {}

(* Stores are closed last, when nothing is accepted, everybody has been    *)
(* told and the pool is stopped; and gRPC is refused only when no gateway  *)
(* request that could need it is running (grpc.go:47-59).                  *)
ClosesInOrder ==
    [][/\ open' # open /\ open' \subseteq open =>
             /\ closeCh /\ pool # "open"
             /\ sources \cap {"http", "rpc", "cron"} = {}
       /\ "rpc" \in sources \ sources' => Doing({"http"}) = {} /\ "http" \notin sources]_vars

(* A process that was started and ends by itself has closed Redis, GORM    *)
(* and MongoDB, unless StopFunc or one of the closes failed and skipped    *)
(* the rest (app.go:300-327).                                              *)
ClosedUnlessError ==
    pc = "exited" /\ appProcessNext /\ ~failed => open \cap {"redis", "gorm", "mongo"} = {}

(* Once AppCloseCh tells everybody to stop, no request, RPC or cron job    *)
(* starts, in whichever of its phases the process was told to stop.  Plain *)
(* requests on h2c connections do, and queue messages.                     *)
NoNewWorkAfterClose ==
    [][closeCh => \A t \in Tasks :
           task[t] = "idle" => task'[t] \notin {"http", "rpc", "cron"}]_vars

(* The process crashes for four reasons only: an RPC was open when main    *)
(* came to GracefulStop (grpc.go:363); consumers were told to quit, which  *)
(* then report nil or report to a closed channel (queue.go:137-143); an    *)
(* event or a health function panicked in a goroutine nobody guards        *)
(* (app.go:394-397, 432-435, grpc.go:326); a queue application lacks its   *)
(* functions or its section (queue.go:174, 96).  In particular appCloseCh, *)
(* which two places close (app.go:63, 298), is never closed twice.         *)
PanicsExplained ==
    pc = "panicked" =>
        \/ quit
        \/ Doing({"rpc"}) # {}
        \/ Doing({"event", "health"}) # {}
        \/ kind = "queue" /\ ~({"named", "queueserver"} \subseteq config)

(* A serving application has every store its configuration names, with the *)
(* exception of GORM, whose error is lost (app.go:176-177).                *)
ServesWithStores ==
    pc = "serving" =>
        /\ config \cap {"mongo", "redis", "g2cache", "queues"} \subseteq open
        /\ "mysql" \in config => "xorm" \in open
        /\ "rocketmq" \in config => "event" \in open
        /\ ("gpool" \in config) = (pool = "open")

(* Whatever requests hang, jobs are left on the queue or stores do not     *)
(* close, a process that has begun to leave ends (app.go:332-343).         *)
ShutdownEnds == pc \in Leaving ~> ~Alive

(* The process keeps the promise of ServiceLife to the requests of its     *)
(* servers and the jobs of its pool: the stores they found open stay open  *)
(* until none of them is left, whatever kind of application it is, however *)
(* it came to leave and whichever steps of the shutdown fail.              *)
Phase ==
    IF pc \in SettingUp THEN "starting"
    ELSE IF pc = "serving" THEN "serving"
    ELSE IF pc \in {"stopFunc", "release", "waitAll"} THEN "told"
    ELSE IF pc \in {"closeRedis", "closeGorm", "closeMongo"} THEN "closing"
    ELSE IF pc \in Ended THEN "ended"
    ELSE "draining"

Life == INSTANCE ServiceLife WITH
    Guests <- Tasks,
    phase <- Phase,
    held <- open,
    requests <- Doing({"http", "rpc"}),
    jobs <- Doing({"pooled"})

ImplementsServiceLife == Life!Spec
==============================================================================
