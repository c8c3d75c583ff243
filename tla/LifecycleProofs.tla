--------------------------- MODULE LifecycleProofs ---------------------------
(***************************************************************************)
(* Proofs about Lifecycle, for any kinds of application, any               *)
(* configurations and any number of tasks.                                 *)
(***************************************************************************)
EXTENDS Lifecycle, TLAPS

Closing == {"closeRedis", "closeGorm", "closeMongo"}
Down == {"stopFunc", "release", "waitAll"} \cup Closing      \* in appShutdown
BeforePool == {"load", "control", "user", "gorm", "xorm", "mongo", "redis", "gpool"}
Stopped == {"aborted", "panicked"}
Drain == {"leave", "httpStop", "httpWait", "rpcStop", "cronStop", "shutdown"}

(* How far the drain has come, by what can still start tasks ...           *)
SourcesFit ==
    /\ "http" \in sources =>
          Registers /\ pc \in {"serving", "unregister", "leave", "httpStop"} \cup Stopped
    /\ "rpc" \in sources =>
          /\ kind = "grpc"
          /\ pc \in {"serving", "unregister", "leave", "httpStop", "httpWait", "rpcStop"}
                    \cup Stopped
    /\ "cron" \in sources => kind = "cron" /\ pc \in {"serving", "leave", "cronStop"} \cup Stopped

(* ... and by the tasks that still run.                                    *)
TasksFit ==
    \A t \in Tasks :
        /\ task[t] = "http" =>
              Registers /\ pc \in {"serving", "unregister", "leave", "httpStop", "httpWait"}
                                  \cup Stopped
        /\ task[t] = "rpc" =>
              /\ kind = "grpc"
              /\ pc \in {"serving", "unregister", "leave", "httpStop", "httpWait", "rpcStop"}
                    \cup Stopped
        /\ task[t] = "pooled" => pool = "open"

(* The pool is made after the first stores, and is stopped between Release *)
(* and the exit, unless an error led there.                                *)
PoolFits ==
    /\ pc \in BeforePool => pool = "none"
    /\ pool = "open" =>
          /\ pc \notin {"waitAll"} \cup Closing
          /\ pc = "exited" /\ appProcessNext => failed

(* appCloseCh is closed before the drain only where nothing was started.   *)
CloseChFits ==
    /\ pc \in Down => closeCh /\ appProcessNext
    /\ closeCh => /\ pc \in Drain => ~appProcessNext
                  /\ pc \in Drain \cup Down \cup Ended
                  /\ sources \cap {"http", "rpc", "cron"} = {}

(* What appShutdown has closed so far.                                     *)
ClosedSoFar ==
    /\ pc \in {"closeGorm", "closeMongo"} => "redis" \notin open
    /\ pc = "closeMongo" => "gorm" \notin open

(* Only consumers that were told to quit report.                           *)
ResultsExplained == results # {} => quit

IInv ==
    /\ TypeOK
    /\ SourcesFit /\ TasksFit /\ PoolFits
    /\ CloseChFits
    /\ DrainedBeforeClose
    /\ ClosedSoFar /\ ClosedUnlessError
    /\ ResultsExplained /\ PanicsExplained

(* Nothing is started and nothing is open at first.                        *)
LEMMA InitHolds == Init => IInv
BY DEF Init, IInv, TypeOK, SettingUp, SourcesFit, TasksFit, PoolFits, CloseChFits, Closing, Down,
   Drain, Stopped, BeforePool, Ended, DrainedBeforeClose, Doing, ClosedSoFar, ClosedUnlessError,
   ResultsExplained, PanicsExplained

-----------------------------------------------------------------------------
(* Setting up.  What every step but Start leaves alone.                    *)
LEMMA SetUpFrame ==
    ASSUME SetUp, ~Start
    PROVE  /\ pc \in SettingUp /\ pc' \in SettingUp \cup {"unregister", "leave"} \cup Stopped
           /\ UNCHANGED <<app, timer, failed, sources, consumers>>
           /\ \/ appProcessNext' = appProcessNext /\ closeCh' = closeCh
              \/ pc = "control" /\ closeCh' = closeCh
              \/ pc = "control" /\ pc' = "leave" /\ ~appProcessNext' /\ closeCh' \in {closeCh, TRUE}
           /\ appProcessNext' \in BOOLEAN \/ appProcessNext' = appProcessNext
           /\ pc' = "panicked" => kind = "queue" /\ "named" \notin config
BY DEF SetUp, SettingUp, Stopped, Moves, Opens, RegisterEvent, Registers, app, stores, leaving,
       work, consumers, LoadConfig, StartUpControl, UserConfig, OpenGORM, OpenXORM, OpenMongo,
       OpenRedis, NewGPool, OpenG2Cache, Loggers, OpenEvent, UserVars, SetupKindVars,
       RegisterGRPCHealthHandle, OpenQueues, Register, Routes, RegisterProducer,
       RegisterHandler, AddCronJobs, Listen

(* The stores it opens, the pool it makes, the event functions it starts.  *)
LEMMA SetUpOpens ==
    ASSUME TypeOK, SetUp, ~Start
    PROVE  /\ open' \subseteq Stores
           /\ pool' = pool \/ (pc = "gpool" /\ pool' \in {"open", "none"})
           /\ pc' \in BeforePool => pc \in BeforePool /\ pool' = pool
           /\ task' \in [Tasks -> Active \cup {"idle", "queued"}]
           /\ \A t \in Tasks : task'[t] \in {task[t], "event", "health", "queued"}
<1> USE DEF SetUp, Start, Moves, Opens, RegisterEvent, stores, work, LoadConfig, StartUpControl,
       UserConfig, OpenGORM, OpenXORM, OpenMongo, OpenRedis, NewGPool, OpenG2Cache, Loggers,
       OpenEvent, UserVars, SetupKindVars, RegisterGRPCHealthHandle, OpenQueues, Register,
       Routes, RegisterProducer, RegisterHandler, AddCronJobs, Listen
<1>1. open' \subseteq Stores
    BY DEF TypeOK, Stores
<1>2. pool' = pool \/ (pc = "gpool" /\ pool' \in {"open", "none"})
    OBVIOUS
<1>3. pc' \in BeforePool => pc \in BeforePool /\ pool' = pool
    BY DEF BeforePool, Registers
<1>4. /\ task' \in [Tasks -> Active \cup {"idle", "queued"}]
      /\ \A t \in Tasks : task'[t] \in {task[t], "event", "health", "queued"}
    BY DEF TypeOK, Active
<1> QED  BY <1>1, <1>2, <1>3, <1>4

LEMMA SetUpKeeps == ASSUME IInv, SetUp, ~Start PROVE IInv'
<1> USE SetUpFrame DEF IInv, SettingUp, Stopped, app, consumers, BeforePool
<1>1. TypeOK'
    <2>1. pc' \in SettingUp \cup Leaving \cup Ended
        BY DEF Leaving, Ended
    <2>2. kind' = kind /\ config' = config /\ timer' = timer /\ failed' = failed
          /\ sources' = sources /\ errorsChan' = errorsChan /\ results' = results
          /\ quit' = quit
        OBVIOUS
    <2>3. appProcessNext' \in BOOLEAN /\ closeCh' \in BOOLEAN
        BY DEF TypeOK
    <2> QED  BY <2>1, <2>2, <2>3, SetUpOpens DEF TypeOK
<1>2. SourcesFit' /\ TasksFit'
    BY SetUpOpens DEF SourcesFit, TasksFit, PoolFits, Registers
<1>3. PoolFits'
    BY SetUpOpens DEF PoolFits, Closing
<1>4. CloseChFits'
    <2>1. sources' \cap {"http", "rpc", "cron"} = {}
        BY DEF SourcesFit
    <2>2. ~closeCh
        BY DEF CloseChFits, Down, Closing, Drain, Ended
    <2>3. pc' \notin Down
        BY DEF Down, Closing
    <2>4. closeCh' => pc' = "leave" /\ ~appProcessNext'
        BY <2>2
    <2> QED  BY <2>1, <2>3, <2>4 DEF CloseChFits, Drain
<1>5. DrainedBeforeClose' /\ ClosedSoFar' /\ ClosedUnlessError'
    BY DEF DrainedBeforeClose, ClosedSoFar, ClosedUnlessError
<1>6. ResultsExplained' /\ PanicsExplained'
    BY DEF ResultsExplained, PanicsExplained
<1> QED  BY <1>1, <1>2, <1>3, <1>4, <1>5, <1>6

LEMMA StartKeeps == ASSUME IInv, Start PROVE IInv'
<1> USE DEF IInv, Start, Stopped, app, stores, leaving
<1>1. TypeOK'
    BY DEF TypeOK, Ended, Sources
<1>2. SourcesFit' /\ TasksFit'
    BY DEF SourcesFit, TasksFit, Registers
<1>3. PoolFits' /\ CloseChFits'
    BY DEF PoolFits, CloseChFits, Closing, Down, Drain, Ended, BeforePool
<1>4. DrainedBeforeClose' /\ ClosedSoFar' /\ ClosedUnlessError'
    BY DEF DrainedBeforeClose, ClosedSoFar, ClosedUnlessError
<1>5. ResultsExplained' /\ PanicsExplained'
    BY DEF ResultsExplained, PanicsExplained
<1> QED  BY <1>1, <1>2, <1>3, <1>4, <1>5

-----------------------------------------------------------------------------
(* Leaving.  What its steps leave alone.                                   *)
LEMMA LeaveFrame ==
    ASSUME Leave
    PROVE  UNCHANGED <<app, appProcessNext, task, results, quit>> /\ sources' \subseteq sources
BY DEF Leave, Moves, Closes, app, stores, leaving, work, consumers, CloseErrors, DrainErrors,
       Unregister, PrepareForceExit, StopHttp, DrainHttp, StopGRPC, StopCron,
       Shutdown, StopFunc, Release, WaitAll, CloseRedis, CloseGORM, CloseMongo

LEMMA LeaveKeeps == ASSUME IInv, Leave PROVE IInv'
<1> DEFINE Idle == CloseErrors \/ DrainErrors \/ Unregister \/ PrepareForceExit
           Drains == StopHttp \/ DrainHttp \/ StopGRPC \/ StopCron
           Ends == Shutdown \/ StopFunc \/ Release \/ WaitAll
           Close == CloseRedis \/ CloseGORM \/ CloseMongo
<1> USE DEF Moves, Closes, stores, leaving, consumers
<1>1. TypeOK'
    <2>1. pc' \in Leaving \cup Ended
        BY DEF Leave, Leaving, Ended, Registers, CloseErrors, DrainErrors, Unregister,
               PrepareForceExit, StopHttp, DrainHttp, StopGRPC, StopCron, Shutdown,
               StopFunc, Release, WaitAll, CloseRedis, CloseGORM, CloseMongo
    <2>2. /\ closeCh' = closeCh \/ closeCh' = (closeCh \/ appProcessNext)
          /\ timer' = timer \/ timer' = appProcessNext
          /\ failed' = failed \/ failed' = TRUE
        BY DEF Leave, CloseErrors, DrainErrors, Unregister, PrepareForceExit, StopHttp, DrainHttp,
               StopGRPC, StopCron, Shutdown, StopFunc, Release, WaitAll, CloseRedis,
               CloseGORM, CloseMongo
    <2>3. closeCh' \in BOOLEAN /\ timer' \in BOOLEAN /\ failed' \in BOOLEAN
        BY Zenon, <2>2 DEF IInv, TypeOK
    <2>4. /\ open' \subseteq open
          /\ pool' = pool \/ pool' = "stopped"
          /\ errorsChan' = errorsChan \/ errorsChan' = "closed"
        BY DEF Leave, CloseErrors, DrainErrors, Unregister, PrepareForceExit, StopHttp, DrainHttp,
               StopGRPC, StopCron, Shutdown, StopFunc, Release, WaitAll, CloseRedis,
               CloseGORM, CloseMongo
    <2> QED  BY <2>1, <2>3, <2>4, LeaveFrame DEF IInv, TypeOK, app
<1>2. SourcesFit' /\ TasksFit'
    <2> USE LeaveFrame DEF IInv, SourcesFit, TasksFit, Registers, Stopped, app, Doing
    <2>1. CASE Idle
        BY <2>1 DEF CloseErrors, DrainErrors, Unregister, PrepareForceExit
    <2>2. CASE Drains
        BY <2>2 DEF StopHttp, DrainHttp, StopGRPC, StopCron
    <2>3. CASE Ends
        BY <2>3 DEF Shutdown, StopFunc, Release, WaitAll
    <2>4. CASE Close
        BY <2>4 DEF CloseRedis, CloseGORM, CloseMongo
    <2> QED  BY <2>1, <2>2, <2>3, <2>4 DEF Leave
<1>3. PoolFits' /\ CloseChFits'
    <2> USE LeaveFrame DEF IInv, PoolFits, CloseChFits, Closing, Down, Drain, Ended, BeforePool,
            TypeOK, app
    <2>1. CASE Idle
        BY <2>1 DEF CloseErrors, DrainErrors, Unregister, PrepareForceExit
    <2>2. CASE Drains
        BY <2>2 DEF StopHttp, DrainHttp, StopGRPC, StopCron
    <2>3. CASE Ends
        BY <2>3 DEF Shutdown, StopFunc, Release, WaitAll, SourcesFit, Stopped
    <2>4. CASE Close
        BY <2>4 DEF CloseRedis, CloseGORM, CloseMongo
    <2> QED  BY <2>1, <2>2, <2>3, <2>4 DEF Leave
<1>4. ClosedSoFar' /\ ClosedUnlessError'
    <2> USE LeaveFrame DEF IInv, ClosedSoFar, ClosedUnlessError, app
    <2>1. CASE Idle
        BY <2>1 DEF CloseErrors, DrainErrors, Unregister, PrepareForceExit
    <2>2. CASE Drains
        BY <2>2 DEF StopHttp, DrainHttp, StopGRPC, StopCron
    <2>3. CASE Ends
        BY <2>3 DEF Shutdown, StopFunc, Release, WaitAll, CloseChFits, Down
    <2>4. CASE Close
        BY <2>4 DEF CloseRedis, CloseGORM, CloseMongo
    <2> QED  BY <2>1, <2>2, <2>3, <2>4 DEF Leave
<1>5. DrainedBeforeClose'
    BY <1>2, <1>3 DEF DrainedBeforeClose, TasksFit, PoolFits, Closing, Stopped, Doing
<1>6. ResultsExplained' /\ PanicsExplained'
    <2> USE LeaveFrame DEF IInv, ResultsExplained, PanicsExplained, Doing, app
    <2>1. CASE Idle
        BY <2>1 DEF CloseErrors, DrainErrors, Unregister, PrepareForceExit
    <2>2. CASE Drains
        BY <2>2 DEF StopHttp, DrainHttp, StopGRPC, StopCron
    <2>3. CASE Ends
        BY <2>3 DEF Shutdown, StopFunc, Release, WaitAll, CloseChFits, Drain
    <2>4. CASE Close
        BY <2>4 DEF CloseRedis, CloseGORM, CloseMongo
    <2> QED  BY <2>1, <2>2, <2>3, <2>4 DEF Leave
<1> QED  BY <1>1, <1>2, <1>3, <1>4, <1>5, <1>6 DEF IInv

-----------------------------------------------------------------------------
(* Beside the main goroutine.  A step of a task changes one task, to what  *)
(* its guard allows, or is the panic of a user's function.                 *)
LEMMA TaskFrame ==
    ASSUME TypeOK, NEW t \in Tasks, TaskStep(t), ~UserPanics(t)
    PROVE  /\ Alive
           /\ UNCHANGED <<app, appProcessNext, pc, stores, leaving, sources, consumers>>
           /\ \E u \in Tasks, to \in Active \cup {"idle", "queued"} :
                 /\ task' = [task EXCEPT ![u] = to]
                 /\ task[u] \in {"event", "health"} => to = "idle"
                 /\ to = "http" => "http" \in sources
                 /\ to = "rpc" => "rpc" \in sources
                 /\ to = "cron" => "cron" \in sources
                 /\ to = "pooled" => pool = "open"
                 /\ to \notin {"event", "health"}
BY DEF TaskStep, Becomes, StartHttp, StartRpc, StartH2c, StartCron, StartMessage, Hijack,
       SubmitJob, RunJob, Finish, Active, Alive, TypeOK

LEMMA TaskKeeps == ASSUME IInv, NEW t \in Tasks, TaskStep(t) PROVE IInv'
<1>1. CASE UserPanics(t)
    <2>1. TypeOK'
        BY <1>1 DEF IInv, UserPanics, Alive, TypeOK, Ended, app, stores, leaving, work, consumers
    <2>2. SourcesFit' /\ TasksFit'
        BY <1>1 DEF IInv, UserPanics, Alive, SourcesFit, TasksFit, Registers, Stopped, app, stores,
                    work
    <2>3. PoolFits' /\ CloseChFits'
        BY <1>1 DEF IInv, UserPanics, Alive, PoolFits, CloseChFits, BeforePool, Closing, Down,
                    Drain, Ended, app, stores, leaving, work
    <2>4. DrainedBeforeClose' /\ ClosedSoFar' /\ ClosedUnlessError'
        BY <1>1 DEF IInv, UserPanics, DrainedBeforeClose, ClosedSoFar, ClosedUnlessError
    <2>5. ResultsExplained' /\ PanicsExplained'
        BY <1>1 DEF IInv, UserPanics, ResultsExplained, PanicsExplained, Doing, consumers, work
    <2> QED  BY <2>1, <2>2, <2>3, <2>4, <2>5 DEF IInv
<1>2. CASE ~UserPanics(t)
    <2>1. TypeOK
        BY DEF IInv
    <2>2. PICK u \in Tasks, to \in Active \cup {"idle", "queued"} :
             /\ task' = [task EXCEPT ![u] = to]
             /\ to = "http" => "http" \in sources
             /\ to = "rpc" => "rpc" \in sources
             /\ to = "pooled" => pool = "open"
        BY <1>2, <2>1, TaskFrame
    <2>3. /\ Alive
          /\ UNCHANGED <<app, appProcessNext, pc, stores, leaving, sources, consumers>>
        BY <1>2, <2>1, TaskFrame
    <2>4. TypeOK'
        BY <2>1, <2>2, <2>3 DEF TypeOK, app, stores, leaving, consumers
    <2>5. SourcesFit' /\ PoolFits' /\ CloseChFits' /\ ClosedSoFar' /\ ClosedUnlessError'
        BY <2>3 DEF IInv, SourcesFit, PoolFits, CloseChFits, ClosedSoFar, ClosedUnlessError,
                    Registers, app, stores, leaving
    <2>6. TasksFit'
        BY <2>1, <2>2, <2>3 DEF IInv, TypeOK, TasksFit, SourcesFit, Registers, app, stores
    <2>7. DrainedBeforeClose'
        BY <2>5, <2>6 DEF DrainedBeforeClose, TasksFit, PoolFits, Closing, Stopped, Doing
    <2>8. ResultsExplained' /\ PanicsExplained'
        BY <2>3 DEF IInv, ResultsExplained, PanicsExplained, Alive, Ended, consumers
    <2> QED  BY <2>4, <2>5, <2>6, <2>7, <2>8 DEF IInv
<1> QED  BY <1>1, <1>2

LEMMA OthersKeep ==
    ASSUME IInv, StopServing \/ TimerFires \/ ConnectH2c \/ UserQuit \/ ConsumerEnds
    PROVE  IInv'
<1> USE DEF IInv, app, stores, leaving, work, consumers, Alive, Ended
<1>1. CASE StopServing
    BY <1>1 DEF StopServing, TypeOK, Leaving, SourcesFit, TasksFit, Registers, Stopped, PoolFits,
                CloseChFits, BeforePool, Closing, Down, Drain, DrainedBeforeClose, ClosedSoFar,
                ClosedUnlessError, ResultsExplained, PanicsExplained
<1>2. CASE TimerFires
    BY <1>2 DEF TimerFires, TypeOK, SourcesFit, TasksFit, Registers, Stopped, PoolFits,
                CloseChFits, BeforePool, Closing, Down, Drain, DrainedBeforeClose, ClosedSoFar,
                ClosedUnlessError, ResultsExplained, PanicsExplained
<1>3. CASE ConnectH2c
    BY <1>3 DEF ConnectH2c, TypeOK, Sources, SourcesFit, TasksFit, Registers, PoolFits,
                CloseChFits, DrainedBeforeClose, Doing, ClosedSoFar, ClosedUnlessError,
                ResultsExplained, PanicsExplained
<1>4. CASE UserQuit
    BY <1>4 DEF UserQuit, TypeOK, SourcesFit, TasksFit, Registers, PoolFits, CloseChFits,
                DrainedBeforeClose, Doing, ClosedSoFar, ClosedUnlessError, ResultsExplained,
                PanicsExplained
<1>5. CASE ConsumerEnds
    <2>1. TypeOK'
        BY <1>5 DEF ConsumerEnds, TypeOK
    <2>2. SourcesFit' /\ TasksFit'
        BY <1>5 DEF ConsumerEnds, SourcesFit, TasksFit, Registers, Stopped
    <2>3. PoolFits' /\ CloseChFits'
        BY <1>5 DEF ConsumerEnds, PoolFits, CloseChFits, BeforePool, Closing, Down, Drain
    <2>4. DrainedBeforeClose' /\ ClosedSoFar' /\ ClosedUnlessError'
        BY <1>5 DEF ConsumerEnds, DrainedBeforeClose, Doing, ClosedSoFar, ClosedUnlessError
    <2>5. ResultsExplained' /\ PanicsExplained'
        BY <1>5 DEF ConsumerEnds, ResultsExplained, PanicsExplained
    <2> QED  BY <2>1, <2>2, <2>3, <2>4, <2>5
<1> QED  BY <1>1, <1>2, <1>3, <1>4, <1>5

(* IInv is an invariant.                                                   *)
LEMMA Invariance == Spec => []IInv
<1>1. IInv /\ [Next]_vars => IInv'
    <2> SUFFICES ASSUME IInv, [Next]_vars PROVE IInv'
        OBVIOUS
    <2>1. CASE UNCHANGED vars
        BY <2>1 DEF vars, app, stores, leaving, work, consumers, IInv, TypeOK, SourcesFit,
                    TasksFit, Registers, PoolFits, CloseChFits, DrainedBeforeClose, Doing,
                    ClosedSoFar, ClosedUnlessError, ResultsExplained, PanicsExplained
    <2> QED  BY <2>1, SetUpKeeps, StartKeeps, LeaveKeeps, TaskKeeps, OthersKeep DEF Next
<1> QED  BY <1>1, InitHolds, PTL DEF Spec

-----------------------------------------------------------------------------
(* Results *)

(* Every process is in one of the states the module names.                 *)
THEOREM TypeCorrect == Spec => []TypeOK
<1>1. IInv => TypeOK
    BY DEF IInv
<1> QED  BY <1>1, Invariance, PTL

(* No request of a server and no job of the pool is still running when the *)
(* stores it may use are closed.                                           *)
THEOREM Drained == Spec => []DrainedBeforeClose
<1>1. IInv => DrainedBeforeClose
    BY DEF IInv
<1> QED  BY <1>1, Invariance, PTL

(* An orderly exit leaves Redis, GORM and MongoDB closed.                  *)
THEOREM StoresClosed == Spec => []ClosedUnlessError
<1>1. IInv => ClosedUnlessError
    BY DEF IInv
<1> QED  BY <1>1, Invariance, PTL

(* What makes the process panic: an RPC that is open when main comes to    *)
(* GracefulStop, and otherwise the user's part.  appCloseCh is closed once. *)
THEOREM CrashesExplained == Spec => []PanicsExplained
<1>1. IInv => PanicsExplained
    BY DEF IInv
<1> QED  BY <1>1, Invariance, PTL

(* Stores are closed by appShutdown alone, ...                             *)
LEMMA OnlyShutdownCloses ==
    ASSUME TypeOK, Next, ~(open \subseteq open')
    PROVE  CloseRedis \/ CloseGORM \/ CloseMongo
<1>1. ASSUME SetUp PROVE open \subseteq open'
    BY <1>1 DEF SetUp, Moves, Opens, RegisterEvent, stores, Start, LoadConfig, StartUpControl,
       UserConfig, OpenGORM, OpenXORM, OpenMongo, OpenRedis, NewGPool, OpenG2Cache, Loggers,
       OpenEvent, UserVars, SetupKindVars, RegisterGRPCHealthHandle, OpenQueues, Register,
       Routes, RegisterProducer, RegisterHandler, AddCronJobs, Listen
<1>2. ASSUME Leave PROVE open' = open \/ CloseRedis \/ CloseGORM \/ CloseMongo
    BY <1>2 DEF Leave, Moves, stores, CloseErrors, DrainErrors, Unregister, PrepareForceExit,
                StopHttp, DrainHttp, StopGRPC, StopCron, Shutdown, StopFunc, Release,
                WaitAll
<1>3. ASSUME NEW t \in Tasks, TaskStep(t) PROVE open' = open
    BY <1>3, TaskFrame DEF UserPanics, stores
<1>4. StopServing \/ TimerFires \/ ConnectH2c \/ UserQuit \/ ConsumerEnds => open' = open
    BY DEF StopServing, TimerFires, ConnectH2c, UserQuit, ConsumerEnds, stores
<1> QED  BY <1>1, <1>2, <1>3, <1>4 DEF Next

(* ... and the gRPC server is stopped by stopGRPC alone.                   *)
LEMMA OnlyStopGRPCStops ==
    ASSUME IInv, Next, "rpc" \in sources \ sources'
    PROVE  StopGRPC
<1>1. ~SetUp
    <2>1. ASSUME SetUp, ~Start PROVE sources' = sources
        BY <2>1, SetUpFrame
    <2>2. ~Start
        BY DEF IInv, Start, SourcesFit, Stopped
    <2> QED  BY <2>1, <2>2
<1>2. Leave => StopGRPC
    BY DEF Leave, Moves, Closes, work, CloseErrors, DrainErrors, Unregister, PrepareForceExit,
           StopHttp, DrainHttp, StopCron, Shutdown, StopFunc, Release, WaitAll,
           CloseRedis, CloseGORM, CloseMongo
<1>3. ASSUME NEW t \in Tasks, TaskStep(t) PROVE sources' = sources
    BY <1>3, TaskFrame DEF IInv, UserPanics, work
<1>4. StopServing \/ TimerFires \/ ConnectH2c \/ UserQuit \/ ConsumerEnds =>
          "rpc" \notin sources \ sources'
    BY DEF StopServing, TimerFires, ConnectH2c, UserQuit, ConsumerEnds, work
<1> QED  BY <1>1, <1>2, <1>3, <1>4 DEF Next

(* Servers, scheduler and pool are stopped before the first store is       *)
(* closed, and the gateway is drained before gRPC refuses.                 *)
THEOREM OrderedClosing == Spec => ClosesInOrder
<1>1. ASSUME IInv, Next, open' # open, open' \subseteq open
      PROVE  closeCh /\ pool # "open" /\ sources \cap {"http", "rpc", "cron"} = {}
    <2>1. CloseRedis \/ CloseGORM \/ CloseMongo
        BY <1>1, OnlyShutdownCloses DEF IInv
    <2>2. pc \in Closing
        BY <2>1 DEF CloseRedis, CloseGORM, CloseMongo, Closes, Closing
    <2> QED  BY <1>1, <2>2 DEF IInv, PoolFits, CloseChFits, Down
<1>2. ASSUME IInv, Next, "rpc" \in sources \ sources'
      PROVE  Doing({"http"}) = {} /\ "http" \notin sources
    <2>1. pc = "rpcStop"
        BY <1>2, OnlyStopGRPCStops DEF StopGRPC
    <2> QED  BY <1>2, <2>1 DEF IInv, TasksFit, SourcesFit, Stopped, Doing
<1>3. IInv /\ [Next]_vars =>
          [/\ open' # open /\ open' \subseteq open =>
                 /\ closeCh /\ pool # "open"
                 /\ sources \cap {"http", "rpc", "cron"} = {}
           /\ "rpc" \in sources \ sources' => Doing({"http"}) = {} /\ "http" \notin sources]_vars
    BY <1>1, <1>2
<1> QED  BY <1>3, Invariance, PTL DEF Spec, ClosesInOrder

(* No phase of the process starts a request or a cron job once AppCloseCh  *)
(* is closed.                                                              *)
THEOREM NothingNewAfterClose == Spec => NoNewWorkAfterClose
<1>1. ASSUME IInv, Next, closeCh, NEW t \in Tasks, task[t] = "idle"
      PROVE  task'[t] \notin {"http", "rpc", "cron"}
    <2>1. TypeOK
        BY <1>1 DEF IInv
    <2>2. CASE SetUp
        BY <1>1, <2>1, <2>2, SetUpOpens DEF Start, work
    <2>3. CASE Leave
        BY <1>1, <2>3, LeaveFrame
    <2>4. CASE \E u \in Tasks : TaskStep(u)
        <3>1. PICK u \in Tasks : TaskStep(u)
            BY <2>4
        <3>2. CASE UserPanics(u)
            BY <1>1, <3>2 DEF UserPanics, work
        <3>3. CASE ~UserPanics(u)
            <4>1. PICK v \in Tasks, to \in Active \cup {"idle", "queued"} :
                     /\ task' = [task EXCEPT ![v] = to]
                     /\ to = "http" => "http" \in sources
                     /\ to = "rpc" => "rpc" \in sources
                     /\ to = "cron" => "cron" \in sources
                BY <2>1, <3>1, <3>3, TaskFrame
            <4> QED  BY <1>1, <2>1, <4>1 DEF IInv, CloseChFits, TypeOK
        <3> QED  BY <3>2, <3>3
    <2>5. CASE StopServing \/ TimerFires \/ ConnectH2c \/ UserQuit \/ ConsumerEnds
        BY <1>1, <2>5 DEF StopServing, TimerFires, ConnectH2c, UserQuit, ConsumerEnds, work
    <2> QED  BY <1>1, <2>2, <2>3, <2>4, <2>5 DEF Next
<1>2. IInv /\ [Next]_vars =>
          [closeCh => \A t \in Tasks :
              task[t] = "idle" => task'[t] \notin {"http", "rpc", "cron"}]_vars
    BY <1>1
<1> QED  BY <1>2, Invariance, PTL DEF Spec, NoNewWorkAfterClose

-----------------------------------------------------------------------------
(* The stores a configuration names are opened one after the other.        *)
PastQueues == {"register", "routes", "producer", "handler", "jobs", "listen", "start", "serving"}
PastEvent == {"uservars", "kindvars", "queues"} \cup PastQueues
PastG2Cache == {"loggers", "event"} \cup PastEvent
PastGPool == {"g2cache"} \cup PastG2Cache
PastRedis == {"gpool"} \cup PastGPool
PastMongo == {"redis"} \cup PastRedis
PastXorm == {"mongo"} \cup PastMongo

OpenedSoFar ==
    /\ pc \in PastXorm /\ "mysql" \in config => "xorm" \in open
    /\ pc \in PastMongo /\ "mongo" \in config => "mongo" \in open
    /\ pc \in PastRedis /\ "redis" \in config => "redis" \in open
    /\ pc \in PastGPool => ("gpool" \in config) = (pool = "open")
    /\ pc \in PastG2Cache /\ "g2cache" \in config => "g2cache" \in open
    /\ pc \in PastEvent /\ "rocketmq" \in config => "event" \in open
    /\ pc \in PastQueues /\ "queues" \in config => "queues" \in open

LEMMA OpenedStep == ASSUME IInv, OpenedSoFar, Next PROVE OpenedSoFar'
<1> USE DEF OpenedSoFar, PastXorm, PastMongo, PastRedis, PastGPool, PastG2Cache, PastEvent,
        PastQueues, app, stores
<1>1. CASE LoadConfig \/ StartUpControl \/ UserConfig \/ OpenGORM \/ Loggers \/ UserVars
    BY <1>1 DEF Moves, LoadConfig, StartUpControl, UserConfig, OpenGORM, Loggers, UserVars
<1>2. CASE OpenXORM \/ OpenMongo \/ OpenRedis
    BY <1>2 DEF Opens, OpenXORM, OpenMongo, OpenRedis
<1>3. CASE NewGPool \/ OpenG2Cache
    BY <1>3 DEF Opens, NewGPool, OpenG2Cache
<1>4. CASE OpenEvent \/ OpenQueues
    BY <1>4 DEF Opens, OpenEvent, OpenQueues
<1>5. CASE SetupKindVars \/ Register \/ Routes
    BY <1>5 DEF Moves, SetupKindVars, RegisterGRPCHealthHandle, Register, Registers, Routes
<1>6. CASE RegisterProducer \/ RegisterHandler \/ AddCronJobs \/ Listen
    BY <1>6 DEF Moves, RegisterEvent, RegisterProducer, RegisterHandler, AddCronJobs, Listen
<1>7. CASE Start
    BY <1>7 DEF Start
<1>8. CASE Leave
    BY <1>8 DEF Leave, Moves, Closes, CloseErrors, DrainErrors, Unregister, PrepareForceExit,
                StopHttp, DrainHttp, StopGRPC, StopCron, Shutdown, StopFunc, Release,
                WaitAll, CloseRedis, CloseGORM, CloseMongo
<1>9. ASSUME NEW t \in Tasks, TaskStep(t) PROVE OpenedSoFar'
    BY <1>9, TaskFrame DEF IInv, UserPanics
<1>10. CASE StopServing \/ TimerFires \/ ConnectH2c \/ UserQuit \/ ConsumerEnds
    BY <1>10 DEF StopServing, TimerFires, ConnectH2c, UserQuit, ConsumerEnds
<1> QED  BY <1>1, <1>2, <1>3, <1>4, <1>5, <1>6, <1>7, <1>8, <1>9, <1>10 DEF Next, SetUp

(* An application that serves has the stores of its configuration, but for *)
(* GORM, whose error is lost.                                              *)
THEOREM ConfiguredStoresServe == Spec => []ServesWithStores
<1>1. Init => OpenedSoFar
    BY DEF Init, OpenedSoFar, PastXorm, PastMongo, PastRedis, PastGPool, PastG2Cache, PastEvent,
           PastQueues
<1>2. IInv /\ OpenedSoFar /\ [Next]_vars => OpenedSoFar'
    BY OpenedStep DEF vars, app, stores, OpenedSoFar
<1>3. OpenedSoFar => ServesWithStores
    BY DEF OpenedSoFar, ServesWithStores, PastXorm, PastMongo, PastRedis, PastGPool, PastG2Cache,
           PastEvent, PastQueues
<1> QED  BY <1>1, <1>2, <1>3, Invariance, PTL DEF Spec

-----------------------------------------------------------------------------
(* The promise of ServiceLife.  Who is waited for, and the phases by the   *)
(* control points.                                                         *)
Guest == {"http", "rpc", "pooled"}
Told == {"stopFunc", "release", "waitAll"}

PhaseFits ==
    /\ pc \in SettingUp <=> Phase = "starting"
    /\ pc = "serving" <=> Phase = "serving"
    /\ pc \in Leaving \ (Told \cup Closing) <=> Phase = "draining"
    /\ pc \in Told <=> Phase = "told"
    /\ pc \in Closing <=> Phase = "closing"
    /\ pc \in Ended <=> Phase = "ended"

LEMMA Phases == ASSUME TypeOK, TypeOK' PROVE PhaseFits /\ PhaseFits'
<1>1. PhaseFits
    BY DEF TypeOK, PhaseFits, Phase, SettingUp, Leaving, Ended, Told, Closing
<1>2. PhaseFits'
    BY DEF TypeOK, PhaseFits, Phase, SettingUp, Leaving, Ended, Told, Closing
<1> QED  BY <1>1, <1>2

(* Steps that keep the tasks keep the guests.                              *)
LEMMA GuestsKept ==
    ASSUME task' = task
    PROVE  /\ Doing({"http", "rpc"})' = Doing({"http", "rpc"})
           /\ Doing({"pooled"})' = Doing({"pooled"})
BY DEF Doing

(* Setting up begins no request and no job of the pool.                    *)
LEMMA SetUpGuests ==
    ASSUME TypeOK, SetUp
    PROVE  /\ Doing({"http", "rpc"})' = Doing({"http", "rpc"})
           /\ Doing({"pooled"})' = Doing({"pooled"})
<1>1. task' = task \/ \E t \in Tasks, how \in {"event", "health", "queued"} :
                        task[t] = "idle" /\ task' = [task EXCEPT ![t] = how]
    BY DEF SetUp, Start, Moves, Opens, RegisterEvent, work, LoadConfig, StartUpControl, UserConfig,
           OpenGORM, OpenXORM, OpenMongo, OpenRedis, NewGPool, OpenG2Cache, Loggers, OpenEvent,
           UserVars, SetupKindVars, RegisterGRPCHealthHandle, OpenQueues, Register, Routes,
           RegisterProducer, RegisterHandler, AddCronJobs, Listen
<1> QED  BY <1>1, GuestsKept DEF TypeOK, Doing

(* ... and opens one store at a time.                                      *)
LEMMA SetUpStores ==
    ASSUME TypeOK, SetUp
    PROVE  \/ open' = open
           \/ pc' \in SettingUp /\ \E s \in Stores : open' = open \cup {s}
<1> USE DEF SettingUp, Stores, stores
<1>1. CASE OpenXORM \/ OpenMongo \/ OpenRedis \/ OpenG2Cache \/ OpenEvent \/ OpenQueues
    BY <1>1 DEF Opens, OpenXORM, OpenMongo, OpenRedis, OpenG2Cache, OpenEvent, OpenQueues
<1>2. CASE OpenGORM
    BY <1>2 DEF OpenGORM
<1>3. CASE ~(OpenXORM \/ OpenMongo \/ OpenRedis \/ OpenG2Cache \/ OpenEvent \/ OpenQueues)
           /\ ~OpenGORM
    BY <1>3 DEF SetUp, Start, Moves, RegisterEvent, LoadConfig, StartUpControl, UserConfig,
           NewGPool, Loggers, UserVars, SetupKindVars, Register, Routes, RegisterProducer,
           RegisterHandler, AddCronJobs, Listen
<1> QED  BY <1>1, <1>2, <1>3

(* Set-up opens stores until it serves or leaves, ...                      *)
LEMMA SetUpImplements == ASSUME IInv, SetUp PROVE [Life!Next]_Life!vars
<1>1. TypeOK /\ TypeOK'
    BY SetUpKeeps, StartKeeps DEF IInv
<1>2. pc \in SettingUp /\ (pc' \in SettingUp \cup {"unregister", "leave", "serving"} \cup Stopped)
    BY SetUpFrame DEF Start, SettingUp, Stopped
<1>3. CASE pc' \in SettingUp
    BY <1>1, <1>2, <1>3, Phases, SetUpGuests, SetUpStores
       DEF PhaseFits, Life!Next, Life!Open, Life!vars
<1>4. CASE pc' \notin SettingUp
    <2>1. open' = open
        BY <1>1, <1>4, SetUpStores
    <2>2. CASE pc' = "serving"
        BY <1>1, <1>2, <2>1, <2>2, Phases, SetUpGuests DEF PhaseFits, Life!Next, Life!Serve
    <2>3. CASE pc' \in {"unregister", "leave"}
        BY <1>1, <1>2, <2>1, <2>3, Phases, SetUpGuests
           DEF PhaseFits, Life!Next, Life!Drain, Leaving, Told, Closing
    <2>4. CASE pc' \in Stopped
        BY <1>1, <1>2, <2>1, <2>4, Phases, SetUpGuests
           DEF PhaseFits, Life!Next, Life!End, Stopped, Ended
    <2> QED  BY <1>2, <1>4, <2>2, <2>3, <2>4
<1> QED  BY <1>3, <1>4

(* ... leaving waits for the guests before it closes them, ...             *)
LEMMA LeaveImplements == ASSUME IInv, Leave PROVE [Life!Next]_Life!vars
<1>1. TypeOK /\ TypeOK'
    BY LeaveKeeps DEF IInv
<1>2. Doing({"http", "rpc"})' = Doing({"http", "rpc"}) /\ Doing({"pooled"})' = Doing({"pooled"})
    BY LeaveFrame, GuestsKept
<1>3. CASE CloseErrors \/ DrainErrors \/ Unregister \/ PrepareForceExit \/ StopHttp \/ DrainHttp
           \/ StopGRPC \/ StopCron
    <2>1. /\ pc \in Leaving \ (Told \cup Closing) /\ open' = open
          /\ pc' \in (Leaving \ (Told \cup Closing)) \cup {"panicked"}
        BY <1>3 DEF Moves, stores, Leaving, Told, Closing, Registers, CloseErrors, DrainErrors,
                    Unregister, PrepareForceExit, StopHttp, DrainHttp, StopGRPC, StopCron
    <2> QED  BY <1>1, <1>2, <2>1, Phases DEF PhaseFits, Life!Next, Life!End, Life!vars, Ended
<1>4. CASE Shutdown
    <2>1. /\ pc = "shutdown" /\ open' = open
          /\ pc' \in {"exited", "panicked", "stopFunc"}
        BY <1>4 DEF Shutdown, stores
    <2>2. Doing({"http", "rpc"}) = {}
        BY <2>1 DEF IInv, TasksFit, Doing, Stopped
    <2>3. Phase = "draining" /\ Phase' \in {"told", "ended"}
        BY <1>1, <2>1, Phases DEF PhaseFits, Leaving, Told, Closing, Ended
    <2> QED  BY <1>2, <2>1, <2>2, <2>3 DEF Life!Next, Life!Tell, Life!End
<1>5. CASE StopFunc \/ Release \/ WaitAll
    <2>1. /\ pc \in Told /\ open' = open
          /\ pc' \in Told \cup {"exited", "closeRedis"}
          /\ pc' = "closeRedis" => pool = "none" \/ pc = "waitAll"
        BY <1>5 DEF StopFunc, Release, WaitAll, Moves, stores, Told
    <2>2. pc' = "closeRedis" => Doing({"pooled"}) = {}
        BY <2>1 DEF IInv, TasksFit, PoolFits, Doing
    <2> QED  BY <1>1, <1>2, <2>1, <2>2, Phases
             DEF PhaseFits, Life!Next, Life!BeginClose, Life!End, Life!vars, Closing, Ended
<1>6. CASE CloseRedis \/ CloseGORM \/ CloseMongo
    <2>1. pc \in Closing /\ pc' \in Closing \cup {"exited"}
        BY <1>6 DEF CloseRedis, CloseGORM, CloseMongo, Closes, Closing
    <2>2. open' = open \/ \E s \in Stores : open' = open \ {s}
        BY <1>6 DEF CloseRedis, CloseGORM, CloseMongo, Closes, Stores
    <2> QED  BY <1>1, <1>2, <2>1, <2>2, Phases
             DEF PhaseFits, Life!Next, Life!Close, Life!End, Life!vars, Ended
<1> QED  BY <1>3, <1>4, <1>5, <1>6 DEF Leave

(* ... guests come and go, ...                                             *)
LEMMA TaskImplements == ASSUME IInv, NEW t \in Tasks, TaskStep(t) PROVE [Life!Next]_Life!vars
<1>1. TypeOK /\ TypeOK'
    BY TaskKeeps DEF IInv
<1>2. CASE UserPanics(t)
    <2>1. pc \notin Ended /\ pc' \in Ended /\ open' = open /\ task' = task
        BY <1>2 DEF UserPanics, Alive, stores, work, Ended
    <2>2. Phase # "ended" /\ Phase' = "ended"
        BY <1>1, <2>1, Phases DEF PhaseFits, TypeOK
    <2> QED  BY <2>1, <2>2, GuestsKept DEF Life!Next, Life!End
<1>3. CASE ~UserPanics(t)
    <2>1. PICK u \in Tasks, to \in Active \cup {"idle", "queued"} :
             /\ task' = [task EXCEPT ![u] = to]
             /\ to = "http" => "http" \in sources
             /\ to = "rpc" => "rpc" \in sources
             /\ to = "pooled" => pool = "open"
             /\ to \in Guest => task[u] \notin Guest
        BY <1>1, <1>3 DEF TaskStep, Becomes, StartHttp, StartRpc, StartH2c, StartCron, StartMessage,
           Hijack, SubmitJob, RunJob, Finish, Active, Guest
    <2>2. Alive /\ pc' = pc /\ open' = open
        BY <1>1, <1>3, TaskFrame DEF stores
    <2>3. Phase' = Phase /\ Phase # "ended"
        BY <1>1, <2>2, Phases DEF PhaseFits, Phase, Alive, TypeOK
    <2>4. CASE to \in {"http", "rpc"}
        <3>1. Doing({"http", "rpc"})' = Doing({"http", "rpc"}) \cup {u}
              /\ Doing({"pooled"})' = Doing({"pooled"})
            BY <1>1, <2>1, <2>4 DEF Doing, TypeOK, Guest
        <3>2. pc = "serving" \/ pc \in Leaving \ (Told \cup Closing)
            BY <2>1, <2>2, <2>4 DEF IInv, SourcesFit, Stopped, Alive, Ended, Leaving, Told, Closing
        <3>3. Phase \in {"serving", "draining"}
            BY <1>1, <3>2, Phases DEF PhaseFits
        <3> QED  BY <2>2, <2>3, <3>1, <3>3 DEF Life!Next, Life!Admit
    <2>5. CASE to = "pooled"
        <3>1. Doing({"pooled"})' = Doing({"pooled"}) \cup {u}
              /\ Doing({"http", "rpc"})' = Doing({"http", "rpc"})
            BY <1>1, <2>1, <2>5 DEF Doing, TypeOK, Guest
        <3>2. pc \notin Closing
            BY <2>1, <2>5 DEF IInv, PoolFits
        <3>3. Phase # "closing"
            BY <3>2 DEF Phase, Closing
        <3> QED  BY <2>2, <2>3, <3>1, <3>3 DEF Life!Next, Life!Begin
    <2>6. CASE to \notin Guest
        <3>1. Doing({"http", "rpc"})' = Doing({"http", "rpc"}) \ {u}
              /\ Doing({"pooled"})' = Doing({"pooled"}) \ {u}
            BY <1>1, <2>1, <2>6 DEF Doing, TypeOK, Guest
        <3> QED  BY <2>2, <2>3, <3>1 DEF Life!Next, Life!Depart
    <2> QED  BY <2>4, <2>5, <2>6 DEF Guest
<1> QED  BY <1>2, <1>3

(* ... and what remains are steps to the drain or to the end.              *)
LEMMA OthersImplement ==
    ASSUME IInv, StopServing \/ TimerFires \/ ConnectH2c \/ UserQuit \/ ConsumerEnds
    PROVE  [Life!Next]_Life!vars
<1>1. TypeOK /\ TypeOK'
    BY OthersKeep DEF IInv
<1>2. open' = open /\ task' = task
    BY DEF StopServing, TimerFires, ConnectH2c, UserQuit, ConsumerEnds, stores, work
<1>3. CASE pc' = pc
    BY <1>2, <1>3, GuestsKept DEF Life!vars, Phase
<1>4. CASE StopServing
    <2>1. pc = "serving" /\ pc' \in Leaving \ (Told \cup Closing)
        BY <1>4 DEF StopServing, Leaving, Told, Closing
    <2> QED  BY <1>1, <1>2, <2>1, Phases, GuestsKept DEF PhaseFits, Life!Next, Life!Drain
<1>5. CASE pc \notin Ended /\ pc' \in Ended
    <2>1. Phase # "ended" /\ Phase' = "ended"
        BY <1>1, <1>5, Phases DEF PhaseFits, TypeOK
    <2> QED  BY <1>2, <2>1, GuestsKept DEF Life!Next, Life!End
<1>6. pc' = pc \/ StopServing \/ (pc \notin Ended /\ pc' \in Ended)
    BY DEF TimerFires, ConnectH2c, UserQuit, ConsumerEnds, Alive, Ended
<1> QED  BY <1>3, <1>4, <1>5, <1>6

(* A process of any kind, with any configuration, keeps the promise of     *)
(* ServiceLife to the requests and the jobs it waits for.                  *)
THEOREM KeepsItsPromise == Spec => Life!SafeSpec
<1>1. Init => Life!Init
    BY DEF Init, Life!Init, Phase, SettingUp, Doing
<1>2. ASSUME IInv, [Next]_vars PROVE [Life!Next]_Life!vars
    <2>1. CASE UNCHANGED vars
        BY <2>1, GuestsKept DEF vars, stores, work, Life!vars, Phase
    <2> QED  BY <1>2, <2>1, SetUpImplements, LeaveImplements, TaskImplements, OthersImplement
             DEF Next
<1> QED  BY <1>1, <1>2, Invariance, PTL DEF Spec, Life!SafeSpec

(* Whatever fails, no store is closed while a request of a server or a job *)
(* of the pool is running.                                                 *)
THEOREM StoresOutliveGuests == Spec => [][Doing(Guest) # {} => open \subseteq open']_vars
<1>1. ASSUME IInv, Next, ~(open \subseteq open') PROVE Doing(Guest) = {}
    <2>1. pc \in Closing
        BY <1>1, OnlyShutdownCloses DEF IInv, CloseRedis, CloseGORM, CloseMongo, Closes, Closing
    <2> QED  BY <1>1, <2>1 DEF IInv, TasksFit, PoolFits, Closing, Stopped, Doing, Guest
<1>2. IInv /\ [Next]_vars => [Doing(Guest) # {} => open \subseteq open']_vars
    BY <1>1
<1> QED  BY <1>2, Invariance, PTL DEF Spec
==============================================================================
