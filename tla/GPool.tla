-------------------------------- MODULE GPool --------------------------------
(***************************************************************************)
(* The goroutine pool of src/util/goroutine/grpool.go.                     *)
(*                                                                         *)
(* Processes: the goroutines that call SendJob or SendJobWithTimeout /     *)
(* SendJobWithDeadline (one per job), the dispatcher, the workers, and the *)
(* goroutines that call WaitAll; one of these, Closer, is the framework's  *)
(* shutdown (src/app/app.go:306-309), which calls Release before WaitAll.  *)
(*                                                                         *)
(* A buffered channel is a bounded sequence; an unbuffered one is a joint  *)
(* step of its sender and its receiver.  workerPool has one slot per       *)
(* worker and so never blocks its sender; it is kept as a set, because the *)
(* workers are interchangeable.  A select with several ready cases takes   *)
(* any of them.  An unrecovered panic ends the process.                    *)
(***************************************************************************)
EXTENDS Integers, Sequences, FiniteSets, SequencesExt

CONSTANTS Jobs,       \* the functions submitted, each by a goroutine of its own
          TimedJobs,  \* those submitted with SendJobWithTimeout / Deadline
          SelfDoneJobs, \* those whose body calls JobDone as well
          Workers,
          QueueLen,   \* capacity of JobQueue
          Callers,    \* goroutines that call WaitAll
          Closer,     \* the one that calls Release first
          NoJob,      \* the value of an empty job variable
          NoWorker    \* the value of an empty worker variable

ASSUME GPoolAssumption ==
    /\ TimedJobs \subseteq Jobs
    /\ SelfDoneJobs \subseteq Jobs
    /\ IsFiniteSet(Jobs)
    /\ IsFiniteSet(Workers) /\ Workers # {}   \* grpool.go:119-121
    /\ QueueLen \in Nat \ {0}                 \* grpool.go:122-124
    /\ Closer \in Callers
    /\ NoJob \notin Jobs
    /\ NoWorker \notin Workers

VARIABLES send,        \* per job, how far the submitting call is
          jobQueue,    \* Pool.JobQueue
          workerPool,  \* dispatcher.workerPool
          dpc,         \* control point of dispatch()
          djob,        \* the job dispatch() has taken from the queue
          dworker,     \* the worker dispatch() has taken from workerPool
          collected,   \* its loop counter i once it is stopping
          wpc,         \* control point of each worker
          wjob,        \* the job each worker has received
          finished,    \* jobs whose wrapper has returned (history)
          count,       \* the WaitGroup's counter
          caller       \* per caller of Release and WaitAll, its control point

sendVars == <<send, jobQueue>>
dispatchVars == <<workerPool, dpc, djob, dworker, collected>>
workerVars == <<wpc, wjob, finished>>
vars == <<send, jobQueue, dispatchVars, workerVars, count, caller>>

SendPC == {"idle", "counted", "queued", "sent", "rejected",
           "panicked",       \* in its WaitCount(1), with the job on the queue
           "countPanicked"}  \* ... and before it
DispatchPC == {"select", "takeWorker", "deliver", "collect", "stopWorker",
               "awaitWorker", "exited"}
WorkerPC == {"free", "select", "run", "doneCalled", "stopAck", "exited"}
Busy == {"run", "doneCalled"}
CallerPC == {"idle", "release", "awaitAck", "released", "blocked", "woken",
             "returned", "panicked"}

TypeOK ==
    /\ send \in [Jobs -> SendPC]
    /\ jobQueue \in Seq(Jobs) /\ Len(jobQueue) <= QueueLen
    /\ workerPool \subseteq Workers
    /\ dpc \in DispatchPC
    /\ djob \in Jobs \cup {NoJob}
    /\ dworker \in Workers \cup {NoWorker}
    /\ collected \in 0..Cardinality(Workers)
    /\ wpc \in [Workers -> WorkerPC]
    /\ wjob \in [Workers -> Jobs \cup {NoJob}]
    /\ finished \subseteq Jobs
    /\ count \in Int
    /\ caller \in [Callers -> CallerPC]

Init ==
    /\ send = [j \in Jobs |-> "idle"]
    /\ jobQueue = <<>>
    /\ workerPool = {}
    /\ dpc = "select"
    /\ djob = NoJob
    /\ dworker = NoWorker
    /\ collected = 0
    /\ wpc = [w \in Workers |-> "free"]
    /\ wjob = [w \in Workers |-> NoJob]
    /\ finished = {}
    /\ count = 0
    /\ caller = [c \in Callers |-> "idle"]

Alive == /\ \A j \in Jobs : send[j] \notin {"panicked", "countPanicked"}
         /\ \A c \in Callers : caller[c] # "panicked"

(***************************************************************************)
(* sync.WaitGroup.Add(delta): the counter changes, reaching zero releases  *)
(* every goroutine blocked in Wait, and a negative result panics with the  *)
(* counter already changed.                                                *)
(***************************************************************************)
WgAdd(delta) ==
    /\ count' = count + delta
    /\ caller' = [c \in Callers |->
                    IF count + delta = 0 /\ caller[c] = "blocked" THEN "woken"
                    ELSE caller[c]]

(***************************************************************************)
(* Where a WaitCount(1) leaves its caller, past it or panicking: a result  *)
(* below zero panics, and an Add that comes between another's reaching     *)
(* zero and its releasing the waiters may meet "Add called concurrently    *)
(* with Wait".                                                             *)
(***************************************************************************)
Added(past, panics) ==
    (IF count + 1 < 0 THEN {} ELSE {past})
        \cup (IF count + 1 < 0 \/ (count = 0 /\ \E c \in Callers : caller[c] = "woken")
              THEN {panics} ELSE {})

-----------------------------------------------------------------------------
(* Mistakes that grpool.go does not make, each a variant of an action below: *)
(* the properties must catch them.  No specification uses them.             *)

(* SendJob without its WaitCount(1).                                       *)
BugSendCount(j) ==
    /\ Alive
    /\ send[j] = "idle" /\ j \notin TimedJobs
    /\ send' = [send EXCEPT ![j] = "counted"]
    /\ UNCHANGED <<jobQueue, dispatchVars, workerVars, count, caller>>

(* A send that does not block on a full queue.                             *)
BugSendEnqueue(j) ==
    /\ Alive
    /\ send[j] = "counted"
    /\ jobQueue' = Append(jobQueue, j)
    /\ send' = [send EXCEPT ![j] = "sent"]
    /\ UNCHANGED <<dispatchVars, workerVars, count, caller>>

(* A timer that also expires calls whose send has already happened.        *)
BugTimedExpire(j) ==
    /\ Alive
    /\ send[j] \in {"idle", "queued"} /\ j \in TimedJobs
    /\ send' = [send EXCEPT ![j] = "rejected"]
    /\ UNCHANGED <<jobQueue, dispatchVars, workerVars, count, caller>>

(* A job queue served last in, first out.                                  *)
BugDispatchReceive ==
    /\ Alive
    /\ dpc = "select" /\ jobQueue # <<>>
    /\ djob' = jobQueue[Len(jobQueue)]
    /\ jobQueue' = SubSeq(jobQueue, 1, Len(jobQueue) - 1)
    /\ dpc' = "takeWorker"
    /\ UNCHANGED <<send, workerPool, dworker, collected, workerVars, count, caller>>

(* A wrapper that does not defer JobDone: a panicking job skips it.        *)
BugJobFinish(w) ==
    /\ Alive
    /\ wpc[w] \in Busy
    /\ wjob[w] \in SelfDoneJobs => wpc[w] = "doneCalled"
    /\ finished' = finished \cup {wjob[w]}
    /\ WgAdd(-1) \/ UNCHANGED <<count, caller>>
    /\ wpc' = [wpc EXCEPT ![w] = "free"]
    /\ wjob' = [wjob EXCEPT ![w] = NoJob]
    /\ UNCHANGED <<send, jobQueue, dispatchVars>>

(* A runJob without recover, were the process to survive: a panicking job  *)
(* takes its worker goroutine with it.                                     *)
BugJobFinishNoRecover(w) ==
    /\ Alive
    /\ wpc[w] \in Busy
    /\ wjob[w] \in SelfDoneJobs => wpc[w] = "doneCalled"
    /\ finished' = finished \cup {wjob[w]}
    /\ WgAdd(-1)
    /\ wpc' \in {[wpc EXCEPT ![w] = "free"], [wpc EXCEPT ![w] = "exited"]}
    /\ wjob' = [wjob EXCEPT ![w] = NoJob]
    /\ UNCHANGED <<send, jobQueue, dispatchVars>>

(* A stop loop that ends one worker early.                                 *)
BugReleaseReturn(c) ==
    /\ Alive
    /\ caller[c] = "awaitAck"
    /\ dpc = "collect" /\ collected >= Cardinality(Workers) - 1
    /\ caller' = [caller EXCEPT ![c] = "released"]
    /\ dpc' = "exited"
    /\ UNCHANGED <<sendVars, workerPool, djob, dworker, collected, workerVars, count>>

-----------------------------------------------------------------------------
(* Submitting a job *)

(* SendJob: WaitCount(1), then the send on JobQueue, which may block.      *)
SendCount(j) ==
    /\ Alive
    /\ send[j] = "idle" /\ j \notin TimedJobs
    /\ WgAdd(1)
    /\ \E to \in Added("counted", "countPanicked") : send' = [send EXCEPT ![j] = to]
    /\ UNCHANGED <<jobQueue, dispatchVars, workerVars>>

SendEnqueue(j) ==
    /\ Alive
    /\ send[j] = "counted"
    /\ Len(jobQueue) < QueueLen
    /\ jobQueue' = Append(jobQueue, j)
    /\ send' = [send EXCEPT ![j] = "sent"]
    /\ UNCHANGED <<dispatchVars, workerVars, count, caller>>

(* SendJobWithTimeout, SendJobWithDeadline: a select of the send on        *)
(* JobQueue and a timer, and WaitCount(1) only after the send.             *)
TimedEnqueue(j) ==
    /\ Alive
    /\ send[j] = "idle" /\ j \in TimedJobs
    /\ Len(jobQueue) < QueueLen
    /\ jobQueue' = Append(jobQueue, j)
    /\ send' = [send EXCEPT ![j] = "queued"]
    /\ UNCHANGED <<dispatchVars, workerVars, count, caller>>

TimedCount(j) ==
    /\ Alive
    /\ send[j] = "queued"
    /\ WgAdd(1)
    /\ \E to \in Added("sent", "panicked") : send' = [send EXCEPT ![j] = to]
    /\ UNCHANGED <<jobQueue, dispatchVars, workerVars>>

TimedExpire(j) ==
    /\ Alive
    /\ send[j] = "idle" /\ j \in TimedJobs
    /\ send' = [send EXCEPT ![j] = "rejected"]
    /\ UNCHANGED <<jobQueue, dispatchVars, workerVars, count, caller>>

-----------------------------------------------------------------------------
(* dispatch() *)

DispatchReceive ==
    /\ Alive
    /\ dpc = "select" /\ jobQueue # <<>>
    /\ djob' = Head(jobQueue)
    /\ jobQueue' = Tail(jobQueue)
    /\ dpc' = "takeWorker"
    /\ UNCHANGED <<send, workerPool, dworker, collected, workerVars, count, caller>>

(* worker := <-d.workerPool, before a job is delivered (line 72) and       *)
(* before a worker is stopped (line 76).                                   *)
TakeWorker(w) ==
    /\ Alive
    /\ w \in workerPool
    /\ \/ dpc = "takeWorker" /\ dpc' = "deliver"
       \/ /\ dpc = "collect" /\ collected < Cardinality(Workers)
          /\ dpc' = "stopWorker"
    /\ workerPool' = workerPool \ {w}
    /\ dworker' = w
    /\ UNCHANGED <<send, jobQueue, djob, collected, workerVars, count, caller>>

(* worker.jobChannel <- job, received in the worker's select.              *)
Deliver(w) ==
    /\ Alive
    /\ dpc = "deliver" /\ dworker = w /\ wpc[w] = "select"
    /\ wpc' = [wpc EXCEPT ![w] = "run"]
    /\ wjob' = [wjob EXCEPT ![w] = djob]
    /\ dpc' = "select"
    /\ djob' = NoJob
    /\ dworker' = NoWorker
    /\ UNCHANGED <<send, jobQueue, workerPool, collected, finished, count, caller>>

(* worker.stop <- struct{}{}, received in the worker's select.             *)
StopWorker(w) ==
    /\ Alive
    /\ dpc = "stopWorker" /\ dworker = w /\ wpc[w] = "select"
    /\ wpc' = [wpc EXCEPT ![w] = "stopAck"]
    /\ dpc' = "awaitWorker"
    /\ UNCHANGED <<send, jobQueue, workerPool, djob, dworker, collected, wjob,
                   finished, count, caller>>

(* The worker's answer on the same channel; it returns, i is incremented.  *)
WorkerStopped(w) ==
    /\ Alive
    /\ dpc = "awaitWorker" /\ dworker = w /\ wpc[w] = "stopAck"
    /\ wpc' = [wpc EXCEPT ![w] = "exited"]
    /\ dpc' = "collect"
    /\ dworker' = NoWorker
    /\ collected' = collected + 1
    /\ UNCHANGED <<send, jobQueue, workerPool, djob, wjob, finished, count, caller>>

-----------------------------------------------------------------------------
(* A worker *)

WorkerOffer(w) ==
    /\ Alive
    /\ wpc[w] = "free"
    /\ workerPool' = workerPool \cup {w}
    /\ wpc' = [wpc EXCEPT ![w] = "select"]
    /\ UNCHANGED <<send, jobQueue, dpc, djob, dworker, collected, wjob, finished,
                   count, caller>>

(* A job may call JobDone itself, as JobDone's comment tells it to; should *)
(* the WaitGroup panic, the rest of the body is skipped.                   *)
JobCallsDone(w) ==
    /\ Alive
    /\ wpc[w] = "run" /\ wjob[w] \in SelfDoneJobs
    /\ WgAdd(-1)
    /\ wpc' = [wpc EXCEPT ![w] = "doneCalled"]
    /\ UNCHANGED <<send, jobQueue, dispatchVars, wjob, finished>>

(* The wrapped job returns or panics and its deferred JobDone runs; a      *)
(* panic, the job's own or the WaitGroup's, ends in runJob's recover.      *)
JobFinish(w) ==
    /\ Alive
    /\ wpc[w] \in Busy
    /\ wjob[w] \in SelfDoneJobs => wpc[w] = "doneCalled"
    /\ finished' = finished \cup {wjob[w]}
    /\ WgAdd(-1)
    /\ wpc' = [wpc EXCEPT ![w] = "free"]
    /\ wjob' = [wjob EXCEPT ![w] = NoJob]
    /\ UNCHANGED <<send, jobQueue, dispatchVars>>

-----------------------------------------------------------------------------
(* Release and WaitAll *)

ReleaseCall(c) ==
    /\ Alive
    /\ c = Closer /\ caller[c] = "idle"
    /\ caller' = [caller EXCEPT ![c] = "release"]
    /\ UNCHANGED <<sendVars, dispatchVars, workerVars, count>>

(* d.stop <- struct{}{} in Release meets the select of dispatch().         *)
ReleaseStop(c) ==
    /\ Alive
    /\ caller[c] = "release" /\ dpc = "select"
    /\ caller' = [caller EXCEPT ![c] = "awaitAck"]
    /\ dpc' = "collect"
    /\ UNCHANGED <<sendVars, workerPool, djob, dworker, collected, workerVars, count>>

(* d.stop <- struct{}{} in dispatch() meets <-p.dispatcher.stop.           *)
ReleaseReturn(c) ==
    /\ Alive
    /\ caller[c] = "awaitAck"
    /\ dpc = "collect" /\ collected = Cardinality(Workers)
    /\ caller' = [caller EXCEPT ![c] = "released"]
    /\ dpc' = "exited"
    /\ UNCHANGED <<sendVars, workerPool, djob, dworker, collected, workerVars, count>>

(* WaitGroup.Wait: returns at once on zero, blocks otherwise (a negative   *)
(* counter included) ...                                                   *)
WaitAll(c) ==
    /\ Alive
    /\ caller[c] = IF c = Closer THEN "released" ELSE "idle"
    /\ caller' = [caller EXCEPT ![c] = IF count = 0 THEN "returned" ELSE "blocked"]
    /\ UNCHANGED <<sendVars, dispatchVars, workerVars, count>>

(* ... and, once released, panics if the counter has moved on.             *)
WaitWake(c) ==
    /\ Alive
    /\ caller[c] = "woken"
    /\ caller' = [caller EXCEPT ![c] = IF count = 0 THEN "returned" ELSE "panicked"]
    /\ UNCHANGED <<sendVars, dispatchVars, workerVars, count>>

-----------------------------------------------------------------------------

SendSteps(j) == SendEnqueue(j) \/ TimedCount(j)
WorkerSteps(w) == WorkerOffer(w) \/ JobCallsDone(w) \/ JobFinish(w)
DispatchSteps(w) == TakeWorker(w) \/ Deliver(w) \/ StopWorker(w) \/ WorkerStopped(w)
CallerSteps(c) == ReleaseStop(c) \/ ReleaseReturn(c) \/ WaitWake(c)

Next ==
    \/ \E j \in Jobs : \/ SendCount(j) \/ TimedEnqueue(j) \/ TimedExpire(j)
                       \/ SendSteps(j)
    \/ DispatchReceive
    \/ \E w \in Workers : WorkerSteps(w) \/ DispatchSteps(w)
    \/ \E c \in Callers : ReleaseCall(c) \/ WaitAll(c) \/ CallerSteps(c)

(* Every goroutine that can step eventually does, and every job function   *)
(* returns; nobody is obliged to submit, to expire, to Release.            *)
Fairness ==
    /\ \A j \in Jobs : WF_vars(SendSteps(j))
    /\ WF_vars(DispatchReceive)
    /\ \A w \in Workers : /\ WF_vars(WorkerSteps(w))
                          /\ WF_vars(DispatchSteps(w))
    /\ \A c \in Callers : /\ WF_vars(CallerSteps(c))
                          /\ WF_vars(caller[c] = "released" /\ WaitAll(c))

SafeSpec == Init /\ [][Next]_vars
Spec == SafeSpec /\ Fairness

-----------------------------------------------------------------------------
(* Properties *)

InQueue == ToSet(jobQueue)
InDispatch == IF dpc \in {"takeWorker", "deliver"} THEN {djob} ELSE {}
Running == {wjob[w] : w \in {v \in Workers : wpc[v] \in Busy}}
SelfDone == (finished \cap SelfDoneJobs)
            \cup {wjob[w] : w \in {v \in Workers : wpc[v] = "doneCalled"}}
Enqueued == {j \in Jobs : send[j] \in {"queued", "sent", "panicked"}}
Counted == {j \in Jobs : send[j] \in {"counted", "sent", "panicked", "countPanicked"}}

(* So far every submission was a SendJob and no job called JobDone itself. *)
PlainUse == (Enqueued \cup Counted) \cap (TimedJobs \cup SelfDoneJobs) = {}

(* A job put on JobQueue is never lost and never run twice: it is at one   *)
(* place of the queue, in dispatch()'s hand, in one worker, or finished,   *)
(* and nothing else is (wrapJob, dispatch and worker.start together).      *)
JobsConserved ==
    /\ IsInjective(jobQueue)
    /\ \A v, w \in Workers :
          wpc[v] \in Busy /\ wpc[w] \in Busy /\ wjob[v] = wjob[w] => v = w
    /\ InQueue \cap (InDispatch \cup Running \cup finished) = {}
    /\ InDispatch \cap (Running \cup finished) = {}
    /\ Running \cap finished = {}
    /\ InQueue \cup InDispatch \cup Running \cup finished = Enqueued

(* The WaitGroup's counter is what WaitCount and JobDone mean it to be,    *)
(* whatever the interleaving of submitters, workers and waiters: the jobs  *)
(* counted, less the jobs done, less the calls of JobDone jobs have made.  *)
CountExact ==
    count = Cardinality(Counted) - Cardinality(finished) - Cardinality(SelfDone)

(* When Release returns, and from then on, every worker goroutine and the  *)
(* dispatcher have returned and no job is executing: the framework closes  *)
(* Redis and MySQL right after (app.go:306-328).                           *)
ReleaseQuiesces ==
    caller[Closer] \in {"released", "blocked", "woken", "returned"} =>
        /\ dpc = "exited"
        /\ \A w \in Workers : wpc[w] = "exited"

(* "WaitAll Will wait for all jobs to finish" (grpool.go:186): a return    *)
(* from WaitAll finds every job whose submission had succeeded finished.   *)
WaitAllWaits ==
    [][\A c \in Callers :
          caller[c] # "returned" /\ caller'[c] = "returned" =>
              {j \in Jobs : send[j] = "sent"} \subseteq finished]_vars

(* ... which holds as long as jobs come from SendJob, that counts before   *)
(* it enqueues, and leave JobDone to wrapJob; jobs counted but not yet on  *)
(* the queue are waited for too.                                           *)
WaitAllSound ==
    [][\A c \in Callers :
          PlainUse /\ caller[c] # "returned" /\ caller'[c] = "returned" =>
              Counted \subseteq finished]_vars

(* With such use the framework's shutdown never panics: no job that        *)
(* outlived Release can move the counter under its WaitAll.  And while no  *)
(* other WaitAll is called no submission panics, before, during or after   *)
(* the shutdown: no JobDone comes before the WaitCount it pairs with, so   *)
(* the counter is never below zero for a SendJob to find.                  *)
ShutdownNeverPanics ==
    PlainUse => /\ caller[Closer] # "panicked"
                /\ (\A c \in Callers \ {Closer} : caller[c] = "idle") => Alive

(* A job on the queue is executed, unless Release is called or the process *)
(* dies first.                                                             *)
JobsFinish ==
    \A j \in Jobs : j \in Enqueued ~> (j \in finished \/ caller[Closer] # "idle" \/ ~Alive)

(* Release returns: the stop handshake of Release, dispatch() and the      *)
(* workers never gets stuck, however many submitters keep the queue full.  *)
ReleaseReturns ==
    caller[Closer] = "release" ~> (caller[Closer] \notin {"release", "awaitAck"} \/ ~Alive)

(* The pool keeps the promise of JobPool: FIFO starts, at most one job per *)
(* worker at a time, each started once, none started after Release.        *)
Promise == INSTANCE JobPool WITH
    MaxPending <- QueueLen + 1,
    MaxRunning <- Cardinality(Workers),
    pending <- (IF InDispatch = {} THEN <<>> ELSE <<djob>>) \o jobQueue,
    running <- Running,
    done <- finished,
    mode <- IF ~Alive THEN "crashed" ELSE IF dpc = "exited" THEN "closed" ELSE "open"

ImplementsJobPool == Promise!Spec

-----------------------------------------------------------------------------
(* The inductive invariant behind the safety properties: TypeOK,           *)
(* JobsConserved and the next two.                                         *)

(* dispatch() holds worker w, taken from workerPool.                       *)
Held(w) == dpc \in {"deliver", "stopWorker", "awaitWorker"} /\ dworker = w

(* What submitters, dispatch() and the workers hold agrees with where      *)
(* they are.                                                               *)
ControlInv ==
    /\ dpc \in {"takeWorker", "deliver"} <=> djob # NoJob
    /\ \A j \in Jobs : send[j] = "queued" => j \in TimedJobs
    /\ \A w \in Workers :
          /\ wpc[w] \in Busy => wjob[w] \in Jobs
          /\ wpc[w] = "doneCalled" => wjob[w] \in SelfDoneJobs
          /\ w \in workerPool => wpc[w] = "select" /\ ~Held(w)
          /\ Held(w) => wpc[w] = IF dpc = "awaitWorker" THEN "stopAck" ELSE "select"

(* Release, dispatch() and its loop over the workers keep in step.         *)
HandshakeInv ==
    /\ \A c \in Callers \ {Closer} : caller[c] \notin {"release", "awaitAck", "released"}
    /\ dpc \in {"collect", "stopWorker", "awaitWorker"} <=> caller[Closer] = "awaitAck"
    /\ dpc = "exited" <=>
         caller[Closer] \in {"released", "blocked", "woken", "returned", "panicked"}
    /\ collected = Cardinality({w \in Workers : wpc[w] = "exited"})
    /\ dpc = "exited" => collected = Cardinality(Workers)

IInv == TypeOK /\ ControlInv /\ HandshakeInv /\ JobsConserved
==============================================================================
