---------------------------- MODULE GPoolProofs ----------------------------
(***************************************************************************)
(* Proofs about GPool, for every finite set of jobs, workers and callers   *)
(* and every queue length.                                                 *)
(***************************************************************************)
EXTENDS GPool, FiniteSetTheorems, TLAPS

-----------------------------------------------------------------------------
(* Sequences: what putting and taking an element does to the set of them.  *)

(* What a send on JobQueue, Append, does to its elements.                  *)
LEMMA AppendElements ==
    ASSUME NEW S, NEW s \in Seq(S), NEW x \in S
    PROVE  /\ Append(s, x) \in Seq(S)
           /\ Len(Append(s, x)) = Len(s) + 1
           /\ ToSet(Append(s, x)) = ToSet(s) \cup {x}
           /\ IsInjective(s) /\ x \notin ToSet(s) => IsInjective(Append(s, x))
<1> DEFINE t == Append(s, x)
<1>1. /\ t \in Seq(S) /\ Len(t) = Len(s) + 1
      /\ DOMAIN s = 1..Len(s) /\ DOMAIN t = 1..(Len(s) + 1)
      /\ Len(s) \in Nat
    OBVIOUS
<1>2. /\ \A i \in 1..Len(s) : t[i] = s[i]
      /\ t[Len(s) + 1] = x
    OBVIOUS
<1>3. ToSet(t) = ToSet(s) \cup {x}
    <2>1. ASSUME NEW y \in ToSet(t) PROVE y \in ToSet(s) \cup {x}
        BY <1>1, <1>2 DEF ToSet
    <2>2. ASSUME NEW y \in ToSet(s) PROVE y \in ToSet(t)
        BY <1>1, <1>2 DEF ToSet
    <2>3. x \in ToSet(t)
        <3>1. Len(s) + 1 \in DOMAIN t
            BY <1>1
        <3> QED  BY <3>1, <1>2 DEF ToSet
    <2> QED  BY <2>1, <2>2, <2>3
<1>4. ASSUME IsInjective(s), x \notin ToSet(s) PROVE IsInjective(t)
    <2> SUFFICES ASSUME NEW a \in DOMAIN t, NEW b \in DOMAIN t, t[a] = t[b]
                 PROVE  a = b
        BY DEF IsInjective
    <2>1. CASE a \in 1..Len(s) /\ b \in 1..Len(s)
        BY <2>1, <1>1, <1>2, <1>4 DEF IsInjective
    <2>2. CASE a = Len(s) + 1 \/ b = Len(s) + 1
        BY <2>2, <1>1, <1>2, <1>4 DEF ToSet
    <2> QED  BY <2>1, <2>2, <1>1
<1> QED  BY <1>1, <1>3, <1>4

(* What a receive from JobQueue, Head and Tail, does to its elements.      *)
LEMMA TailElements ==
    ASSUME NEW S, NEW s \in Seq(S), s # <<>>
    PROVE  /\ Head(s) \in S /\ Tail(s) \in Seq(S)
           /\ Len(Tail(s)) = Len(s) - 1
           /\ Head(s) \in ToSet(s)
           /\ ToSet(s) = ToSet(Tail(s)) \cup {Head(s)}
           /\ IsInjective(s) => IsInjective(Tail(s)) /\ Head(s) \notin ToSet(Tail(s))
<1> DEFINE t == Tail(s)
<1>1. /\ t \in Seq(S) /\ Len(t) = Len(s) - 1
      /\ DOMAIN s = 1..Len(s) /\ DOMAIN t = 1..(Len(s) - 1)
      /\ Len(s) \in Nat /\ Len(s) > 0
    OBVIOUS
<1>2. /\ \A i \in DOMAIN t : t[i] = s[i + 1] /\ i + 1 \in DOMAIN s
      /\ Head(s) = s[1] /\ 1 \in DOMAIN s
    BY <1>1
<1>3. Head(s) \in S /\ Head(s) \in ToSet(s)
    BY <1>2 DEF ToSet
<1>4. ToSet(s) = ToSet(t) \cup {Head(s)}
    <2>1. ASSUME NEW y \in ToSet(s), y # Head(s) PROVE y \in ToSet(t)
        <3>1. PICK i \in DOMAIN s : y = s[i]
            BY DEF ToSet
        <3>2. i - 1 \in DOMAIN t /\ t[i - 1] = s[i]
            BY <3>1, <2>1, <1>1, <1>2
        <3> QED  BY <3>1, <3>2 DEF ToSet
    <2>2. ASSUME NEW y \in ToSet(t) PROVE y \in ToSet(s)
        BY <1>2 DEF ToSet
    <2> QED  BY <2>1, <2>2, <1>3
<1>5. ASSUME IsInjective(s) PROVE IsInjective(t) /\ Head(s) \notin ToSet(t)
    <2>1. \A i \in DOMAIN t : i \in Nat /\ i > 0
        BY <1>1
    <2>2. IsInjective(t)
        BY <1>1, <1>2, <1>5 DEF IsInjective
    <2>3. Head(s) \notin ToSet(t)
        BY <1>2, <1>5, <2>1 DEF IsInjective, ToSet
    <2> QED  BY <2>2, <2>3
<1> QED  BY <1>1, <1>3, <1>4, <1>5

-----------------------------------------------------------------------------
(* Type correctness *)

(* The initial state, in which no goroutine of the pool has moved.         *)
LEMMA InitInv == Init => IInv
<1> SUFFICES ASSUME Init PROVE IInv
    OBVIOUS
<1>1. {w \in Workers : wpc[w] = "exited"} = {}
    BY DEF Init
<1>2. Cardinality({w \in Workers : wpc[w] = "exited"}) = 0
    BY <1>1, FS_EmptySet
<1>3. Cardinality(Workers) \in Nat
    BY GPoolAssumption, FS_CardinalityType
<1>4. TypeOK
    BY <1>3, GPoolAssumption DEF Init, TypeOK, SendPC, DispatchPC, WorkerPC, CallerPC
<1>5. ControlInv
    BY GPoolAssumption DEF Init, ControlInv, Held, Busy
<1>6. HandshakeInv
    BY <1>2, GPoolAssumption DEF Init, HandshakeInv
<1>7. JobsConserved
    <2>1. InQueue = {} /\ InDispatch = {} /\ Running = {} /\ Enqueued = {}
        BY DEF Init, InQueue, ToSet, InDispatch, Running, Busy, Enqueued
    <2>2. IsInjective(jobQueue)
        BY DEF Init, IsInjective
    <2> QED  BY <2>1, <2>2 DEF Init, JobsConserved, Busy
<1> QED  BY <1>4, <1>5, <1>6, <1>7 DEF IInv

(* The loop of dispatch() counts the workers that have exited, so its      *)
(* counter never passes their number.                                      *)
LEMMA WorkerStoppedCounts ==
    ASSUME IInv, NEW w \in Workers, WorkerStopped(w)
    PROVE  /\ collected' = Cardinality({v \in Workers : wpc'[v] = "exited"})
           /\ collected' \in 0..Cardinality(Workers)
<1> DEFINE E == {v \in Workers : wpc[v] = "exited"}
           F == {v \in Workers : wpc'[v] = "exited"}
<1>1. F = E \cup {w} /\ w \notin E
    BY DEF IInv, TypeOK, WorkerStopped
<1>2. IsFiniteSet(E) /\ E \subseteq Workers /\ F \subseteq Workers
    BY GPoolAssumption, FS_Subset
<1>3. Cardinality(F) = Cardinality(E) + 1
    BY <1>1, <1>2, FS_AddElement
<1>4. Cardinality(F) <= Cardinality(Workers)
    BY <1>2, GPoolAssumption, FS_Subset
<1>5. Cardinality(Workers) \in Nat /\ Cardinality(E) \in Nat
    BY <1>2, GPoolAssumption, FS_CardinalityType
<1> HIDE DEF E, F
<1>6. collected' = Cardinality(E) + 1
    BY DEF IInv, HandshakeInv, WorkerStopped, E
<1>7. collected' = Cardinality(F) /\ collected' \in 0..Cardinality(Workers)
    BY <1>3, <1>4, <1>5, <1>6
<1> QED  BY <1>7 DEF F

(* Every step keeps the types; the two that need more than their own       *)
(* assignments are the sends on JobQueue, which stay within its capacity,  *)
(* and the stop loop.                                                      *)
LEMMA TypeStep == IInv /\ [Next]_vars => TypeOK'
<1> SUFFICES ASSUME IInv, [Next]_vars PROVE TypeOK'
    OBVIOUS
<1> USE GPoolAssumption DEF IInv, TypeOK, vars, sendVars, dispatchVars,
        workerVars, SendPC, DispatchPC, WorkerPC, CallerPC
<1>1. ASSUME NEW j \in Jobs, SendCount(j) PROVE TypeOK'
    BY <1>1 DEF SendCount, WgAdd, Added
<1>2. ASSUME NEW j \in Jobs, SendEnqueue(j) PROVE TypeOK'
    BY <1>2, AppendElements DEF SendEnqueue
<1>3. ASSUME NEW j \in Jobs, TimedEnqueue(j) PROVE TypeOK'
    BY <1>3, AppendElements DEF TimedEnqueue
<1>4. ASSUME NEW j \in Jobs, TimedCount(j) PROVE TypeOK'
    BY <1>4 DEF TimedCount, WgAdd, Added
<1>5. ASSUME NEW j \in Jobs, TimedExpire(j) PROVE TypeOK'
    BY <1>5 DEF TimedExpire
<1>6. ASSUME DispatchReceive PROVE TypeOK'
    BY <1>6, TailElements DEF DispatchReceive
<1>7. ASSUME NEW w \in Workers, TakeWorker(w) PROVE TypeOK'
    BY <1>7 DEF TakeWorker
<1>8. ASSUME NEW w \in Workers, Deliver(w) PROVE TypeOK'
    BY <1>8 DEF Deliver
<1>9. ASSUME NEW w \in Workers, StopWorker(w) PROVE TypeOK'
    BY <1>9 DEF StopWorker
<1>10. ASSUME NEW w \in Workers, WorkerStopped(w) PROVE TypeOK'
    BY <1>10, WorkerStoppedCounts DEF WorkerStopped
<1>11. ASSUME NEW w \in Workers, WorkerOffer(w) PROVE TypeOK'
    BY <1>11 DEF WorkerOffer
<1>12. ASSUME NEW w \in Workers, JobCallsDone(w) PROVE TypeOK'
    BY <1>12 DEF JobCallsDone, WgAdd
<1>13. ASSUME NEW w \in Workers, JobFinish(w) PROVE TypeOK'
    BY <1>13 DEF JobFinish, WgAdd, ControlInv
<1>14. ASSUME NEW c \in Callers, ReleaseCall(c) PROVE TypeOK'
    BY <1>14 DEF ReleaseCall
<1>15. ASSUME NEW c \in Callers, ReleaseStop(c) PROVE TypeOK'
    BY <1>15 DEF ReleaseStop
<1>16. ASSUME NEW c \in Callers, ReleaseReturn(c) PROVE TypeOK'
    BY <1>16 DEF ReleaseReturn
<1>17. ASSUME NEW c \in Callers, WaitAll(c) PROVE TypeOK'
    BY <1>17 DEF WaitAll
<1>18. ASSUME NEW c \in Callers, WaitWake(c) PROVE TypeOK'
    BY <1>18 DEF WaitWake
<1>19. CASE UNCHANGED vars
    BY <1>19
<1> QED  BY <1>1, <1>2, <1>3, <1>4, <1>5, <1>6, <1>7, <1>8, <1>9, <1>10,
            <1>11, <1>12, <1>13, <1>14, <1>15, <1>16, <1>17, <1>18, <1>19
        DEF Next, SendSteps, WorkerSteps, DispatchSteps, CallerSteps

(* Every step keeps what a goroutine holds in agreement with where it is:  *)
(* a worker offered on workerPool is in its select, and so is the one that *)
(* dispatch() has taken and not yet dealt with.                            *)
LEMMA ControlStep == IInv /\ [Next]_vars => ControlInv'
<1> SUFFICES ASSUME IInv, [Next]_vars PROVE ControlInv'
    OBVIOUS
<1> USE GPoolAssumption DEF IInv, TypeOK, ControlInv, Held, Busy, vars,
        sendVars, dispatchVars, workerVars
<1>1. ASSUME NEW j \in Jobs, SendCount(j) PROVE ControlInv'
    BY <1>1 DEF SendCount, WgAdd, Added
<1>2. ASSUME NEW j \in Jobs, SendEnqueue(j) PROVE ControlInv'
    BY <1>2 DEF SendEnqueue
<1>3. ASSUME NEW j \in Jobs, TimedEnqueue(j) PROVE ControlInv'
    BY <1>3 DEF TimedEnqueue
<1>4. ASSUME NEW j \in Jobs, TimedCount(j) PROVE ControlInv'
    BY <1>4 DEF TimedCount, WgAdd, Added
<1>5. ASSUME NEW j \in Jobs, TimedExpire(j) PROVE ControlInv'
    BY <1>5 DEF TimedExpire
<1>6. ASSUME DispatchReceive PROVE ControlInv'
    BY <1>6 DEF DispatchReceive
<1>7. ASSUME NEW w \in Workers, TakeWorker(w) PROVE ControlInv'
    BY <1>7 DEF TakeWorker
<1>8. ASSUME NEW w \in Workers, Deliver(w) PROVE ControlInv'
    BY <1>8 DEF Deliver
<1>9. ASSUME NEW w \in Workers, StopWorker(w) PROVE ControlInv'
    BY <1>9 DEF StopWorker
<1>10. ASSUME NEW w \in Workers, WorkerStopped(w) PROVE ControlInv'
    BY <1>10 DEF WorkerStopped
<1>11. ASSUME NEW w \in Workers, WorkerOffer(w) PROVE ControlInv'
    BY <1>11 DEF WorkerOffer
<1>12. ASSUME NEW w \in Workers, JobCallsDone(w) PROVE ControlInv'
    BY <1>12 DEF JobCallsDone, WgAdd
<1>13. ASSUME NEW w \in Workers, JobFinish(w) PROVE ControlInv'
    BY <1>13 DEF JobFinish, WgAdd
<1>14. ASSUME NEW c \in Callers, ReleaseCall(c) PROVE ControlInv'
    BY <1>14 DEF ReleaseCall
<1>15. ASSUME NEW c \in Callers, ReleaseStop(c) PROVE ControlInv'
    BY <1>15 DEF ReleaseStop
<1>16. ASSUME NEW c \in Callers, ReleaseReturn(c) PROVE ControlInv'
    BY <1>16 DEF ReleaseReturn
<1>17. ASSUME NEW c \in Callers, WaitAll(c) PROVE ControlInv'
    BY <1>17 DEF WaitAll
<1>18. ASSUME NEW c \in Callers, WaitWake(c) PROVE ControlInv'
    BY <1>18 DEF WaitWake
<1>19. CASE UNCHANGED vars
    BY <1>19
<1> QED  BY <1>1, <1>2, <1>3, <1>4, <1>5, <1>6, <1>7, <1>8, <1>9, <1>10,
            <1>11, <1>12, <1>13, <1>14, <1>15, <1>16, <1>17, <1>18, <1>19
        DEF Next, SendSteps, WorkerSteps, DispatchSteps, CallerSteps

(* Every step keeps Release, dispatch() and the stop loop together:        *)
(* dispatch() is past its select exactly while Release waits for it, and   *)
(* has returned exactly when Release has.                                  *)
LEMMA HandshakeStep == IInv /\ [Next]_vars => HandshakeInv'
<1> SUFFICES ASSUME IInv, [Next]_vars PROVE HandshakeInv'
    OBVIOUS
<1> USE GPoolAssumption DEF IInv, TypeOK, HandshakeInv, vars, sendVars,
        dispatchVars, workerVars
<1>1. ASSUME NEW j \in Jobs, SendCount(j) PROVE HandshakeInv'
    BY <1>1 DEF SendCount, WgAdd, Added
<1>2. ASSUME NEW j \in Jobs, SendEnqueue(j) PROVE HandshakeInv'
    BY <1>2 DEF SendEnqueue
<1>3. ASSUME NEW j \in Jobs, TimedEnqueue(j) PROVE HandshakeInv'
    BY <1>3 DEF TimedEnqueue
<1>4. ASSUME NEW j \in Jobs, TimedCount(j) PROVE HandshakeInv'
    BY <1>4 DEF TimedCount, WgAdd, Added
<1>5. ASSUME NEW j \in Jobs, TimedExpire(j) PROVE HandshakeInv'
    BY <1>5 DEF TimedExpire
<1>6. ASSUME DispatchReceive PROVE HandshakeInv'
    BY <1>6 DEF DispatchReceive
<1>7. ASSUME NEW w \in Workers, TakeWorker(w) PROVE HandshakeInv'
    BY <1>7 DEF TakeWorker
<1>8. ASSUME NEW w \in Workers, Deliver(w) PROVE HandshakeInv'
    BY <1>8 DEF Deliver, ControlInv, Held
<1>9. ASSUME NEW w \in Workers, StopWorker(w) PROVE HandshakeInv'
    BY <1>9 DEF StopWorker
<1>10. ASSUME NEW w \in Workers, WorkerStopped(w) PROVE HandshakeInv'
    BY <1>10, WorkerStoppedCounts DEF WorkerStopped
<1>11. ASSUME NEW w \in Workers, WorkerOffer(w) PROVE HandshakeInv'
    BY <1>11 DEF WorkerOffer
<1>12. ASSUME NEW w \in Workers, JobCallsDone(w) PROVE HandshakeInv'
    BY <1>12 DEF JobCallsDone, WgAdd
<1>13. ASSUME NEW w \in Workers, JobFinish(w) PROVE HandshakeInv'
    BY <1>13 DEF JobFinish, WgAdd, Busy
<1>14. ASSUME NEW c \in Callers, ReleaseCall(c) PROVE HandshakeInv'
    BY <1>14 DEF ReleaseCall
<1>15. ASSUME NEW c \in Callers, ReleaseStop(c) PROVE HandshakeInv'
    BY <1>15 DEF ReleaseStop
<1>16. ASSUME NEW c \in Callers, ReleaseReturn(c) PROVE HandshakeInv'
    BY <1>16 DEF ReleaseReturn
<1>17. ASSUME NEW c \in Callers, WaitAll(c) PROVE HandshakeInv'
    BY <1>17 DEF WaitAll
<1>18. ASSUME NEW c \in Callers, WaitWake(c) PROVE HandshakeInv'
    BY <1>18 DEF WaitWake
<1>19. CASE UNCHANGED vars
    BY <1>19
<1> QED  BY <1>1, <1>2, <1>3, <1>4, <1>5, <1>6, <1>7, <1>8, <1>9, <1>10,
            <1>11, <1>12, <1>13, <1>14, <1>15, <1>16, <1>17, <1>18, <1>19
        DEF Next, SendSteps, WorkerSteps, DispatchSteps, CallerSteps

-----------------------------------------------------------------------------
(* Jobs are conserved *)

(* Every step keeps each submitted job at one place. A job enters the queue*)
(* from a call that had not enqueued it, and moves from the queue to       *)
(* dispatch(), to one worker, to finished; no other step moves a job.      *)
LEMMA ConservedStep == IInv /\ [Next]_vars => JobsConserved'
<1> SUFFICES ASSUME IInv, [Next]_vars PROVE JobsConserved'
    OBVIOUS
<1>1. ASSUME NEW j \in Jobs, SendEnqueue(j) PROVE JobsConserved'
    <2>1. /\ j \notin InQueue => IsInjective(jobQueue')
          /\ InQueue' = InQueue \cup {j}
        BY <1>1, AppendElements DEF SendEnqueue, IInv, TypeOK, JobsConserved, InQueue
    <2>2. Enqueued' = Enqueued \cup {j} /\ j \notin Enqueued
        BY <1>1 DEF SendEnqueue, IInv, TypeOK, Enqueued
    <2>3. InDispatch' = InDispatch /\ Running' = Running /\ finished' = finished
        BY <1>1 DEF SendEnqueue, InDispatch, Running, dispatchVars, workerVars
    <2> QED  BY <1>1, <2>1, <2>2, <2>3 DEF SendEnqueue, IInv, JobsConserved, Busy, workerVars
<1>2. ASSUME NEW j \in Jobs, TimedEnqueue(j) PROVE JobsConserved'
    <2>1. /\ j \notin InQueue => IsInjective(jobQueue')
          /\ InQueue' = InQueue \cup {j}
        BY <1>2, AppendElements DEF TimedEnqueue, IInv, TypeOK, JobsConserved, InQueue
    <2>2. Enqueued' = Enqueued \cup {j} /\ j \notin Enqueued
        BY <1>2 DEF TimedEnqueue, IInv, TypeOK, Enqueued
    <2>3. InDispatch' = InDispatch /\ Running' = Running /\ finished' = finished
        BY <1>2 DEF TimedEnqueue, InDispatch, Running, dispatchVars, workerVars
    <2> QED  BY <1>2, <2>1, <2>2, <2>3 DEF TimedEnqueue, IInv, JobsConserved, Busy, workerVars
<1>3. ASSUME DispatchReceive PROVE JobsConserved'
    <2>1. /\ InQueue = InQueue' \cup {Head(jobQueue)}
          /\ Head(jobQueue) \notin InQueue' /\ IsInjective(jobQueue')
        BY <1>3, TailElements DEF DispatchReceive, IInv, TypeOK, JobsConserved, InQueue
    <2>2. InDispatch = {} /\ InDispatch' = {Head(jobQueue)}
        BY <1>3 DEF DispatchReceive, InDispatch
    <2>3. Enqueued' = Enqueued /\ Running' = Running /\ finished' = finished
        BY <1>3 DEF DispatchReceive, Enqueued, Running, workerVars
    <2> QED  BY <1>3, <2>1, <2>2, <2>3 DEF DispatchReceive, IInv, JobsConserved, Busy, workerVars
<1> USE GPoolAssumption DEF IInv, TypeOK, ControlInv, JobsConserved, Held,
        Busy, InQueue, InDispatch, Running, Enqueued, vars, sendVars,
        dispatchVars, workerVars
<1>4. ASSUME NEW j \in Jobs, SendCount(j) PROVE JobsConserved'
    BY <1>4 DEF SendCount, WgAdd, Added
<1>5. ASSUME NEW j \in Jobs, TimedCount(j) PROVE JobsConserved'
    BY <1>5 DEF TimedCount, WgAdd, Added
<1>6. ASSUME NEW j \in Jobs, TimedExpire(j) PROVE JobsConserved'
    BY <1>6 DEF TimedExpire
<1>7. ASSUME NEW w \in Workers, TakeWorker(w) PROVE JobsConserved'
    BY <1>7 DEF TakeWorker
<1>8. ASSUME NEW w \in Workers, Deliver(w) PROVE JobsConserved'
    BY <1>8 DEF Deliver
<1>9. ASSUME NEW w \in Workers, StopWorker(w) PROVE JobsConserved'
    BY <1>9 DEF StopWorker
<1>10. ASSUME NEW w \in Workers, WorkerStopped(w) PROVE JobsConserved'
    BY <1>10 DEF WorkerStopped
<1>11. ASSUME NEW w \in Workers, WorkerOffer(w) PROVE JobsConserved'
    BY <1>11 DEF WorkerOffer
<1>12. ASSUME NEW w \in Workers, JobCallsDone(w) PROVE JobsConserved'
    BY <1>12 DEF JobCallsDone, WgAdd
<1>13. ASSUME NEW w \in Workers, JobFinish(w) PROVE JobsConserved'
    BY <1>13 DEF JobFinish, WgAdd
<1>14. ASSUME NEW c \in Callers, ReleaseCall(c) PROVE JobsConserved'
    BY <1>14 DEF ReleaseCall
<1>15. ASSUME NEW c \in Callers, ReleaseStop(c) PROVE JobsConserved'
    BY <1>15 DEF ReleaseStop
<1>16. ASSUME NEW c \in Callers, ReleaseReturn(c) PROVE JobsConserved'
    BY <1>16 DEF ReleaseReturn
<1>17. ASSUME NEW c \in Callers, WaitAll(c) PROVE JobsConserved'
    BY <1>17 DEF WaitAll
<1>18. ASSUME NEW c \in Callers, WaitWake(c) PROVE JobsConserved'
    BY <1>18 DEF WaitWake
<1>19. CASE UNCHANGED vars
    BY <1>19
<1> QED  BY <1>1, <1>2, <1>3, <1>4, <1>5, <1>6, <1>7, <1>8, <1>9, <1>10,
            <1>11, <1>12, <1>13, <1>14, <1>15, <1>16, <1>17, <1>18, <1>19
        DEF Next, SendSteps, WorkerSteps, DispatchSteps, CallerSteps

-----------------------------------------------------------------------------
(* The WaitGroup counts right *)

(* The sets of jobs the counter is compared with are finite.               *)
LEMMA FiniteJobSets ==
    ASSUME IInv
    PROVE  /\ IsFiniteSet(Counted) /\ IsFiniteSet(finished) /\ IsFiniteSet(SelfDone)
           /\ Cardinality(Counted) \in Nat
           /\ Cardinality(finished) \in Nat
           /\ Cardinality(SelfDone) \in Nat
<1>1. Counted \subseteq Jobs /\ finished \subseteq Jobs /\ SelfDone \subseteq Jobs
    BY DEF IInv, TypeOK, ControlInv, Counted, SelfDone, Busy
<1> QED  BY <1>1, GPoolAssumption, FS_Subset, FS_CardinalityType

(* Every step keeps the counter exact: WaitCount counts a job that was not *)
(* counted, and JobDone is called for a job that was not yet done, because *)
(* the job is in one worker only and not among the finished.               *)
LEMMA CountStep == IInv /\ CountExact /\ [Next]_vars => CountExact'
<1> SUFFICES ASSUME IInv /\ CountExact, [Next]_vars PROVE CountExact'
    OBVIOUS
<1>1. ASSUME NEW j \in Jobs, SendCount(j) PROVE CountExact'
    <2>1. Counted' = Counted \cup {j} /\ j \notin Counted
        BY <1>1 DEF SendCount, Added, IInv, TypeOK, Counted
    <2>2. Cardinality(Counted') = Cardinality(Counted) + 1
        BY <2>1, FiniteJobSets, FS_AddElement DEF IInv
    <2>3. finished' = finished /\ SelfDone' = SelfDone /\ count' = count + 1
        BY <1>1 DEF SendCount, WgAdd, SelfDone, workerVars
    <2> QED  BY <2>2, <2>3, FiniteJobSets DEF IInv, CountExact
<1>2. ASSUME NEW j \in Jobs, TimedCount(j) PROVE CountExact'
    <2>1. Counted' = Counted \cup {j} /\ j \notin Counted
        BY <1>2 DEF TimedCount, Added, IInv, TypeOK, Counted
    <2>2. Cardinality(Counted') = Cardinality(Counted) + 1
        BY <2>1, FiniteJobSets, FS_AddElement DEF IInv
    <2>3. finished' = finished /\ SelfDone' = SelfDone /\ count' = count + 1
        BY <1>2 DEF TimedCount, WgAdd, SelfDone, workerVars
    <2> QED  BY <2>2, <2>3, FiniteJobSets DEF IInv, CountExact
<1>3. ASSUME NEW w \in Workers, JobCallsDone(w) PROVE CountExact'
    <2>1. SelfDone' = SelfDone \cup {wjob[w]}
        BY <1>3 DEF JobCallsDone, IInv, TypeOK, SelfDone
    <2>2. wjob[w] \notin SelfDone
        BY <1>3 DEF JobCallsDone, IInv, JobsConserved, Running, Busy, SelfDone
    <2>3. Cardinality(SelfDone') = Cardinality(SelfDone) + 1
        BY <2>1, <2>2, FiniteJobSets, FS_AddElement
    <2>4. finished' = finished /\ Counted' = Counted /\ count' = count - 1
        BY <1>3 DEF JobCallsDone, WgAdd, Counted, IInv, TypeOK
    <2> QED  BY <2>3, <2>4, FiniteJobSets DEF CountExact
<1>4. ASSUME NEW w \in Workers, JobFinish(w) PROVE CountExact'
    <2>1. SelfDone' = SelfDone
        BY <1>4 DEF JobFinish, IInv, TypeOK, ControlInv, Busy, SelfDone
    <2>2. finished' = finished \cup {wjob[w]} /\ wjob[w] \notin finished
        BY <1>4 DEF JobFinish, IInv, JobsConserved, Running
    <2>3. Cardinality(finished') = Cardinality(finished) + 1
        BY <2>2, FiniteJobSets, FS_AddElement
    <2>4. Counted' = Counted /\ count' = count - 1
        BY <1>4 DEF JobFinish, WgAdd, Counted, IInv, TypeOK
    <2> QED  BY <2>1, <2>3, <2>4, FiniteJobSets DEF CountExact
<1> USE DEF IInv, TypeOK, ControlInv, CountExact, SelfDone, Counted, vars,
        sendVars, dispatchVars, workerVars
<1>5. ASSUME NEW j \in Jobs, SendEnqueue(j) PROVE CountExact'
    BY <1>5 DEF SendEnqueue
<1>6. ASSUME NEW j \in Jobs, TimedEnqueue(j) PROVE CountExact'
    BY <1>6 DEF TimedEnqueue
<1>7. ASSUME NEW j \in Jobs, TimedExpire(j) PROVE CountExact'
    BY <1>7 DEF TimedExpire
<1>8. ASSUME DispatchReceive PROVE CountExact'
    BY <1>8 DEF DispatchReceive
<1>9. ASSUME NEW w \in Workers, TakeWorker(w) PROVE CountExact'
    BY <1>9 DEF TakeWorker
<1>10. ASSUME NEW w \in Workers, Deliver(w) PROVE CountExact'
    BY <1>10 DEF Deliver
<1>11. ASSUME NEW w \in Workers, StopWorker(w) PROVE CountExact'
    BY <1>11 DEF StopWorker
<1>12. ASSUME NEW w \in Workers, WorkerStopped(w) PROVE CountExact'
    BY <1>12 DEF WorkerStopped
<1>13. ASSUME NEW w \in Workers, WorkerOffer(w) PROVE CountExact'
    BY <1>13 DEF WorkerOffer
<1>14. ASSUME NEW c \in Callers, ReleaseCall(c) PROVE CountExact'
    BY <1>14 DEF ReleaseCall
<1>15. ASSUME NEW c \in Callers, ReleaseStop(c) PROVE CountExact'
    BY <1>15 DEF ReleaseStop
<1>16. ASSUME NEW c \in Callers, ReleaseReturn(c) PROVE CountExact'
    BY <1>16 DEF ReleaseReturn
<1>17. ASSUME NEW c \in Callers, WaitAll(c) PROVE CountExact'
    BY <1>17 DEF WaitAll
<1>18. ASSUME NEW c \in Callers, WaitWake(c) PROVE CountExact'
    BY <1>18 DEF WaitWake
<1>19. CASE UNCHANGED vars
    BY <1>19
<1> QED  BY <1>1, <1>2, <1>3, <1>4, <1>5, <1>6, <1>7, <1>8, <1>9, <1>10,
            <1>11, <1>12, <1>13, <1>14, <1>15, <1>16, <1>17, <1>18, <1>19
        DEF Next, SendSteps, WorkerSteps, DispatchSteps, CallerSteps

-----------------------------------------------------------------------------
(* The theorems *)

(* IInv holds in every reachable state.                                    *)
LEMMA Invariance == SafeSpec => []IInv
<1>1. Init => IInv
    BY InitInv
<1>2. IInv /\ [Next]_vars => IInv'
    BY TypeStep, ControlStep, HandshakeStep, ConservedStep DEF IInv
<1> QED  BY <1>1, <1>2, PTL DEF SafeSpec

(* Every variable of the pool keeps its type; in particular JobQueue never *)
(* holds more than its capacity and dispatch()'s stop loop never runs past *)
(* the number of workers.                                                  *)
THEOREM TypeCorrect == SafeSpec => []TypeOK
<1>1. IInv => TypeOK
    BY DEF IInv
<1> QED  BY <1>1, Invariance, PTL

(* No interleaving of submitters, dispatch(), the workers and Release      *)
(* loses a job that reached JobQueue, or runs it twice.                    *)
THEOREM NoJobLostOrRepeated == SafeSpec => []JobsConserved
<1>1. IInv => JobsConserved
    BY DEF IInv
<1> QED  BY <1>1, Invariance, PTL

(* The stop loop ends when it has stopped every worker.                    *)
LEMMA AllExited ==
    ASSUME IInv, collected = Cardinality(Workers)
    PROVE  \A w \in Workers : wpc[w] = "exited"
<1> DEFINE E == {w \in Workers : wpc[w] = "exited"}
<1>1. Cardinality(E) = Cardinality(Workers)
    BY DEF IInv, HandshakeInv
<1>2. E = Workers
    BY <1>1, GPoolAssumption, FS_Subset
<1> QED  BY <1>2

(* Once Release has returned to the framework's shutdown no worker is left *)
(* and none of the pool's goroutines runs.                                 *)
THEOREM ReleaseLeavesNothingRunning == SafeSpec => []ReleaseQuiesces
<1>1. IInv => ReleaseQuiesces
    BY AllExited DEF IInv, HandshakeInv, ReleaseQuiesces
<1> QED  BY <1>1, Invariance, PTL

(* The WaitGroup's counter is exact: WaitCount and JobDone are paired for  *)
(* every job, whenever the two happen.                                     *)
THEOREM WaitGroupExact == SafeSpec => []CountExact
<1>1. Init => CountExact
    <2> SUFFICES ASSUME Init PROVE CountExact
        OBVIOUS
    <2>2. Counted = {} /\ finished = {} /\ count = 0
        BY DEF Init, Counted
    <2>3. SelfDone = {}
        BY <2>2 DEF Init, SelfDone
    <2> QED  BY <2>2, <2>3, FS_EmptySet DEF CountExact
<1> QED  BY <1>1, CountStep, Invariance, PTL DEF SafeSpec

(* Under plain use the counter is the number of jobs counted and not yet   *)
(* finished, and so never negative.                                        *)
LEMMA PlainUseCounts ==
    ASSUME IInv, CountExact, PlainUse
    PROVE  /\ finished \subseteq Counted
           /\ count = Cardinality(Counted) - Cardinality(finished)
           /\ count \in Nat
<1>1. finished \subseteq Enqueued /\ Running \subseteq Enqueued
    BY DEF IInv, JobsConserved
<1>2. SelfDone = {}
    BY <1>1 DEF PlainUse, SelfDone, Running, Busy, IInv, ControlInv
<1>3. finished \subseteq Counted
    BY <1>1 DEF IInv, ControlInv, PlainUse, Enqueued, Counted
<1>4. /\ Cardinality(SelfDone) = 0
      /\ Cardinality(finished) <= Cardinality(Counted)
    BY <1>2, <1>3, FiniteJobSets, FS_EmptySet, FS_Subset
<1> QED  BY <1>3, <1>4, FiniteJobSets DEF CountExact

(* A WaitAll that returns finds every job counted so far finished, as long *)
(* as jobs are submitted with SendJob and leave JobDone to the pool.       *)
THEOREM WaitAllIsSound == SafeSpec => WaitAllSound
<1>1. ASSUME IInv, CountExact, PlainUse, count = 0
      PROVE  Counted \subseteq finished
    <2>1. /\ finished \subseteq Counted
          /\ 0 = Cardinality(Counted) - Cardinality(finished)
        BY <1>1, PlainUseCounts
    <2>2. Cardinality(Counted) = Cardinality(finished)
        BY <1>1, <2>1, FiniteJobSets
    <2> QED  BY <1>1, <2>1, <2>2, FiniteJobSets, FS_Subset
<1>2. ASSUME IInv, CountExact, Next, PlainUse, NEW c \in Callers,
             caller[c] # "returned", caller'[c] = "returned"
      PROVE  count = 0
    <2>1. \A delta \in Int : ~WgAdd(delta)
        BY <1>2 DEF WgAdd, IInv, TypeOK
    <2>2. caller' # caller
        BY <1>2
    <2>3. ASSUME NEW j \in Jobs,
                 SendCount(j) \/ TimedEnqueue(j) \/ TimedExpire(j) \/ SendSteps(j)
          PROVE  FALSE
        BY <2>1, <2>2, <2>3
        DEF SendCount, SendEnqueue, TimedEnqueue, TimedCount, TimedExpire, SendSteps
    <2>4. ~DispatchReceive
        BY <2>2 DEF DispatchReceive
    <2>5. ASSUME NEW w \in Workers, WorkerSteps(w) PROVE FALSE
        BY <2>1, <2>2, <2>5 DEF WorkerSteps, WorkerOffer, JobCallsDone, JobFinish
    <2>6. ASSUME NEW w \in Workers, DispatchSteps(w) PROVE FALSE
        BY <2>2, <2>6 DEF DispatchSteps, TakeWorker, Deliver, StopWorker, WorkerStopped
    <2>7. ASSUME NEW d \in Callers, ReleaseCall(d) \/ ReleaseStop(d) \/ ReleaseReturn(d)
          PROVE  FALSE
        BY <1>2, <2>7 DEF ReleaseCall, ReleaseStop, ReleaseReturn, IInv, TypeOK
    <2>8. ASSUME NEW d \in Callers, WaitAll(d) \/ WaitWake(d) PROVE count = 0
        BY <1>2, <2>8 DEF WaitAll, WaitWake, IInv, TypeOK, CallerPC
    <2> QED  BY <1>2, <2>3, <2>4, <2>5, <2>6, <2>7, <2>8 DEF Next, CallerSteps
<1>3. IInv /\ CountExact /\ [Next]_vars =>
         [\A c \in Callers :
             PlainUse /\ caller[c] # "returned" /\ caller'[c] = "returned" =>
                 Counted \subseteq finished]_vars
    BY <1>1, <1>2
<1> QED  BY <1>3, Invariance, WaitGroupExact, PTL DEF SafeSpec, WaitAllSound

(* Under plain use the shutdown's WaitAll is never woken, because no worker *)
(* is left to call JobDone: it finds the counter at zero or blocks, and so *)
(* cannot meet a counter that has moved on, which is what would panic.     *)
(* While nobody else waits, no submission panics either: the counter is    *)
(* that of the jobs counted and not done, so a WaitCount(1) leaves it      *)
(* above zero, and no waiter is being released when it comes.              *)
THEOREM ShutdownIsSafe == SafeSpec => []ShutdownNeverPanics
<1> DEFINE Alone == \A c \in Callers \ {Closer} : caller[c] = "idle"
           PanicFree ==
        /\ \A j \in Jobs : send[j] = "panicked" => j \in TimedJobs
        /\ PlainUse => caller[Closer] \notin {"woken", "panicked"}
        /\ PlainUse /\ Alone => \A j \in Jobs : send[j] # "countPanicked"
<1>1. Init => PanicFree
    BY GPoolAssumption DEF Init
<1>2. ASSUME IInv, CountExact, PanicFree, [Next]_vars PROVE PanicFree'
    <2> USE <1>2, GPoolAssumption DEF PlainUse, Enqueued, Counted, IInv, TypeOK, vars,
            sendVars, dispatchVars, workerVars
    <2>1. ASSUME NEW j \in Jobs, SendCount(j) PROVE PanicFree'
        <3>1. PlainUse' => PlainUse
            BY <2>1 DEF SendCount
        <3>2. PlainUse => count \in Nat
            <4> HIDE DEF PlainUse, Counted, IInv
            <4> QED  BY PlainUseCounts
        <3>3. /\ \A c \in Callers : caller'[c] # caller[c] => count + 1 = 0
              /\ send' = [send EXCEPT ![j] = "counted"]
                 \/ /\ send' = [send EXCEPT ![j] = "countPanicked"]
                    /\ count + 1 < 0 \/ \E c \in Callers : caller[c] = "woken"
            BY <2>1 DEF SendCount, WgAdd, Added
        <3>4. PlainUse => UNCHANGED caller
            BY <3>2, <3>3, <2>1 DEF SendCount, WgAdd, Added
        <3>5. ASSUME PlainUse, Alone PROVE send' = [send EXCEPT ![j] = "counted"]
            BY <3>2, <3>3, <3>5
        <3>6. (\A i \in Jobs : send[i] = "panicked" => i \in TimedJobs)'
            BY <3>3
        <3> QED  BY <3>1, <3>3, <3>4, <3>5, <3>6
    <2>2. ASSUME NEW w \in Workers, JobCallsDone(w) \/ JobFinish(w) PROVE PanicFree'
        <3>1. caller[Closer] # "blocked"
            BY <2>2, AllExited DEF JobCallsDone, JobFinish, Busy, HandshakeInv
        <3>2. UNCHANGED send
            BY <2>2 DEF JobCallsDone, JobFinish
        <3>3. /\ caller'[Closer] = caller[Closer]
              /\ Alone' => Alone
            BY <2>2, <3>1 DEF JobCallsDone, JobFinish, WgAdd
        <3> QED  BY <3>2, <3>3
    <2>3. ASSUME NEW j \in Jobs, SendEnqueue(j) \/ TimedEnqueue(j) \/ TimedExpire(j)
          PROVE  PanicFree'
        BY <2>3 DEF SendEnqueue, TimedEnqueue, TimedExpire
    <2>4. ASSUME NEW j \in Jobs, TimedCount(j) PROVE PanicFree'
        <3>1. j \in TimedJobs /\ ~PlainUse'
            BY <2>4 DEF TimedCount, Added, ControlInv
        <3>2. \A i \in Jobs \ {j} : send'[i] = send[i]
            BY <2>4 DEF TimedCount
        <3> QED  BY <3>1, <3>2
    <2>5. CASE DispatchReceive
        BY <2>5 DEF DispatchReceive
    <2>6. ASSUME NEW w \in Workers, DispatchSteps(w) \/ WorkerOffer(w) PROVE PanicFree'
        BY <2>6 DEF DispatchSteps, TakeWorker, Deliver, StopWorker, WorkerStopped, WorkerOffer
    <2>7. ASSUME NEW c \in Callers, ReleaseCall(c) \/ WaitAll(c) \/ CallerSteps(c)
          PROVE  PanicFree'
        <3>1. /\ UNCHANGED send
              /\ Alone' => Alone
              /\ caller[Closer] \notin {"woken", "panicked"} =>
                    caller'[Closer] \notin {"woken", "panicked"}
            BY <2>7 DEF ReleaseCall, WaitAll, CallerSteps, ReleaseStop, ReleaseReturn, WaitWake
        <3> QED  BY <3>1
    <2>8. CASE UNCHANGED vars
        BY <2>8
    <2> QED  BY <2>1, <2>2, <2>3, <2>4, <2>5, <2>6, <2>7, <2>8
            DEF Next, SendSteps, WorkerSteps
<1>3. ASSUME PanicFree PROVE ShutdownNeverPanics
    <2> SUFFICES ASSUME PlainUse
                 PROVE  /\ caller[Closer] # "panicked"
                        /\ Alone => Alive
        BY DEF ShutdownNeverPanics
    <2>1. \A j \in Jobs : send[j] # "panicked"
        BY <1>3 DEF PlainUse, Counted
    <2> QED  BY <1>3, <2>1 DEF Alive
<1>4. SafeSpec => []CountExact
    BY WaitGroupExact
<1> QED  BY <1>1, <1>2, <1>3, <1>4, Invariance, PTL DEF SafeSpec
-----------------------------------------------------------------------------
(***************************************************************************)
(* The refinement of JobPool.  It maps dispatch()'s job in hand and the    *)
(* queue to JobPool's pending jobs.                                        *)
(***************************************************************************)

(* The pending jobs of JobPool, as the instance Promise maps them.         *)
Pending == (IF InDispatch = {} THEN <<>> ELSE <<djob>>) \o jobQueue
Mode == IF ~Alive THEN "crashed" ELSE IF dpc = "exited" THEN "closed" ELSE "open"

-----------------------------------------------------------------------------
(* The mapping *)

(* With no job in hand, the pending jobs are the queue; otherwise the job  *)
(* in hand comes before them.                                              *)
LEMMA PendingShape ==
    ASSUME IInv
    PROVE  /\ InDispatch = {} => Pending = jobQueue
           /\ InDispatch # {} => /\ djob \in Jobs
                                 /\ Len(Pending) = Len(jobQueue) + 1
                                 /\ Pending # <<>>
                                 /\ Head(Pending) = djob
                                 /\ Tail(Pending) = jobQueue
           /\ \A j \in Jobs : Append(Pending, j) =
                 (IF InDispatch = {} THEN <<>> ELSE <<djob>>) \o Append(jobQueue, j)
           /\ Len(Pending) <= Len(jobQueue) + 1
           /\ Pending \in Seq(Jobs)
<1> USE DEF IInv, TypeOK
<1>1. CASE InDispatch = {}
    BY <1>1 DEF Pending
<1>2. CASE InDispatch # {}
    <2>1. djob \in Jobs
        BY <1>2 DEF ControlInv, InDispatch
    <2> QED  BY <1>2, <2>1 DEF Pending
<1> QED  BY <1>1, <1>2

(* The jobs JobPool has accepted are those that reached JobQueue.          *)
LEMMA AcceptedJobs ==
    ASSUME IInv
    PROVE  {Pending[i] : i \in DOMAIN Pending} \cup Running \cup finished = Enqueued
<1>1. {Pending[i] : i \in DOMAIN Pending} = InDispatch \cup InQueue
    <2>1. CASE InDispatch = {}
        BY <2>1, PendingShape DEF InQueue, ToSet
    <2>2. CASE InDispatch # {}
        <3>1. /\ Pending \in Seq(Jobs) /\ Pending # <<>>
              /\ InDispatch = {Head(Pending)}
              /\ Tail(Pending) = jobQueue
            BY <2>2, PendingShape DEF InDispatch
        <3>2. ToSet(Pending) = ToSet(jobQueue) \cup {Head(Pending)}
            BY <3>1, TailElements
        <3> QED  BY <3>1, <3>2 DEF ToSet, InQueue
    <2> QED  BY <2>1, <2>2
<1> QED  BY <1>1 DEF IInv, JobsConserved

(* With a worker to spare, fewer jobs are executing than there are workers, *)
(* because no two workers execute the same job.                            *)
LEMMA SpareWorker ==
    ASSUME IInv, NEW w \in Workers, wpc[w] \notin Busy
    PROVE  Cardinality(Running) < Cardinality(Workers)
<1> DEFINE B == {v \in Workers : wpc[v] \in Busy}
           f == [v \in B |-> wjob[v]]
<1>1. /\ IsFiniteSet(B) /\ IsFiniteSet(Workers \ {w})
      /\ B \in SUBSET (Workers \ {w})
      /\ Cardinality(B) <= Cardinality(Workers \ {w})
      /\ Cardinality(Workers \ {w}) = Cardinality(Workers) - 1
      /\ Cardinality(Workers) \in Nat /\ Cardinality(B) \in Nat
    BY GPoolAssumption, FS_Subset, FS_RemoveElement, FS_CardinalityType
<1>2. f \in Bijection(B, Running)
    <2>1. f \in [B -> Running] /\ \A j \in Running : \E v \in B : f[v] = j
        BY DEF Running
    <2>2. IsInjective(f)
        BY DEF IInv, JobsConserved, IsInjective
    <2> QED  BY <2>1, <2>2 DEF Bijection, Injection, Surjection
<1>3. Cardinality(Running) = Cardinality(B)
    BY <1>1, <1>2, FS_Bijection DEF ExistsBijection
<1> QED  BY <1>1, <1>3

-----------------------------------------------------------------------------
(* The steps *)

(* The instance counts as FiniteSets does.                                 *)
LEMMA PromiseCardinality == Promise!Cardinality(Running) = Cardinality(Running)
BY DEF Promise!Cardinality, Cardinality

(* The instance with its mapping unfolded, to be cited instead of it.      *)
LEMMA PromiseSteps ==
    /\ \A j \in Jobs : Promise!Accept(j) <=>
          /\ Mode # "crashed"
          /\ j \notin {Pending[i] : i \in DOMAIN Pending} \cup Running \cup finished
          /\ Len(Pending) < QueueLen + 1
          /\ Pending' = Append(Pending, j)
          /\ UNCHANGED <<Running, finished, Mode>>
    /\ Promise!Start <=>
          /\ Mode = "open"
          /\ Pending # <<>>
          /\ Cardinality(Running) < Cardinality(Workers)
          /\ Running' = Running \cup {Head(Pending)}
          /\ Pending' = Tail(Pending)
          /\ UNCHANGED <<finished, Mode>>
    /\ \A j \in Jobs : Promise!Finish(j) <=>
          /\ Mode = "open"
          /\ j \in Running
          /\ Running' = Running \ {j}
          /\ finished' = finished \cup {j}
          /\ UNCHANGED <<Pending, Mode>>
    /\ Promise!Close <=>
          /\ Mode = "open"
          /\ Running = {}
          /\ Mode' = "closed"
          /\ UNCHANGED <<Pending, Running, finished>>
    /\ Promise!Crash <=>
          /\ Mode # "crashed"
          /\ Mode' = "crashed"
          /\ UNCHANGED <<Pending, Running, finished>>
    /\ UNCHANGED Promise!vars <=> UNCHANGED <<Pending, Running, finished, Mode>>
    /\ Promise!Init <=> Pending = <<>> /\ Running = {} /\ finished = {} /\ Mode = "open"
BY PromiseCardinality
   DEF Promise!Accept, Promise!Accepted, Promise!Start, Promise!Finish, Promise!Close,
       Promise!Crash, Promise!vars, Promise!Init, Pending, Mode

(* A step that leaves the queue, dispatch()'s hand, the jobs executing,    *)
(* the finished ones and the life of the process alone is a stutter.       *)
LEMMA Stutter ==
    ASSUME UNCHANGED <<jobQueue, InDispatch, djob, Running, finished, Mode>>
    PROVE  UNCHANGED Promise!vars
<1>1. UNCHANGED Pending
    BY DEF Pending
<1> QED  BY <1>1, PromiseSteps

(* Every step of the pool is a step of JobPool or a stutter: the sends on  *)
(* JobQueue accept, handing a job to a worker starts it, the wrapper's     *)
(* return finishes it, Release's return closes, and a panic of the         *)
(* WaitGroup outside a job is the crash.                                   *)
LEMMA StepRefines ==
    IInv /\ IInv' /\ [Next]_vars => [Promise!Next]_(Promise!vars)
<1> SUFFICES ASSUME IInv, IInv', [Next]_vars
             PROVE  Promise!Next \/ UNCHANGED Promise!vars
    OBVIOUS
<1> USE DEF IInv, TypeOK, sendVars, dispatchVars, workerVars
<1>1. ASSUME NEW j \in Jobs, SendEnqueue(j) \/ TimedEnqueue(j) PROVE Promise!Next
    <2>1. /\ j \notin Enqueued
          /\ Len(jobQueue) < QueueLen
          /\ jobQueue' = Append(jobQueue, j)
          /\ UNCHANGED <<InDispatch, djob, Running, finished>>
        <3>1. /\ Len(jobQueue) < QueueLen
              /\ jobQueue' = Append(jobQueue, j)
              /\ UNCHANGED <<dpc, djob, wpc, wjob, finished>>
            BY <1>1 DEF SendEnqueue, TimedEnqueue
        <3>2. UNCHANGED <<InDispatch, Running>>
            BY <3>1 DEF InDispatch, Running
        <3>3. j \notin Enqueued
            BY <1>1 DEF SendEnqueue, TimedEnqueue, Enqueued
        <3> QED  BY <3>1, <3>2, <3>3
    <2>2. Alive /\ Alive' /\ dpc' = dpc
        BY <1>1 DEF SendEnqueue, TimedEnqueue, Alive
    <2>3. UNCHANGED Mode /\ Mode # "crashed"
        BY <2>2 DEF Mode
    <2>4. Pending' = Append(Pending, j)
        <3>1. Append(Pending, j) =
                 (IF InDispatch = {} THEN <<>> ELSE <<djob>>) \o Append(jobQueue, j)
            BY PendingShape
        <3>2. Pending' = (IF InDispatch' = {} THEN <<>> ELSE <<djob'>>) \o jobQueue'
            BY DEF Pending
        <3> QED  BY <2>1, <3>1, <3>2
    <2>5. Len(Pending) < QueueLen + 1
        BY <2>1, PendingShape, GPoolAssumption
    <2>6. Promise!Accept(j)
        BY <2>1, <2>3, <2>4, <2>5, AcceptedJobs, PromiseSteps
    <2> QED  BY <2>6 DEF Promise!Next
<1>2. CASE DispatchReceive
    <2>1. /\ InDispatch = {} /\ InDispatch' = {djob'}
          /\ djob' = Head(jobQueue) /\ jobQueue' = Tail(jobQueue) /\ jobQueue # <<>>
          /\ UNCHANGED <<Running, finished, Mode>>
        BY <1>2 DEF DispatchReceive, InDispatch, Running, Mode, Alive
    <2>2. Pending = jobQueue /\ Pending' = <<djob'>> \o jobQueue'
        BY <2>1, PendingShape DEF Pending
    <2>3. Pending' = Pending
        BY <2>1, <2>2
    <2> QED  BY <2>1, <2>3, PromiseSteps
<1>3. ASSUME NEW w \in Workers, Deliver(w) PROVE Promise!Next
    <2>1. /\ InDispatch = {djob} /\ InDispatch' = {}
          /\ UNCHANGED <<jobQueue, finished, Mode>>
          /\ Mode = "open"
        BY <1>3 DEF Deliver, InDispatch, Mode, Alive
    <2>2. /\ Pending # <<>> /\ Head(Pending) = djob
          /\ Pending' = Tail(Pending)
        BY <2>1, PendingShape DEF Pending
    <2>3. Running' = Running \cup {djob}
        BY <1>3 DEF Deliver, Running, Busy
    <2>4. Cardinality(Running) < Cardinality(Workers)
        BY <1>3, SpareWorker DEF Deliver, Busy
    <2>5. Promise!Start
        BY <2>1, <2>2, <2>3, <2>4, PromiseSteps
    <2> QED  BY <2>5 DEF Promise!Next
<1>4. ASSUME NEW w \in Workers, JobFinish(w) PROVE Promise!Next
    <2>1. wjob[w] \in Jobs /\ wjob[w] \in Running
        BY <1>4 DEF JobFinish, ControlInv, Running
    <2>2. Running' = Running \ {wjob[w]}
        BY <1>4 DEF JobFinish, JobsConserved, Running, Busy
    <2>3. dpc # "exited"
        BY <1>4, AllExited DEF JobFinish, HandshakeInv, Busy
    <2>4. /\ finished' = finished \cup {wjob[w]}
          /\ UNCHANGED <<jobQueue, InDispatch, djob, Mode>>
          /\ Mode = "open"
        BY <1>4, <2>3 DEF JobFinish, WgAdd, InDispatch, Mode, Alive
    <2>5. Promise!Finish(wjob[w])
        BY <2>1, <2>2, <2>4, PromiseSteps DEF Pending
    <2> QED  BY <2>1, <2>5 DEF Promise!Next
<1>5. ASSUME NEW c \in Callers, ReleaseReturn(c) PROVE Promise!Next
    <2>1. Running = {}
        BY <1>5, AllExited DEF ReleaseReturn, Running, Busy
    <2>2. /\ UNCHANGED <<jobQueue, InDispatch, djob, Running, finished>>
          /\ Mode = "open" /\ Mode' = "closed"
        BY <1>5 DEF ReleaseReturn, InDispatch, Running, Mode, Alive
    <2>3. Promise!Close
        BY <2>1, <2>2, PromiseSteps DEF Pending
    <2> QED  BY <2>3 DEF Promise!Next
<1>6. ASSUME (\E j \in Jobs : SendCount(j) \/ TimedCount(j)) \/ (\E c \in Callers : WaitWake(c))
      PROVE  Promise!Next \/ UNCHANGED Promise!vars
    <2>1. /\ UNCHANGED <<jobQueue, InDispatch, djob, Running, finished>>
          /\ Alive /\ dpc' = dpc
        <3>1. Alive /\ UNCHANGED <<jobQueue, dpc, djob, wpc, wjob, finished>>
            BY <1>6 DEF SendCount, TimedCount, WaitWake
        <3> QED  BY <3>1 DEF InDispatch, Running
    <2>2. Mode # "crashed" /\ (UNCHANGED Mode \/ Mode' = "crashed")
        BY <2>1 DEF Mode
    <2>3. CASE UNCHANGED Mode
        BY <2>1, <2>3, Stutter
    <2>4. CASE Mode' = "crashed"
        <3>1. Promise!Crash
            BY <2>1, <2>2, <2>4, PromiseSteps DEF Pending
        <3> QED  BY <3>1 DEF Promise!Next
    <2> QED  BY <2>2, <2>3, <2>4
<1>7. ASSUME NEW w \in Workers,
             TakeWorker(w) \/ StopWorker(w) \/ WorkerStopped(w) \/ WorkerOffer(w)
                 \/ JobCallsDone(w)
      PROVE  UNCHANGED Promise!vars
    <2>1. UNCHANGED <<jobQueue, InDispatch, djob, wjob, finished>>
        BY <1>7 DEF TakeWorker, StopWorker, WorkerStopped, WorkerOffer, JobCallsDone,
                    InDispatch
    <2>2. \A v \in Workers : wpc'[v] \in Busy <=> wpc[v] \in Busy
        BY <1>7 DEF TakeWorker, StopWorker, WorkerStopped, WorkerOffer, JobCallsDone, Busy
    <2>3. UNCHANGED Running
        BY <2>1, <2>2 DEF Running
    <2>4. UNCHANGED Mode
        BY <1>7 DEF TakeWorker, StopWorker, WorkerStopped, WorkerOffer, JobCallsDone,
                    WgAdd, Mode, Alive
    <2> QED  BY <2>1, <2>3, <2>4, Stutter
<1>8. ASSUME (\E j \in Jobs : TimedExpire(j))
                \/ (\E c \in Callers : ReleaseCall(c) \/ ReleaseStop(c) \/ WaitAll(c))
                \/ UNCHANGED vars
      PROVE  UNCHANGED Promise!vars
    <2>1. UNCHANGED <<jobQueue, InDispatch, djob, Running, finished>>
        BY <1>8 DEF TimedExpire, ReleaseCall, ReleaseStop, WaitAll, vars,
                    InDispatch, Running
    <2>2. UNCHANGED Mode
        BY <1>8 DEF TimedExpire, ReleaseCall, ReleaseStop, WaitAll, vars,
                    WgAdd, Mode, Alive
    <2> QED  BY <2>1, <2>2, Stutter
<1> QED  BY <1>1, <1>2, <1>3, <1>4, <1>5, <1>6, <1>7, <1>8
        DEF Next, SendSteps, WorkerSteps, DispatchSteps, CallerSteps

-----------------------------------------------------------------------------

(* The pool keeps JobPool's promise: jobs start in the order in which they *)
(* entered JobQueue, each at most once, at most one per worker at a time,  *)
(* and none after Release has returned.                                    *)
THEOREM KeepsPromise == SafeSpec => Promise!SafeSpec
<1>1. Init => Promise!Init
    BY PromiseSteps DEF Init, InDispatch, Running, Busy, Pending, Mode, Alive
<1> QED  BY <1>1, StepRefines, Invariance, PTL DEF SafeSpec, Promise!SafeSpec
============================================================================
