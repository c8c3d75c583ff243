------------------------------- MODULE JobPool -------------------------------
(***************************************************************************)
(* What a goroutine pool promises to the code that submits jobs to it,     *)
(* with no dispatcher, no worker hand-over and no stop handshake: a        *)
(* bounded FIFO of accepted jobs, at most MaxRunning of them executing at  *)
(* once, each executed at most once and, while the pool is open, each      *)
(* eventually executed.  GPool.tla shows that util/goroutine/grpool.go     *)
(* keeps this promise.                                                     *)
(***************************************************************************)
EXTENDS Naturals, Sequences, FiniteSets

CONSTANTS Jobs,        \* the functions handed to the pool
          MaxPending,  \* accepted jobs that have not started
          MaxRunning   \* jobs executing at the same time

VARIABLES pending,   \* accepted jobs that have not started, oldest first
          running,   \* jobs being executed
          done,      \* jobs whose execution has ended
          mode       \* "open", "closed" (orderly) or "crashed" (process died)

vars == <<pending, running, done, mode>>

Accepted == {pending[i] : i \in DOMAIN pending} \cup running \cup done

Init == /\ pending = <<>>
        /\ running = {}
        /\ done = {}
        /\ mode = "open"

(* A closed pool still accepts: its channel stays writable.                *)
Accept(j) == /\ mode # "crashed"
             /\ j \notin Accepted
             /\ Len(pending) < MaxPending
             /\ pending' = Append(pending, j)
             /\ UNCHANGED <<running, done, mode>>

Start == /\ mode = "open"
         /\ pending # <<>>
         /\ Cardinality(running) < MaxRunning
         /\ running' = running \cup {Head(pending)}
         /\ pending' = Tail(pending)
         /\ UNCHANGED <<done, mode>>

Finish(j) == /\ mode = "open"
             /\ j \in running
             /\ running' = running \ {j}
             /\ done' = done \cup {j}
             /\ UNCHANGED <<pending, mode>>

(* An orderly close waits for what runs and starts nothing more.           *)
Close == /\ mode = "open"
         /\ running = {}
         /\ mode' = "closed"
         /\ UNCHANGED <<pending, running, done>>

Crash == /\ mode # "crashed"
         /\ mode' = "crashed"
         /\ UNCHANGED <<pending, running, done>>

Next == \/ \E j \in Jobs : Accept(j) \/ Finish(j)
        \/ Start
        \/ Close
        \/ Crash

SafeSpec == Init /\ [][Next]_vars

Spec == /\ SafeSpec
        /\ WF_vars(Start)
        /\ \A j \in Jobs : WF_vars(Finish(j))
==============================================================================
