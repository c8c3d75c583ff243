----------------------------- MODULE ServiceLife -----------------------------
(***************************************************************************)
(* What a process promises to the application code it calls and waits for, *)
(* with no sections, kinds of application, listeners or timers: stores are *)
(* acquired while it starts and given up only when it closes; it closes    *)
(* only when no request it has admitted and no job it has begun is still   *)
(* running; and once it has begun to leave, it ends.  Lifecycle.tla shows  *)
(* that src/app keeps this promise.                                        *)
(***************************************************************************)
CONSTANTS Stores,     \* what requests and jobs may use
          Guests      \* the requests and the jobs that are waited for

VARIABLES phase,      \* "starting", "serving", "draining", "told", "closing" or "ended"
          held,       \* stores that are open
          requests,   \* admitted requests that are running
          jobs        \* jobs that are running

vars == <<phase, held, requests, jobs>>

Init == /\ phase = "starting"
        /\ held = {}
        /\ requests = {} /\ jobs = {}

(* Starting acquires stores, one after the other, ...                      *)
Open == /\ phase = "starting"
        /\ \E s \in Stores : held' = held \cup {s}
        /\ UNCHANGED <<phase, requests, jobs>>

Serve == /\ phase = "starting" /\ phase' = "serving"
         /\ UNCHANGED <<held, requests, jobs>>

(* ... or is given up.  Requests are admitted until they are all gone, ... *)
Drain == /\ phase \in {"starting", "serving"} /\ phase' = "draining"
         /\ UNCHANGED <<held, requests, jobs>>

Admit(g) == /\ phase \in {"serving", "draining"}
            /\ requests' = requests \cup {g}
            /\ UNCHANGED <<phase, held, jobs>>

(* ... then everybody is told to stop; jobs begin until none is running.   *)
Tell == /\ phase = "draining" /\ phase' = "told"
        /\ requests = {}
        /\ UNCHANGED <<held, requests, jobs>>

Begin(g) == /\ phase \notin {"closing", "ended"}
            /\ jobs' = jobs \cup {g}
            /\ UNCHANGED <<phase, held, requests>>

Depart(g) == /\ phase # "ended"
             /\ requests' = requests \ {g}
             /\ jobs' = jobs \ {g}
             /\ UNCHANGED <<phase, held>>

(* Closing is the only time at which a store is given up.                  *)
BeginClose == /\ phase = "told" /\ phase' = "closing"
              /\ jobs = {}
              /\ UNCHANGED <<held, requests, jobs>>

Close == /\ phase = "closing"
         /\ \E s \in Stores : held' = held \ {s}
         /\ UNCHANGED <<phase, requests, jobs>>

(* The end may come at any time, and finds the stores as they are.         *)
End == /\ phase # "ended" /\ phase' = "ended"
       /\ \/ held' = held
          \/ phase = "closing" /\ \E s \in Stores : held' = held \ {s}
       /\ UNCHANGED <<requests, jobs>>

Next == \/ Open \/ Serve \/ Drain \/ Tell \/ BeginClose \/ Close \/ End
        \/ \E g \in Guests : Admit(g) \/ Begin(g) \/ Depart(g)

SafeSpec == Init /\ [][Next]_vars

Spec == SafeSpec /\ WF_vars(phase \in {"draining", "told", "closing"} /\ End)
==============================================================================
