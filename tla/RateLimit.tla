------------------------------ MODULE RateLimit ------------------------------
(***************************************************************************)
(* The concurrency limiter of src/util/middleware/rate_limit.go, as the    *)
(* gRPC interceptors (rpc_ratelimit.go) and the gin handler                *)
(* (gin_helper/rate_limit.go) drive it: Limit before the handler,          *)
(* ReturnTicket deferred until after it.                                   *)
(*                                                                         *)
(* A slot is a server goroutine; it serves one request after another.  The *)
(* framework closes AppCloseCh while requests may be in flight: Shutdown   *)
(* of the HTTP server does not wait for h2c connections.  A panic in       *)
(* takeTicket is recovered by an outer interceptor and loses the request.  *)
(***************************************************************************)
EXTENDS Naturals, FiniteSets

CONSTANTS Slots,
          MaxConcurrent  \* the configured limit; 0 builds no ticket channel

ASSUME RateLimitAssumption ==
    /\ IsFiniteSet(Slots)
    /\ MaxConcurrent \in Nat \ {0}

VARIABLES tickets,        \* elements in the ticket channel
          ticketsClosed,  \* the channel has been closed
          ticketsState,   \* the flag of the same name
          appClosed,      \* AppCloseCh is closed
          pc              \* per slot, where its request is

vars == <<tickets, ticketsClosed, ticketsState, appClosed, pc>>

Capacity == MaxConcurrent + 1                            \* rate_limit.go:12

SlotPC == {"idle", "arrived", "selecting", "closing", "serving",
           "served", "rejected", "panicked"}

TypeOK ==
    /\ tickets \in 0..Capacity
    /\ ticketsClosed \in BOOLEAN
    /\ ticketsState \in {0, 1}
    /\ appClosed \in BOOLEAN
    /\ pc \in [Slots -> SlotPC]

Init ==
    /\ tickets = 0
    /\ ticketsClosed = FALSE
    /\ ticketsState = 0
    /\ appClosed = FALSE
    /\ pc = [s \in Slots |-> "idle"]

Goto(s, l) == pc' = [pc EXCEPT ![s] = l]

-----------------------------------------------------------------------------
(* Mistakes the code does not make, for the properties to catch.           *)

(* A handler that panics does not give its ticket back (no defer).         *)
BugReturnTicket(s) ==
    /\ pc[s] = "serving"
    /\ tickets' \in {tickets, tickets - 1}
    /\ Goto(s, "served")
    /\ UNCHANGED <<ticketsClosed, ticketsState, appClosed>>

(* Without default: a request waits for a ticket instead of being refused. *)
BugRefuse(s) == FALSE

-----------------------------------------------------------------------------

(* The next request of this slot reaches takeTicket ...                    *)
Arrive(s) ==
    /\ pc[s] \in {"idle", "served", "rejected", "panicked"}
    /\ Goto(s, "arrived")
    /\ UNCHANGED <<tickets, ticketsClosed, ticketsState, appClosed>>

(* ... which loads ticketsState ...                                        *)
CheckState(s) ==
    /\ pc[s] = "arrived"
    /\ Goto(s, IF ticketsState = 1 THEN "rejected" ELSE "selecting")
    /\ UNCHANGED <<tickets, ticketsClosed, ticketsState, appClosed>>

(* ... and selects: r.tickets <- struct{}{} ...                            *)
TakeTicket(s) ==
    /\ pc[s] = "selecting"
    /\ ~ticketsClosed /\ tickets < Capacity
    /\ tickets' = tickets + 1
    /\ Goto(s, "serving")
    /\ UNCHANGED <<ticketsClosed, ticketsState, appClosed>>

(* ... which is ready, and panics, when the channel is closed; or ...      *)
TakeTicketPanic(s) ==
    /\ pc[s] = "selecting"
    /\ ticketsClosed
    /\ Goto(s, "panicked")
    /\ UNCHANGED <<tickets, ticketsClosed, ticketsState, appClosed>>

(* ... <-AppCloseCh, then the store of ticketsState ...                    *)
SeeAppClose(s) ==
    /\ pc[s] = "selecting" /\ appClosed
    /\ ticketsState' = 1
    /\ Goto(s, "closing")
    /\ UNCHANGED <<tickets, ticketsClosed, appClosed>>

(* ... and close(r.tickets), which panics the second time; or ...          *)
CloseTickets(s) ==
    /\ pc[s] = "closing"
    /\ ticketsClosed' = TRUE
    /\ Goto(s, IF ticketsClosed THEN "panicked" ELSE "rejected")
    /\ UNCHANGED <<tickets, ticketsState, appClosed>>

(* ... default, when no case is ready.                                     *)
Refuse(s) ==
    /\ pc[s] = "selecting"
    /\ ~ticketsClosed /\ tickets = Capacity /\ ~appClosed
    /\ Goto(s, "rejected")
    /\ UNCHANGED <<tickets, ticketsClosed, ticketsState, appClosed>>

(* The handler has returned or panicked; the deferred ReturnTicket takes a *)
(* ticket out if there is one, and does nothing otherwise.                 *)
ReturnTicket(s) ==
    /\ pc[s] = "serving"
    /\ tickets' = IF tickets > 0 THEN tickets - 1 ELSE tickets
    /\ Goto(s, "served")
    /\ UNCHANGED <<ticketsClosed, ticketsState, appClosed>>

(* appShutdown, app.go:297-299.                                            *)
AppClose ==
    /\ ~appClosed
    /\ appClosed' = TRUE
    /\ UNCHANGED <<tickets, ticketsClosed, ticketsState, pc>>

Select(s) == \/ TakeTicket(s) \/ TakeTicketPanic(s) \/ SeeAppClose(s) \/ Refuse(s)
Answer(s) == CheckState(s) \/ Select(s) \/ CloseTickets(s) \/ ReturnTicket(s)

Next == AppClose \/ \E s \in Slots : Arrive(s) \/ Answer(s)

(* Once a request has arrived its goroutine runs on; handlers return.      *)
Spec == Init /\ [][Next]_vars /\ \A s \in Slots : WF_vars(Answer(s))

-----------------------------------------------------------------------------
(* Properties *)

Serving == {s \in Slots : pc[s] = "serving"}

(* The ticket channel holds exactly one ticket per request being served,   *)
(* so that no ticket leaks and none is returned twice, whatever panics or  *)
(* closes (takeTicket, ReturnTicket and the interceptors together).        *)
TicketsMatch == tickets = Cardinality(Serving)

(* What the code bounds: rate_limit.go:12 makes room for one more ticket   *)
(* than the configured limit.                                              *)
AtMostCapacity == Cardinality(Serving) <= Capacity

(* "MaxConcurrent: maximum concurrency" (README.md:97, 304).               *)
AtMostMaxConcurrent == Cardinality(Serving) <= MaxConcurrent

(* Before the framework shuts down, a request is refused only while the    *)
(* limit is really reached: no leaked ticket ever lowers it.               *)
RefusedOnlyWhenFull ==
    [][\A s \in Slots : pc[s] = "selecting" /\ pc'[s] \in {"rejected", "panicked"} =>
           Cardinality(Serving) >= MaxConcurrent \/ appClosed]_vars

(* The limiter never makes a request wait: it is served and answered, or   *)
(* refused, at once.                                                       *)
AlwaysAnswered ==
    \A s \in Slots : pc[s] = "arrived" ~> pc[s] \in {"served", "rejected", "panicked"}
==============================================================================
