-------------------------- MODULE RateLimitProofs --------------------------
(***************************************************************************)
(* Proofs about RateLimit, for every limit and any number of server        *)
(* goroutines, and about the calls of RpcServer, of which every step is a  *)
(* step of the limiter or leaves it alone.                                 *)
(***************************************************************************)
EXTENDS RpcServer, FiniteSetTheorems, TLAPS

(* TicketsMatch is inductive with the types: the default branch of         *)
(* ReturnTicket is never taken because a served request holds a ticket.    *)
IInv == TypeOK /\ TicketsMatch

(* Finitely many slots serve, so that they can be counted.                 *)
LEMMA FiniteServing ==
    /\ IsFiniteSet(Serving)
    /\ Cardinality(Serving) \in Nat
BY RateLimitAssumption, FS_Subset, FS_CardinalityType DEF Serving

(* Serving changes only when a ticket is taken or returned.                *)
LEMMA ServingFrame ==
    ASSUME TypeOK, NEW s \in Slots, NEW l \in SlotPC \ {"serving"},
           pc[s] # "serving", Goto(s, l)
    PROVE  Serving' = Serving /\ pc' \in [Slots -> SlotPC]
BY DEF TypeOK, Goto, Serving

(* Every step keeps the tickets and the requests being served in step.     *)
LEMMA Step == IInv /\ [Next]_vars => IInv'
<1> SUFFICES ASSUME IInv, [Next]_vars PROVE IInv'
    OBVIOUS
<1>1. ASSUME NEW s \in Slots, TakeTicket(s) PROVE IInv'
    <2>1. Serving' = Serving \cup {s} /\ s \notin Serving
        BY <1>1 DEF IInv, TypeOK, TakeTicket, Goto, Serving
    <2>2. Cardinality(Serving') = Cardinality(Serving) + 1
        BY <2>1, FiniteServing, FS_AddElement
    <2>3. TypeOK'
        BY <1>1, RateLimitAssumption DEF IInv, TypeOK, TakeTicket, Goto, SlotPC, Capacity
    <2> QED  BY <1>1, <2>2, <2>3 DEF IInv, TicketsMatch, TakeTicket
<1>2. ASSUME NEW s \in Slots, ReturnTicket(s) PROVE IInv'
    <2>1. Serving' = Serving \ {s} /\ s \in Serving
        BY <1>2 DEF IInv, TypeOK, ReturnTicket, Goto, Serving
    <2>2. Cardinality(Serving') = Cardinality(Serving) - 1
        BY <2>1, FiniteServing, FS_RemoveElement
    <2>3. Cardinality(Serving) > 0
        BY <2>1, FiniteServing, FS_EmptySet
    <2>4. tickets' = tickets - 1
        BY <1>2, <2>3 DEF IInv, TicketsMatch, ReturnTicket
    <2>5. TypeOK'
        BY <1>2, <2>3, <2>4, RateLimitAssumption
        DEF IInv, TypeOK, TicketsMatch, ReturnTicket, Goto, SlotPC, Capacity
    <2> QED  BY <2>2, <2>4, <2>5 DEF IInv, TicketsMatch
<1>3. ASSUME NEW s \in Slots,
             Arrive(s) \/ CheckState(s) \/ TakeTicketPanic(s) \/ SeeAppClose(s)
                 \/ CloseTickets(s) \/ Refuse(s)
      PROVE  IInv'
    <2>1. PICK l \in SlotPC \ {"serving"} : pc[s] # "serving" /\ Goto(s, l)
        BY <1>3 DEF Arrive, CheckState, TakeTicketPanic, SeeAppClose, CloseTickets, Refuse,
                    SlotPC
    <2>2. Serving' = Serving /\ pc' \in [Slots -> SlotPC]
        BY <2>1, ServingFrame DEF IInv
    <2>3. /\ tickets' = tickets
          /\ ticketsClosed' \in BOOLEAN /\ ticketsState' \in {0, 1} /\ appClosed' \in BOOLEAN
        BY <1>3 DEF Arrive, CheckState, TakeTicketPanic, SeeAppClose, CloseTickets, Refuse,
                    IInv, TypeOK
    <2> QED  BY <2>2, <2>3 DEF IInv, TypeOK, TicketsMatch
<1>4. CASE AppClose
    BY <1>4 DEF AppClose, IInv, TypeOK, TicketsMatch, Serving
<1>5. CASE UNCHANGED vars
    BY <1>5 DEF vars, IInv, TypeOK, TicketsMatch, Serving
<1> QED  BY <1>1, <1>2, <1>3, <1>4, <1>5 DEF Next, Answer, Select

(* It holds at first, when nothing is served.                              *)
LEMMA InitInv == Init => IInv
<1> SUFFICES ASSUME Init PROVE IInv
    OBVIOUS
<1>1. Serving = {}
    BY DEF Init, Serving
<1>2. TypeOK
    <2>1. 0 \in 0..Capacity
        BY RateLimitAssumption DEF Capacity
    <2>2. [s \in Slots |-> "idle"] \in [Slots -> SlotPC]
        BY DEF SlotPC
    <2> QED  BY <2>1, <2>2 DEF Init, TypeOK
<1> QED  BY <1>1, <1>2, FS_EmptySet DEF Init, IInv, TicketsMatch

(* IInv is an invariant of the limiter's steps.                            *)
LEMMA Invariance == Init /\ [][Next]_vars => []IInv
BY InitInv, Step, PTL

(* Tickets, flags and requests stay in their ranges.                       *)
THEOREM TypeCorrect == Spec => []TypeOK
<1>1. IInv => TypeOK
    BY DEF IInv
<1> QED  BY <1>1, Invariance, PTL DEF Spec

(* No ticket leaks or is returned twice, whatever panics or closes.        *)
THEOREM NoTicketLeaks == Spec => []TicketsMatch
<1>1. IInv => TicketsMatch
    BY DEF IInv
<1> QED  BY <1>1, Invariance, PTL DEF Spec

(* At most MaxConcurrent + 1 requests are served at once: the bound the    *)
(* code enforces, one above the configured limit.                          *)
THEOREM ConcurrencyBounded == Spec => []AtMostCapacity
<1>1. IInv => AtMostCapacity
    BY FiniteServing, RateLimitAssumption DEF IInv, TypeOK, TicketsMatch, AtMostCapacity, Capacity
<1> QED  BY <1>1, Invariance, PTL DEF Spec

(* The limiter's steps turn a request away only at the limit or during the *)
(* shutdown.                                                               *)
LEMMA Refusals == Init /\ [][Next]_vars => RefusedOnlyWhenFull
<1>1. ASSUME IInv, Next, NEW s \in Slots, pc[s] = "selecting",
             pc'[s] \in {"rejected", "panicked"}, ~appClosed, ~ticketsClosed
      PROVE  Cardinality(Serving) >= MaxConcurrent
    <2>1. PICK t \in Slots : Arrive(t) \/ Answer(t)
        BY <1>1 DEF Next, AppClose
    <2>2. t = s /\ Refuse(s)
        BY <1>1, <2>1 DEF Answer, Select, Arrive, CheckState, TakeTicket, TakeTicketPanic,
               SeeAppClose, CloseTickets, Refuse, ReturnTicket, Goto, IInv, TypeOK
    <2> QED  BY <1>1, <2>2, RateLimitAssumption DEF Refuse, IInv, TicketsMatch, Capacity
<1> DEFINE OnlyAtShutdown == ticketsClosed \/ (\E s \in Slots : pc[s] = "closing") => appClosed
<1>2. Init => OnlyAtShutdown
    BY DEF Init
<1>3. IInv /\ OnlyAtShutdown /\ [Next]_vars => OnlyAtShutdown'
    BY DEF IInv, TypeOK, Next, AppClose, Answer, Select, Arrive, CheckState, TakeTicket,
           TakeTicketPanic, SeeAppClose, CloseTickets, Refuse, ReturnTicket, Goto, vars
<1>4. IInv /\ OnlyAtShutdown /\ [Next]_vars =>
         [\A s \in Slots : pc[s] = "selecting" /\ pc'[s] \in {"rejected", "panicked"} =>
             Cardinality(Serving) >= MaxConcurrent \/ appClosed]_vars
    BY <1>1
<1> QED  BY <1>2, <1>3, <1>4, Invariance, PTL DEF RefusedOnlyWhenFull

(* A request is turned away only at the limit or during the shutdown.      *)
THEOREM RefusalsJustified == Spec => RefusedOnlyWhenFull
BY Refusals, PTL DEF Spec

-----------------------------------------------------------------------------
(* Calls *)

(* A call drives the limiter only as RateLimit says.                       *)
LEMMA CallSteps ==
    /\ CallInit => Init
    /\ [CallNext]_<<vars, callVars>> => [Next]_vars
<1>1. CallInit => Init
    BY DEF CallInit
<1>2. ASSUME NEW s \in Watched, Send(s) \/ GiveUp(s) \/ Serve(s)
      PROVE  Arrive(s) \/ Answer(s) \/ UNCHANGED vars
    BY <1>2 DEF Send, GiveUp, Serve, Limit, Authenticate, Handle, Respond, Recovery, Retry,
               Answer
<1> QED  BY <1>1, <1>2, CallAssumption DEF CallNext, Next, callVars, vars

(* A call implements the limiter: what holds of the tickets there holds    *)
(* whatever interceptors, handlers and clients do around it.               *)
THEOREM CallsUseLimiter == CallSpec => Init /\ [][Next]_vars
BY CallSteps, PTL DEF CallSpec

(* No call leaks a ticket, however it ends.                                *)
THEOREM NoTicketLeaksInCalls == CallSpec => []TicketsMatch
<1>1. IInv => TicketsMatch
    BY DEF IInv
<1> QED  BY <1>1, CallsUseLimiter, Invariance, PTL

(* Calls are refused for the limit, or during the shutdown.                *)
THEOREM RefusalsJustifiedInCalls == CallSpec => RefusedOnlyWhenFull
BY CallsUseLimiter, Refusals, PTL

(* A goroutine that has answered is at rest, and what its caller was told  *)
(* has its reason.                                                         *)
Calm(s) ==
    /\ ~open[s] => pc[s] \in {"idle", "served", "rejected", "panicked"}
    /\ open[s] /\ pc[s] = "served" => result[s] \notin {"none", "handling"}
    /\ caller[s] = "ok" => ~open[s]
    /\ caller[s] \in {"ok", "pending"} => (call[s].stream => call[s].deadline)
    /\ caller[s] = "ok" =>
          \/ pc[s] = "served" /\ result[s] = "ok"
          \/ pc[s] = "served" /\ result[s] = "panic" /\ "panic" \in log[s]
          \/ pc[s] = "panicked" /\ appClosed /\ "panic" \in log[s]

(* The limiter's panics belong to the shutdown.                            *)
AtShutdown == ticketsClosed \/ (\E s \in Slots : pc[s] \in {"closing", "panicked"}) => appClosed

Rest == (\A s \in Watched : Calm(s)) /\ AtShutdown

CInv == CallTypeOK /\ Rest /\ DenialsExplained

(* A step of one goroutine does not disturb the calls of the others.       *)
LEMMA Frame ==
    ASSUME Rest, NEW s \in Watched, Calm(s)', AtShutdown', appClosed' = appClosed,
           \A r \in Watched \ {s} :
               /\ call'[r] = call[r] /\ caller'[r] = caller[r] /\ open'[r] = open[r]
               /\ result'[r] = result[r] /\ log'[r] = log[r] /\ pc'[r] = pc[r]
    PROVE  Rest'
BY DEF Rest, Calm

(* A token is refused for its age and the clocks only.                     *)
LEMMA HonestTokens ==
    ASSUME conf.expire \in Nat, conf.expire > 0, skew \in Int,
           NEW delay \in Nat, NEW sent \in {0, 1},
           delay + Abs(skew) + 1 <= 2 * conf.expire
    PROVE  Timely(Issued(sent), sent + delay)
<1>1. /\ 2 * ((sent + skew) \div 2) \in Int
      /\ 2 * ((sent + skew) \div 2) <= sent + skew
      /\ sent + skew <= 2 * ((sent + skew) \div 2) + 1
    OBVIOUS
<1>2. skew <= Abs(skew) /\ -skew <= Abs(skew) /\ Abs(skew) \in Int
    BY DEF Abs
<1> QED  BY <1>1, <1>2 DEF Timely, Issued

(* The limiter's steps of any goroutine.                                   *)
LEMMA LimiterStep ==
    ASSUME CallTypeOK, Rest, NEW s \in Slots,
           Arrive(s) \/ CheckState(s) \/ Select(s) \/ CloseTickets(s) \/ ReturnTicket(s)
    PROVE  /\ \A r \in Slots \ {s} : pc'[r] = pc[r]
           /\ pc'[s] # "idle"
           /\ Arrive(s) => pc'[s] = "arrived"
           /\ Select(s) \/ CheckState(s) \/ CloseTickets(s) => pc'[s] # "served"
           /\ ReturnTicket(s) => pc'[s] = "served"
           /\ AtShutdown'
           /\ appClosed' = appClosed
BY DEF CallTypeOK, TypeOK, Rest, AtShutdown, Arrive, CheckState, Select, TakeTicket, TakeTicketPanic,
       SeeAppClose, Refuse, CloseTickets, ReturnTicket, Goto, SlotPC

(* The types of the limiter's variables, from the proof above.             *)
LEMMA LimiterTypes == IInv /\ [CallNext]_<<vars, callVars>> => TypeOK'
BY CallSteps, Step DEF IInv

(* Every step of a call keeps the invariant.                               *)
LEMMA CallStep == IInv /\ CInv /\ [CallNext]_<<vars, callVars>> => CInv'
<1> SUFFICES ASSUME IInv, CInv, [CallNext]_<<vars, callVars>> PROVE CInv'
    OBVIOUS
<1> USE CallAssumption
<1>0. TypeOK'
    BY LimiterTypes
<1>1. ASSUME NEW s \in Watched, Send(s) PROVE CInv'
    <2>1. CallTypeOK'
        BY <1>0, <1>1 DEF CInv, CallTypeOK, Send
    <2>2. /\ \A r \in Slots \ {s} : pc'[r] = pc[r]
          /\ pc'[s] = "arrived" /\ AtShutdown' /\ appClosed' = appClosed
        BY <1>1, LimiterStep DEF CInv, Send
    <2>3. PICK c \in Calls :
             /\ call' = [call EXCEPT ![s] = c]
             /\ caller' = [caller EXCEPT ![s] = IF c.stream /\ ~c.deadline THEN "cancelled"
                                                ELSE "pending"]
        BY <1>1 DEF Send
    <2>4. Calm(s)'
        BY <1>1, <2>2, <2>3 DEF CInv, CallTypeOK, Calm, Send
    <2>5. Rest'
        BY <1>1, <2>2, <2>3, <2>4, Frame DEF CInv, CallTypeOK, Send
    <2>6. DenialsExplained'
        BY <1>1 DEF CInv, CallTypeOK, DenialsExplained, Send, Abs
    <2> QED  BY <2>1, <2>5, <2>6 DEF CInv
<1>2. ASSUME NEW s \in Watched, GiveUp(s) PROVE CInv'
    BY <1>2 DEF CInv, CallTypeOK, TypeOK, Rest, Calm, AtShutdown, DenialsExplained, GiveUp,
                vars, serverVars, Abs
<1>3. ASSUME NEW s \in Watched, Limit(s) PROVE CInv'
    <2>1. CallTypeOK'
        BY <1>0, <1>3 DEF CInv, CallTypeOK, Limit, callVars, clientVars, serverVars
    <2>2. /\ \A r \in Slots \ {s} : pc'[r] = pc[r]
          /\ pc'[s] # "served" /\ AtShutdown' /\ appClosed' = appClosed
        BY <1>3, LimiterStep DEF CInv, Limit
    <2>3. pc[s] \notin {"idle", "served", "rejected", "panicked"}
        BY <1>3 DEF Limit, CheckState, Select, TakeTicket, TakeTicketPanic, SeeAppClose, Refuse,
                    CloseTickets
    <2>4. open[s] /\ caller[s] # "ok" /\ Calm(s)
        BY <2>3 DEF CInv, Rest, Calm, CallTypeOK
    <2>5. Calm(s)'
        BY <1>3, <2>2, <2>4 DEF Calm, Limit, callVars, clientVars, serverVars
    <2>6. Rest'
        BY <1>3, <2>2, <2>5, Frame DEF CInv, Limit, callVars, clientVars, serverVars
    <2>7. DenialsExplained'
        BY <1>3 DEF CInv, DenialsExplained, Limit, callVars, clientVars, serverVars, Abs
    <2> QED  BY <2>1, <2>6, <2>7 DEF CInv
<1>4. ASSUME NEW s \in Watched, Authenticate(s) PROVE CInv'
    <2> PICK delay \in 0..MaxDelay, sent \in {0, 1} :
           LET valid == \/ ~conf.token \/ AuthFuncOverride(s)
                        \/ CheckToken(s, Issued(sent), sent + delay)
           IN  /\ log' = [log EXCEPT ![s] = IF valid THEN @ ELSE @ \cup {"err"}]
               /\ \/ /\ valid \/ conf.transport
                     /\ result' = [result EXCEPT ![s] = "handling"] /\ late' = late
                  \/ /\ ~valid /\ ~conf.transport
                     /\ result' = [result EXCEPT ![s] = "denied"]
                     /\ late' = [late EXCEPT ![s] = delay]
        BY <1>4 DEF Authenticate
    <2>1. CallTypeOK'
        BY <1>0, <1>4 DEF CInv, CallTypeOK, Authenticate, vars, clientVars
    <2>2. Calm(s)'
        BY <1>4 DEF CInv, Rest, CallTypeOK, Calm, Authenticate, vars, clientVars
    <2>3. Rest'
        BY <1>4, <2>2, Frame
        DEF CInv, CallTypeOK, Rest, AtShutdown, Authenticate, vars, clientVars
    <2>4. DenialsExplained'
        <3>1. conf.expire \in Nat /\ conf.token \in BOOLEAN /\ conf.transport \in BOOLEAN
              /\ skew \in Int /\ delay \in Nat
            BY DEF CInv, CallTypeOK
        <3>2. conf.expire = 0 \/ delay + Abs(skew) + 1 > 2 * conf.expire
                  \/ Timely(Issued(sent), sent + delay)
            BY <3>1, HonestTokens DEF Abs
        <3>3. ASSUME NEW r \in Watched, r # s
              PROVE  result'[r] = result[r] /\ late'[r] = late[r]
            BY <3>3 DEF CInv, CallTypeOK
        <3>4. result'[s] = "denied" =>
                 /\ conf.token /\ ~conf.transport /\ ~call[s].health
                 /\ late'[s] = delay
                 /\ ~call[s].token \/ ~Timely(Issued(sent), sent + delay)
            BY DEF CInv, CallTypeOK, CheckToken, AuthFuncOverride
        <3>5. conf' = conf /\ skew' = skew /\ call' = call
            BY <1>4 DEF Authenticate, clientVars
        <3> QED  BY <3>2, <3>3, <3>4, <3>5 DEF CInv, DenialsExplained, Abs
    <2> QED  BY <2>1, <2>3, <2>4 DEF CInv
<1>5. ASSUME NEW s \in Watched, Handle(s) PROVE CInv'
    <2>1. CallTypeOK'
        BY <1>0, <1>5 DEF CInv, CallTypeOK, Handle, vars, clientVars, Results
    <2>2. Calm(s)'
        BY <1>5 DEF CInv, Rest, CallTypeOK, Calm, Handle, vars, clientVars
    <2>3. Rest'
        BY <1>5, <2>2, Frame DEF CInv, CallTypeOK, Rest, AtShutdown, Handle, vars, clientVars
    <2>4. DenialsExplained'
        BY <1>5 DEF CInv, CallTypeOK, DenialsExplained, Handle, clientVars, Results, Abs
    <2> QED  BY <2>1, <2>3, <2>4 DEF CInv
<1>6. ASSUME NEW s \in Watched, Respond(s) PROVE CInv'
    <2>1. CallTypeOK'
        BY <1>0, <1>6 DEF CInv, CallTypeOK, Respond, clientVars
    <2>2. /\ \A r \in Slots \ {s} : pc'[r] = pc[r]
          /\ pc'[s] = "served" /\ AtShutdown' /\ appClosed' = appClosed
        BY <1>6, LimiterStep DEF CInv, Respond
    <2>3. pc[s] = "serving" /\ Calm(s)
        BY <1>6 DEF Respond, ReturnTicket, CInv, Rest
    <2>4. open[s] /\ caller[s] # "ok"
        BY <2>3 DEF Calm, CInv, CallTypeOK
    <2>5. Calm(s)'
        BY <1>6, <2>2, <2>3, <2>4 DEF Calm, Respond, clientVars, Results
    <2>6. Rest'
        BY <1>6, <2>2, <2>5, Frame DEF CInv, CallTypeOK, Respond, clientVars
    <2>7. DenialsExplained'
        BY <1>6 DEF CInv, DenialsExplained, Respond, clientVars, Abs
    <2> QED  BY <2>1, <2>6, <2>7 DEF CInv
<1>7. ASSUME NEW s \in Watched, Recovery(s) PROVE CInv'
    <2>1. Calm(s) /\ AtShutdown
        BY DEF CInv, Rest
    <2>2. Reply(s) \in Results \cup {"denied", "exhausted"}
        BY <1>7, <2>1 DEF Recovery, Reply, CInv, CallTypeOK, Calm, Results
    <2>3. Reply(s) = "ok" => \/ pc[s] = "served" /\ result[s] \in {"ok", "panic"}
                             \/ pc[s] = "panicked" /\ appClosed
        BY <1>7, <2>1 DEF Recovery, Reply, AtShutdown
    <2>4. CallTypeOK'
        BY <1>0, <1>7, <2>2 DEF CInv, CallTypeOK, Recovery, vars
    <2>5. Calm(s)'
        BY <1>7, <2>1, <2>3 DEF CInv, CallTypeOK, Calm, Recovery, vars
    <2>6. Rest'
        BY <1>7, <2>1, <2>5, Frame DEF CInv, CallTypeOK, AtShutdown, Recovery, vars
    <2>7. DenialsExplained'
        BY <1>7 DEF CInv, DenialsExplained, Recovery, Abs
    <2> QED  BY <2>4, <2>6, <2>7 DEF CInv
<1>8. ASSUME NEW s \in Watched, Retry(s) PROVE CInv'
    <2>1. CallTypeOK'
        BY <1>0, <1>8 DEF CInv, CallTypeOK, Retry, Retries
    <2>2. /\ \A r \in Slots \ {s} : pc'[r] = pc[r]
          /\ pc'[s] = "arrived" /\ AtShutdown' /\ appClosed' = appClosed
        BY <1>8, LimiterStep DEF CInv, Retry
    <2>3. Calm(s)'
        BY <1>8, <2>2 DEF CInv, Rest, CallTypeOK, Calm, Retry, Retries
    <2>4. Rest'
        BY <1>8, <2>2, <2>3, Frame DEF CInv, CallTypeOK, Retry
    <2>5. DenialsExplained'
        BY <1>8 DEF CInv, CallTypeOK, DenialsExplained, Retry, Abs
    <2> QED  BY <2>1, <2>4, <2>5 DEF CInv
<1>9. CASE AppClose /\ UNCHANGED callVars
    BY <1>0, <1>9 DEF CInv, CallTypeOK, Rest, Calm, AtShutdown, DenialsExplained, AppClose,
                     callVars, clientVars, serverVars, Abs
<1>10. ASSUME NEW s \in Slots \ Watched, Arrive(s) \/ Answer(s), UNCHANGED callVars PROVE CInv'
    <2>1. /\ \A r \in Watched : pc'[r] = pc[r]
          /\ AtShutdown' /\ appClosed' = appClosed
        BY <1>10, LimiterStep DEF CInv, Answer
    <2> QED  BY <1>0, <1>10, <2>1
             DEF CInv, CallTypeOK, Rest, Calm, DenialsExplained, callVars, clientVars,
                 serverVars, Abs
<1>11. CASE UNCHANGED <<vars, callVars>>
    BY <1>0, <1>11 DEF CInv, CallTypeOK, Rest, Calm, AtShutdown, DenialsExplained, vars,
                     callVars, clientVars, serverVars, Abs
<1> QED  BY <1>1, <1>2, <1>3, <1>4, <1>5, <1>6, <1>7, <1>8, <1>9, <1>10, <1>11
         DEF CallNext, Serve

(* The invariant of the calls.                                             *)
LEMMA CallInvariance == CallSpec => []CInv
<1>1. CallInit => CInv
    <2> SUFFICES ASSUME CallInit PROVE CInv
        OBVIOUS
    <2>1. TypeOK
        BY CallSteps, InitInv DEF IInv
    <2>2. /\ 0 \in 0..MaxDelay /\ 1 \in 1..2
          /\ \A s \in Watched : caller[s] = "ready" /\ result[s] = "none" /\ ~open[s]
          /\ \A s \in Slots : pc[s] = "idle"
          /\ ~ticketsClosed
        BY CallAssumption DEF CallInit, Init
    <2>3. CallTypeOK
        BY <2>1, <2>2 DEF CallInit, CallTypeOK
    <2> QED  BY <2>2, <2>3, CallAssumption DEF CInv, Rest, Calm, AtShutdown, DenialsExplained
<1>2. CallSpec => []IInv
    BY CallsUseLimiter, Invariance, PTL
<1> QED  BY <1>1, <1>2, CallStep, PTL DEF CallSpec

(* Calls, tokens, tries and answers stay in their ranges.                  *)
THEOREM CallTypeCorrect == CallSpec => []CallTypeOK
<1>1. CInv => CallTypeOK
    BY DEF CInv
<1> QED  BY <1>1, CallInvariance, PTL

(* A success is the handler's, or a recovered panic that was logged.       *)
THEOREM SuccessIsExplained == CallSpec => []SuccessExplained
<1>1. CInv => SuccessExplained
    BY DEF CInv, Rest, Calm, SuccessExplained
<1> QED  BY <1>1, CallInvariance, PTL

(* A health check passes without a token; any other call is denied for     *)
(* want of a token, for its age and the difference of the clocks, or for   *)
(* want of a configured validity.                                          *)
THEOREM DenialsAreExplained == CallSpec => []DenialsExplained
<1>1. CInv => DenialsExplained
    BY DEF CInv
<1> QED  BY <1>1, CallInvariance, PTL
==============================================================================
