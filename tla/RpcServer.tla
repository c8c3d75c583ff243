------------------------------ MODULE RpcServer ------------------------------
(***************************************************************************)
(* A gRPC call from the client to the handler and back, through the        *)
(* client's interceptors (src/util/client_conn, grpc_interceptor) and the  *)
(* chain setupGRPCVars builds: Metadata, Recovery, the limiter of          *)
(* RateLimit, Logger, authentication, handler (src/app/grpc.go:192-214).   *)
(*                                                                         *)
(* The slots of RateLimit are the server's goroutines; the calls served by *)
(* the Watched ones are followed, the others only compete for tickets.     *)
(* Every limiter step of a watched slot is the step of RateLimit.          *)
(*                                                                         *)
(* Times are in half seconds, so that a token, issued in whole seconds,    *)
(* can be older than it says.  Retries, the deadline of a context and the  *)
(* cancellation of a stream are gRPC's and go-grpc-middleware's.           *)
(***************************************************************************)
EXTENDS RateLimit, Integers

CONSTANTS Watched,
          Calls,      \* [stream, deadline, health, token : BOOLEAN]: a stream; the caller set
                      \* a deadline; a method of the framework's health server; the
                      \* client sends a token
          Confs,      \* [token, transport : BOOLEAN, expire : Nat]: kelvins-rpc-auth
          Skews,      \* how far the client's clock is ahead of the server's
          MaxDelay    \* bound: the time between issuing a token and its check

ASSUME CallAssumption ==
    /\ Watched \subseteq Slots
    /\ Calls \subseteq [stream : BOOLEAN, deadline : BOOLEAN, health : BOOLEAN, token : BOOLEAN]
    /\ Confs \subseteq [token : BOOLEAN, transport : BOOLEAN, expire : Nat]
    /\ Skews \subseteq Int
    /\ MaxDelay \in Nat

VARIABLES conf, skew, \* fixed for a behaviour
          call,       \* per watched slot, the call
          caller,     \* ... what the caller has been told
          tries,      \* ... the attempts made
          open,       \* ... the server has not answered this attempt
          result,     \* ... how far authentication and handler have got
          late,       \* ... the delay of a token that was denied
          log         \* ... the lines logged for this attempt

clientVars == <<call, caller, tries>>
serverVars == <<open, result, late, log>>
callVars == <<conf, skew, clientVars, serverVars>>

Results == {"ok", "internal", "error"}           \* Internal is what clients retry

CallTypeOK ==
    /\ TypeOK
    /\ conf \in Confs /\ skew \in Skews
    /\ call \in [Watched -> Calls]
    /\ caller \in [Watched -> Results \cup {"ready", "pending", "denied", "exhausted",
                                            "cancelled", "deadline"}]
    /\ tries \in [Watched -> 1..2]
    /\ open \in [Watched -> BOOLEAN]
    /\ result \in [Watched -> Results \cup {"none", "handling", "denied", "panic"}]
    /\ late \in [Watched -> 0..MaxDelay]
    /\ log \in [Watched -> SUBSET {"ok", "err", "panic"}]

CallInit ==
    /\ Init
    /\ conf \in Confs /\ skew \in Skews
    /\ call \in [Watched -> Calls]
    /\ caller = [s \in Watched |-> "ready"]
    /\ tries = [s \in Watched |-> 1]
    /\ open = [s \in Watched |-> FALSE]
    /\ result = [s \in Watched |-> "none"]
    /\ late = [s \in Watched |-> 0]
    /\ log = [s \in Watched |-> {}]

-----------------------------------------------------------------------------
(* Mistakes the code does not make, for the properties to catch.           *)

(* Tokens from a clock that is ahead are refused.                          *)
BugTimely(issued, now) ==
    issued >= now - (IF conf.expire > 0 THEN 2 * conf.expire ELSE 0) /\ issued <= now

(* A health server without AuthFuncOverride.                               *)
BugAuthFuncOverride(s) == FALSE

(* A request the limiter refuses is answered without an error.             *)
BugReply(s) ==
    IF pc[s] \in {"rejected", "panicked"} \/ result[s] = "panic" THEN "ok" ELSE result[s]

(* Retries without end.                                                    *)
BugRetries(s) ==
    caller[s] = "pending" /\ ~call[s].stream /\ pc[s] = "served" /\ result[s] = "internal"

-----------------------------------------------------------------------------
(* The client *)

(* The interceptors give a unary call 60 s if it has no deadline; a stream *)
(* without one gets a context that is cancelled when the interceptor       *)
(* returns (client_interceptor.go:33-38), before its first message.        *)
Send(s) ==
    /\ caller[s] # "pending" /\ ~open[s]
    /\ \E c \in Calls :
          /\ call' = [call EXCEPT ![s] = c]
          /\ caller' = [caller EXCEPT ![s] = IF c.stream /\ ~c.deadline THEN "cancelled"
                                             ELSE "pending"]
    /\ tries' = [tries EXCEPT ![s] = 1]
    /\ Arrive(s)
    /\ open' = [open EXCEPT ![s] = TRUE]
    /\ result' = [result EXCEPT ![s] = "none"]
    /\ late' = [late EXCEPT ![s] = 0]
    /\ log' = [log EXCEPT ![s] = {}]
    /\ UNCHANGED <<conf, skew>>

(* The caller's deadline passes; the server goes on.                       *)
GiveUp(s) ==
    /\ caller[s] = "pending"
    /\ caller' = [caller EXCEPT ![s] = "deadline"]
    /\ UNCHANGED <<vars, conf, skew, call, tries, serverVars>>

(* A unary call that ended in Internal is made once more (WithMax(2)), ... *)
Retries(s) ==
    /\ caller[s] = "pending" /\ ~call[s].stream /\ tries[s] = 1
    /\ pc[s] = "served" /\ result[s] = "internal"

(* ... with a new token.                                                   *)
Retry(s) ==
    /\ Retries(s) /\ ~open[s]
    /\ tries' = [tries EXCEPT ![s] = @ + 1]
    /\ Arrive(s)
    /\ open' = [open EXCEPT ![s] = TRUE]
    /\ result' = [result EXCEPT ![s] = "none"]
    /\ log' = [log EXCEPT ![s] = {}]
    /\ UNCHANGED <<conf, skew, call, caller, late>>

-----------------------------------------------------------------------------
(* The server *)

(* The limiter, as RateLimit has it.                                       *)
Limit(s) ==
    /\ CheckState(s) \/ Select(s) \/ CloseTickets(s)
    /\ UNCHANGED callVars

(* hmacInfoValid: ExpireSecond on either side of now.  The default of 30 s *)
(* is for negative durations only; without ExpireSecond there is no room.  *)
Timely(issued, now) ==
    LET validity == IF conf.expire > 0 THEN 2 * conf.expire ELSE 0
    IN  issued \in (now - validity)..(now + validity)

(* GetRequestMetadata signs the client's clock, in whole seconds.          *)
Issued(sent) == 2 * ((sent + skew) \div 2)

(* checkToken: there is one, and it is timely; signatures do match.        *)
CheckToken(s, issued, now) == call[s].token /\ Timely(issued, now)

(* GRPCHealthServer's override of the authentication lets health checks go.*)
AuthFuncOverride(s) == call[s].health

(* checkFunc, for the others: the token is checked if one is configured,   *)
(* and its error dropped if TransportSecurity is set.                      *)
Authenticate(s) ==
    /\ pc[s] = "serving" /\ result[s] = "none"
    /\ \E delay \in 0..MaxDelay, sent \in {0, 1} :
          LET valid == \/ ~conf.token \/ AuthFuncOverride(s)
                       \/ CheckToken(s, Issued(sent), sent + delay)
          IN  /\ log' = [log EXCEPT ![s] = IF valid THEN @ ELSE @ \cup {"err"}]
              /\ \/ /\ valid \/ conf.transport
                    /\ result' = [result EXCEPT ![s] = "handling"] /\ late' = late
                 \/ /\ ~valid /\ ~conf.transport
                    /\ result' = [result EXCEPT ![s] = "denied"]
                    /\ late' = [late EXCEPT ![s] = delay]
    /\ UNCHANGED <<vars, conf, skew, clientVars, open>>

(* The user's interceptors and the handler.                                *)
Handle(s) ==
    /\ pc[s] = "serving" /\ result[s] = "handling"
    /\ \E r \in Results \cup {"panic"} : result' = [result EXCEPT ![s] = r]
    /\ UNCHANGED <<vars, conf, skew, clientVars, open, late, log>>

(* Logger's deferred line, ok (in debug mode) for a handler that panicked, *)
(* and then the limiter's deferred ReturnTicket.                           *)
Respond(s) ==
    /\ result[s] \in Results \cup {"denied", "panic"}
    /\ ReturnTicket(s)
    /\ log' = [log EXCEPT ![s] =
                  IF call[s].health THEN @
                  ELSE @ \cup {IF result[s] \in {"ok", "panic"} THEN "ok" ELSE "err"}]
    /\ UNCHANGED <<conf, skew, clientVars, open, result, late>>

(* What the interceptors return: a recovered panic, of the handler or of   *)
(* the limiter, leaves a nil error.                                        *)
Reply(s) ==
    CASE pc[s] = "rejected" -> "exhausted"
      [] pc[s] = "panicked" -> "ok"
      [] OTHER -> IF result[s] = "panic" THEN "ok" ELSE result[s]

(* Recovery logs a panic; the answer goes out, to a caller who still waits.*)
Recovery(s) ==
    /\ open[s] /\ pc[s] \in {"served", "rejected", "panicked"}
    /\ open' = [open EXCEPT ![s] = FALSE]
    /\ log' = [log EXCEPT ![s] = IF pc[s] = "panicked" \/ result[s] = "panic"
                                 THEN @ \cup {"panic"} ELSE @]
    /\ caller' = [caller EXCEPT ![s] = IF @ = "pending" /\ ~Retries(s) THEN Reply(s) ELSE @]
    /\ UNCHANGED <<vars, conf, skew, call, tries, result, late>>

-----------------------------------------------------------------------------
Serve(s) ==
    Limit(s) \/ Authenticate(s) \/ Handle(s) \/ Respond(s) \/ Recovery(s) \/ Retry(s)

CallNext ==
    \/ AppClose /\ UNCHANGED callVars
    \/ \E s \in Slots \ Watched : (Arrive(s) \/ Answer(s)) /\ UNCHANGED callVars
    \/ \E s \in Watched : Send(s) \/ GiveUp(s) \/ Serve(s)

(* As in RateLimit: goroutines run on and handlers return.                 *)
CallSpec ==
    /\ CallInit /\ [][CallNext]_<<vars, callVars>>
    /\ \A s \in Slots \ Watched : WF_vars(Answer(s) /\ UNCHANGED callVars)
    /\ \A s \in Watched : WF_<<vars, callVars>>(Serve(s))

-----------------------------------------------------------------------------
(* Properties *)

(* A caller who is told ok has had its handler succeed, or a panic in the  *)
(* handler, or in the limiter during the shutdown, was answered as a       *)
(* success (server_interceptor.go:141-153); such a panic is in the error   *)
(* log.  A stream never succeeds without a deadline of the caller's own.   *)
SuccessExplained ==
    \A s \in Watched : caller[s] = "ok" /\ ~open[s] =>
        /\ call[s].stream => call[s].deadline
        /\ \/ pc[s] = "served" /\ result[s] = "ok"
           \/ pc[s] = "served" /\ result[s] = "panic" /\ "panic" \in log[s]
           \/ pc[s] = "panicked" /\ appClosed /\ "panic" \in log[s]

Abs(n) == IF n < 0 THEN -n ELSE n

(* A health check is never denied ("kelvins rpc exempts the health check", *)
(* README.md:400, even when tokens are checked).  Any other call with a    *)
(* token is denied only if the token took too long, counting the           *)
(* difference of the clocks and the fraction of a second that a token      *)
(* forgets, or if ExpireSecond is not set (rpc_token.go:59-82).            *)
DenialsExplained ==
    \A s \in Watched : result[s] = "denied" =>
        /\ conf.token /\ ~conf.transport /\ ~call[s].health
        /\ \/ ~call[s].token
           \/ conf.expire = 0
           \/ late[s] + Abs(skew) + 1 > 2 * conf.expire
==============================================================================
