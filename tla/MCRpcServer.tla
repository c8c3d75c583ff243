----------------------------- MODULE MCRpcServer -----------------------------
(* Instances of RpcServer for TLC.                                         *)
EXTENDS RpcServer

Make(stream, deadline, health, token) ==
    [stream |-> stream, deadline |-> deadline, health |-> health, token |-> token]

(* Unary calls with and without a token, a health check without one,       *)
(* streams with and without a deadline.                                    *)
MCCalls == {Make(FALSE, FALSE, FALSE, TRUE), Make(FALSE, TRUE, FALSE, FALSE),
            Make(FALSE, TRUE, TRUE, FALSE),
            Make(TRUE, TRUE, FALSE, TRUE), Make(TRUE, FALSE, FALSE, TRUE)}

(* Two seconds, no ExpireSecond, and TransportSecurity.                    *)
MCConfs == {[token |-> TRUE, transport |-> FALSE, expire |-> 2],
            [token |-> TRUE, transport |-> FALSE, expire |-> 0],
            [token |-> TRUE, transport |-> TRUE, expire |-> 2],
            [token |-> FALSE, transport |-> FALSE, expire |-> 0]}

MCSkews == {-1, 3, 5}
==============================================================================
