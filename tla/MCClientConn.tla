---------------------------- MODULE MCClientConn ----------------------------
(* Instances of ClientConn for TLC: three goroutines ask for one service, *)
(* or two for one service and the third for another.                       *)
EXTENDS ClientConn, TLC

CONSTANTS c1, c2, c3, s1, s2

SameService == (c1 :> s1) @@ (c2 :> s1) @@ (c3 :> s1)
TwoServices == (c1 :> s1) @@ (c2 :> s1) @@ (c3 :> s2)
==============================================================================
