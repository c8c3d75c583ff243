----------------------------- MODULE MCDiscovery -----------------------------
(* An instance of Discovery for TLC: two process slots of one address, one *)
(* of another, and a client.                                               *)
EXTENDS Discovery, TLC

CONSTANTS i1, i2, i3, k1, k2

MCKeyOf == (i1 :> k1) @@ (i2 :> k1) @@ (i3 :> k2)

(* The slots of one address are alike.                                     *)
MCSymmetry == Permutations({i1, i2})
==============================================================================
