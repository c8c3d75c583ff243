------------------------------ MODULE MCResolver ------------------------------
(* Instances of Resolver for TLC; the .cfg files give the constants.       *)
EXTENDS Resolver
==============================================================================
