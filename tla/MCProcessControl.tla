-------------------------- MODULE MCProcessControl --------------------------
(* Instances of ProcessControl for TLC; the .cfg files give the constants. *)
EXTENDS ProcessControl
==============================================================================
