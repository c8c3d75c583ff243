------------------------------- MODULE MCGPool -------------------------------
(* Instances of GPool for TLC; the .cfg files give the constants.          *)
EXTENDS GPool
==============================================================================
