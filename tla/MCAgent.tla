------------------------------ MODULE MCAgent ------------------------------
(***************************************************************************)
(* Instances of Agent.  A finished run of the agent stutters.              *)
(***************************************************************************)
EXTENDS Agent
=============================================================================
