---------------------------- MODULE MCUniqClient ----------------------------
(* Instances of UniqClient for TLC. *)
EXTENDS UniqClient
=============================================================================
