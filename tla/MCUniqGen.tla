----------------------------- MODULE MCUniqGen -----------------------------
(* Instances of UniqGen for TLC. *)
EXTENDS UniqGen
=============================================================================
