---------------------------- MODULE MCDispatcher ----------------------------
(***************************************************************************)
(* Instances of Dispatcher: two users, a queue of one message, one file    *)
(* and one buffer message.  A connection takes one message and a half, so  *)
(* the buffer message is written in two pieces.                            *)
(***************************************************************************)
EXTENDS Dispatcher
=============================================================================
