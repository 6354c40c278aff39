--------------------------- MODULE MCRecvMachine ---------------------------
(***************************************************************************)
(* Instances of RecvMachine: bodies of zero to three bytes, an empty       *)
(* message, a message without a processor and one its processor refuses.   *)
(***************************************************************************)
EXTENDS RecvMachine

MCMessages == {<<0, 1>>, <<1, 1, 1>>, <<2, 1, 0, 1>>, <<3, 1, 2, 1, 0>>, <<0, 2>>, <<2, 2, 1, 1>>, <<1, 0, 1>>}
=============================================================================
