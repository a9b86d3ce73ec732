---------------------------- MODULE MCChatEngine ----------------------------
(***************************************************************************)
(* ChatEngine on a small instance: three generator objects, three prompts. *)
(***************************************************************************)
EXTENDS ChatEngineProofs, TLC
=============================================================================
