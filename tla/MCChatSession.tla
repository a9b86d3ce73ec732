--------------------------- MODULE MCChatSession ---------------------------
(***************************************************************************)
(* ChatSession on a small instance: two loads, two generations of one      *)
(* token, one reset.                                                       *)
(***************************************************************************)
EXTENDS ChatSession, TLC
=============================================================================
