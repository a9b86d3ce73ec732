-------------------------- MODULE MCRunComparison ---------------------------
(***************************************************************************)
(* Two runs compared: equal and unequal scores, two protocols, and an      *)
(* evaluation without bpb.                                                 *)
(***************************************************************************)
EXTENDS RunComparison

Report(value, key) == [score |-> value, key |-> key, bpb |-> TRUE]
MCContestReports ==
  {Report(1, "a"), Report(2, "a"), Report(1, "b"), [score |-> 0, key |-> "a", bpb |-> FALSE]}
=============================================================================
