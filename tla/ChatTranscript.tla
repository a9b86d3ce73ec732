--------------------------- MODULE ChatTranscript ---------------------------
(***************************************************************************)
(* What a chat conversation promises to its owner: a transcript of whole   *)
(* turns.  A turn is opened, and then either answered, which appends it,   *)
(* or withdrawn, which leaves the transcript as it was.  The last answered *)
(* turn may be undone, and the conversation may be cleared as a whole.     *)
(***************************************************************************)
EXTENDS Naturals, Sequences

CONSTANTS Turns,   \* identities of turns
          NoTurn   \* no turn is open

VARIABLES transcript,  \* the answered turns, oldest first
          open         \* the turn that waits for its answer

tvars == <<transcript, open>>

Init == transcript = <<>> /\ open = NoTurn

Ask(t) == open = NoTurn /\ open' = t /\ UNCHANGED transcript

Answer ==
  /\ open # NoTurn
  /\ transcript' = Append(transcript, open)
  /\ open' = NoTurn

Withdraw == open # NoTurn /\ open' = NoTurn /\ UNCHANGED transcript

Undo ==
  /\ open = NoTurn
  /\ transcript # <<>>
  /\ transcript' = SubSeq(transcript, 1, Len(transcript) - 1)
  /\ UNCHANGED open

Clear == transcript' = <<>> /\ open' = NoTurn

Next == (\E t \in Turns : Ask(t)) \/ Answer \/ Withdraw \/ Undo \/ Clear

Spec == Init /\ [][Next]_tvars
=============================================================================
