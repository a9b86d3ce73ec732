--------------------------- MODULE ChatEngineOps ---------------------------
(***************************************************************************)
(* One ChatEngine (src/scratch_llm/chat/engine.py) as a value, and every   *)
(* public operation on it as a guard Can... and a result operator.  The    *)
(* modules that own engines (ChatEngine: one engine and its clients,       *)
(* ChatSession: the engines of the web service) share these operators.     *)
(*                                                                         *)
(* A message is its role and the identity of the completion prompt it      *)
(* belongs to: append_user_message makes a fresh prompt object, and the    *)
(* reply is generated from it.  Text, counts and timings are left out.     *)
(***************************************************************************)
EXTENDS Naturals, Sequences

\* Prompt identities are positive, so 0 is the absent prompt (None).
NoPrompt == 0
Prompts == Nat \ {NoPrompt}

Message == [role : {"user", "assistant"}, prompt : Prompts]

Statuses == {"idle", "awaiting_assistant", "generating", "completed",
             "cancelled", "failed"}

\* messages: _messages; pending: _pending_prompt; status: _status;
\* active: _active; reason: "a completion reason is recorded"; closed: _closed.
Engine == [messages : Seq(Message), pending : Prompts \cup {NoPrompt},
           status : Statuses, active : BOOLEAN, reason : BOOLEAN,
           closed : BOOLEAN]

NewEngine == [messages |-> <<>>, pending |-> NoPrompt, status |-> "idle",
              active |-> FALSE, reason |-> FALSE, closed |-> FALSE]

User(p) == [role |-> "user", prompt |-> p]
Assistant(p) == [role |-> "assistant", prompt |-> p]

EndsWith(e, role) ==
  e.messages # <<>> /\ e.messages[Len(e.messages)].role = role

DropLast(s, n) == SubSeq(s, 1, Len(s) - n)

\* _validate_message_sequence: roles alternate and start with the user.
Alternates(s) ==
  \A i \in DOMAIN s : s[i].role = IF i % 2 = 1 THEN "user" ELSE "assistant"

Inactive(e) == ~e.closed /\ ~e.active

-----------------------------------------------------------------------------
CanAppend(e) == Inactive(e) /\ (e.messages = <<>> \/ EndsWith(e, "assistant"))

\* Mutant: the message keeps the identity of the prompt before it.
AppendUser_OffByOne(e, p) ==
  [e EXCEPT !.messages = Append(@, User(p - 1)), !.pending = p,
            !.status = "awaiting_assistant", !.reason = FALSE]

AppendUser(e, p) ==
  [e EXCEPT !.messages = Append(@, User(p)), !.pending = p,
            !.status = "awaiting_assistant", !.reason = FALSE]

\* generate_stream only builds a lazy generator; the engine is unchanged.
CanGenerate(e) == Inactive(e) /\ e.pending # NoPrompt /\ EndsWith(e, "user")

\* Mutants of CanStart: one of the two checks of the lazy start is missing.
CanStart_AnyOwner(e, p) == ~e.closed /\ e.pending = p
CanStart_AnyPrompt(e, p) == Inactive(e)

\* The first next() of a stream made for prompt p: _run_generation checks
\* ownership and the conversation revision again before it takes the engine.
CanStart(e, p) == Inactive(e) /\ e.pending = p

StartStream(e) ==
  [e EXCEPT !.active = TRUE, !.status = "generating", !.reason = FALSE]

\* The reply is appended to whatever history the engine holds by then and the
\* result must be a valid conversation, or the stream fails.
CanComplete(e, p) == Alternates(Append(e.messages, Assistant(p)))

CompleteStream(e, p) ==
  [e EXCEPT !.messages = Append(@, Assistant(p)), !.pending = NoPrompt,
            !.status = "completed", !.active = FALSE, !.reason = TRUE]

\* Mutant: an interrupted stream leaves its partial reply in the history.
FinishInterrupted_KeepsPartial(e, status) ==
  IF e.active THEN [e EXCEPT !.messages = Append(@, Assistant(e.pending)),
                             !.status = status, !.active = FALSE, !.reason = FALSE]
  ELSE e

\* The finally block of _run_generation: it interrupts the engine whenever
\* the engine is active, whichever stream made it so.
FinishInterrupted(e, status) ==
  IF e.active THEN [e EXCEPT !.status = status, !.active = FALSE, !.reason = FALSE]
  ELSE e

\* Mutant: a pending message takes every turn before it along.
RollbackCount_TooMany(e, includeCompleted) ==
  IF EndsWith(e, "user") THEN Len(e.messages) ELSE 0

\* rollback_last_turn: how many messages it discards, 0 when it raises.
RollbackCount(e, includeCompleted) ==
  CASE EndsWith(e, "user") -> 1
    [] /\ includeCompleted /\ e.status = "completed" /\ Len(e.messages) >= 2
       /\ EndsWith(e, "assistant") /\ e.messages[Len(e.messages) - 1].role = "user" -> 2
    [] OTHER -> 0

CanRollback(e, includeCompleted) ==
  Inactive(e) /\ RollbackCount(e, includeCompleted) > 0

\* Mutant: the prompt of the withdrawn message stays pending.
RollbackLastTurn_KeepsPrompt(e, includeCompleted) ==
  LET retained == DropLast(e.messages, RollbackCount(e, includeCompleted))
  IN  [e EXCEPT !.messages = retained, !.reason = FALSE,
                !.status = IF retained = <<>> THEN "idle" ELSE "completed"]

RollbackLastTurn(e, includeCompleted) ==
  LET retained == DropLast(e.messages, RollbackCount(e, includeCompleted))
  IN  [e EXCEPT !.messages = retained, !.pending = NoPrompt, !.reason = FALSE,
                !.status = IF retained = <<>> THEN "idle" ELSE "completed"]

ResetEngine(e) ==
  [e EXCEPT !.messages = <<>>, !.pending = NoPrompt, !.status = "idle",
            !.reason = FALSE]

\* close is idempotent and refuses while a generation is active.
CanClose(e) == e.closed \/ ~e.active

CloseEngine(e) ==
  IF e.closed THEN e
  ELSE [e EXCEPT !.messages = <<>>, !.pending = NoPrompt, !.closed = TRUE]

-----------------------------------------------------------------------------
\* The completed turns, as the prompts that were answered, oldest first.
TurnsOf(messages) == [i \in 1 .. (Len(messages) \div 2) |-> messages[2 * i].prompt]
CommittedTurns(e) == TurnsOf(e.messages)
=============================================================================
