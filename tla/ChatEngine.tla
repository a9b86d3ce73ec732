----------------------------- MODULE ChatEngine -----------------------------
(***************************************************************************)
(* One ChatEngine and the clients that call it.  The hard part is that     *)
(* generate_stream returns a Python generator: it runs only when a client  *)
(* calls next() or close() on it, so a generator may be started late, be   *)
(* one of several made for the same prompt, or be finalised after the      *)
(* conversation has moved on.                                              *)
(***************************************************************************)
EXTENDS ChatEngineOps

CONSTANTS
  Streams,          \* generator objects; each is made at most once
  MaxPrompt,        \* bound on the user messages appended in a behaviour
  CloseBeforeReuse  \* TRUE: a client closes a finished stream before it goes on,
                    \* as scripts/chat.py and the web worker do in a finally

ASSUME ChatEngineAssumption ==
  MaxPrompt \in Nat /\ CloseBeforeReuse \in BOOLEAN

VARIABLES
  engine,     \* the engine's attributes
  streams,    \* per generator: where it is suspended and the prompt it was made for
  nextPrompt  \* identity of the next prompt object

vars == <<engine, streams, nextPrompt>>

\* "created": not started; "running": suspended inside the loop;
\* "finished": suspended at the yield of the completion event; "dead": over.
StreamPcs == {"unmade", "created", "running", "finished", "dead"}

TypeOK ==
  /\ engine \in Engine
  /\ streams \in [Streams -> [pc : StreamPcs, prompt : Prompts \cup {NoPrompt}]]
  /\ nextPrompt \in Prompts

Init ==
  /\ engine = NewEngine
  /\ streams = [s \in Streams |-> [pc |-> "unmade", prompt |-> NoPrompt]]
  /\ nextPrompt = 1

At(s, pc) == streams[s].pc = pc
Goto(s, pc) == streams' = [streams EXCEPT ![s].pc = pc]

Disciplined == CloseBeforeReuse => \A s \in Streams : ~At(s, "finished")

-----------------------------------------------------------------------------
AppendUserMessage ==
  /\ Disciplined
  /\ nextPrompt <= MaxPrompt
  /\ CanAppend(engine)
  /\ engine' = AppendUser(engine, nextPrompt)
  /\ nextPrompt' = nextPrompt + 1
  /\ UNCHANGED streams

GenerateStream(s) ==
  /\ Disciplined
  /\ At(s, "unmade")
  /\ CanGenerate(engine)
  /\ streams' = [streams EXCEPT ![s] = [pc |-> "created", prompt |-> engine.pending]]
  /\ UNCHANGED <<engine, nextPrompt>>

StreamStart(s) ==
  /\ At(s, "created")
  /\ CanStart(engine, streams[s].prompt)
  /\ engine' = StartStream(engine)
  /\ Goto(s, "running")
  /\ UNCHANGED nextPrompt

\* "already active", "conversation changed" or "closed" ends the generator.
StreamRefused(s) ==
  /\ At(s, "created")
  /\ ~CanStart(engine, streams[s].prompt)
  /\ Goto(s, "dead")
  /\ UNCHANGED <<engine, nextPrompt>>

StreamComplete(s) ==
  /\ At(s, "running")
  /\ CanComplete(engine, streams[s].prompt)
  /\ engine' = CompleteStream(engine, streams[s].prompt)
  /\ Goto(s, "finished")
  /\ UNCHANGED nextPrompt

\* An exception inside the loop (model, tokenizer, clock, invalid conversation).
StreamFail(s) ==
  /\ At(s, "running")
  /\ engine' = FinishInterrupted(engine, "failed")
  /\ Goto(s, "dead")
  /\ UNCHANGED nextPrompt

\* close() or garbage collection throws GeneratorExit at the suspended yield; a
\* next() after the completion event returns through the same finally block.
StreamClose(s) ==
  /\ \/ At(s, "created") /\ UNCHANGED engine
     \/ /\ At(s, "running") \/ At(s, "finished")
        /\ engine' = FinishInterrupted(engine, "cancelled")
  /\ Goto(s, "dead")
  /\ UNCHANGED nextPrompt

Rollback(includeCompleted) ==
  /\ CanRollback(engine, includeCompleted)
  /\ engine' = RollbackLastTurn(engine, includeCompleted)
  /\ UNCHANGED <<streams, nextPrompt>>

Reset ==
  /\ Inactive(engine)
  /\ engine' = ResetEngine(engine)
  /\ UNCHANGED <<streams, nextPrompt>>

Close ==
  /\ CanClose(engine)
  /\ engine' = CloseEngine(engine)
  /\ UNCHANGED <<streams, nextPrompt>>

Next ==
  \/ AppendUserMessage \/ Reset \/ Close
  \/ \E b \in BOOLEAN : Rollback(b)
  \/ \E s \in Streams :
       \/ GenerateStream(s) \/ StreamStart(s) \/ StreamRefused(s)
       \/ StreamComplete(s) \/ StreamFail(s) \/ StreamClose(s)

Spec == Init /\ [][Next]_vars

-----------------------------------------------------------------------------
\* The engine is owned by at most one generator: it is active exactly when some
\* stream is running, no two run at once, and the running one was made for the
\* prompt that is still pending.  A duplicate or stale generator that is started
\* or finalised late must not break this (engine.py:546-550, 651-657).
ActiveOwnership ==
  /\ engine.active <=> \E s \in Streams : At(s, "running")
  /\ \A s, t \in Streams : At(s, "running") /\ At(t, "running") => s = t
  /\ \A s \in Streams : At(s, "running") =>
       streams[s].prompt = engine.pending /\ engine.status = "generating"

\* At most one generator is ever inside its loop: a second one that is started
\* meanwhile is refused with "already active".
OneRunningStream ==
  \A s, t \in Streams : At(s, "running") /\ At(t, "running") => s = t

\* Every reply in the history was generated for the user message right before
\* it, and the roles alternate: no stale generator commits into a conversation
\* that was reset, rolled back or continued after the generator was made.
RepliesAnswerTheirPrompt ==
  /\ Alternates(engine.messages)
  /\ \A i \in DOMAIN engine.messages :
       i % 2 = 0 => engine.messages[i].prompt = engine.messages[i - 1].prompt

\* A prompt is pending exactly when the last message waits for a reply, and it
\* is that message's prompt; a retry after a failure reuses the right prompt.
PendingIsLastUser ==
  /\ engine.pending # NoPrompt <=> EndsWith(engine, "user")
  /\ engine.pending # NoPrompt =>
       engine.messages[Len(engine.messages)].prompt = engine.pending

Transcript ==
  INSTANCE ChatTranscript WITH
    Turns <- 1 .. MaxPrompt, NoTurn <- NoPrompt,
    transcript <- CommittedTurns(engine), open <- engine.pending

\* Clients only ever see whole turns: each engine step opens, answers or
\* withdraws one turn, undoes the last one, clears everything, or changes
\* nothing; a cancelled or failed stream leaves the transcript as it was.
TranscriptIsTransactional == Transcript!Spec
=============================================================================
