-------------------------- MODULE ChatEngineProofs --------------------------
(***************************************************************************)
(* Theorems about ChatEngine, for any generators and any number of prompts.*)
(* The argument for everything but the types is one inductive invariant:   *)
(* a generator that can still run holds the prompt it was made for, and    *)
(* while a completed generator has not been closed nothing is pending, so  *)
(* nothing can be running when it is closed.                               *)
(***************************************************************************)
EXTENDS ChatEngine, TLAPS

\* A generator that may still touch the engine has the prompt it was made for.
LivePrompts ==
  \A s \in Streams :
    streams[s].pc \in {"created", "running", "finished"} => streams[s].prompt # NoPrompt

\* While a completed generator waits to be closed, no prompt is pending.
FinishedIsSettled ==
  CloseBeforeReuse => \A s \in Streams : At(s, "finished") => engine.pending = NoPrompt

IInv == TypeOK /\ LivePrompts /\ ActiveOwnership /\ RepliesAnswerTheirPrompt
        /\ PendingIsLastUser /\ FinishedIsSettled

USE DEF NoPrompt, Prompts

-----------------------------------------------------------------------------
\* Rollback discards one or two existing messages.
LEMMA RollbackBound ==
  ASSUME NEW e \in Engine, NEW b \in BOOLEAN, RollbackCount(e, b) > 0
  PROVE  RollbackCount(e, b) \in 1 .. Len(e.messages)
  BY DEF RollbackCount, EndsWith, Engine

\* Dropping up to all of a sequence keeps a prefix of it.
LEMMA DropLastPrefix ==
  ASSUME NEW S, NEW q \in Seq(S), NEW n \in 1 .. Len(q)
  PROVE  /\ DropLast(q, n) \in Seq(S)
         /\ Len(DropLast(q, n)) = Len(q) - n
         /\ \A i \in 1 .. Len(q) - n : DropLast(q, n)[i] = q[i]
  BY DEF DropLast

\* The engine operations return engines.
LEMMA OperationTypes ==
  ASSUME NEW e \in Engine, NEW p \in Prompts
  PROVE  /\ AppendUser(e, p) \in Engine
         /\ StartStream(e) \in Engine
         /\ CompleteStream(e, p) \in Engine
         /\ \A status \in Statuses : FinishInterrupted(e, status) \in Engine
         /\ \A b \in BOOLEAN : CanRollback(e, b) => RollbackLastTurn(e, b) \in Engine
         /\ ResetEngine(e) \in Engine
         /\ CloseEngine(e) \in Engine
<1>1. AppendUser(e, p) \in Engine
  <2>1. User(p) \in Message
    BY DEF User, Message
  <2>2. Append(e.messages, User(p)) \in Seq(Message)
    BY <2>1 DEF Engine
  <2> QED BY <2>2 DEF AppendUser, Engine, Statuses
<1>2. StartStream(e) \in Engine
  BY DEF StartStream, Engine, Statuses
<1>3. CompleteStream(e, p) \in Engine
  <2>1. Assistant(p) \in Message
    BY DEF Assistant, Message
  <2>2. Append(e.messages, Assistant(p)) \in Seq(Message)
    BY <2>1 DEF Engine
  <2> QED BY <2>2 DEF CompleteStream, Engine, Statuses
<1>4. \A status \in Statuses : FinishInterrupted(e, status) \in Engine
  BY DEF FinishInterrupted, Engine
<1>5. ASSUME NEW b \in BOOLEAN, CanRollback(e, b)
      PROVE  RollbackLastTurn(e, b) \in Engine
  <2>1. RollbackCount(e, b) \in 1 .. Len(e.messages)
    BY <1>5, RollbackBound DEF CanRollback
  <2>2. DropLast(e.messages, RollbackCount(e, b)) \in Seq(Message)
    BY <2>1, DropLastPrefix DEF Engine
  <2> QED BY <2>2 DEF RollbackLastTurn, Engine, Statuses
<1>e. <<>> \in Seq(Message)
  OBVIOUS
<1>6. ResetEngine(e) \in Engine
  BY <1>e DEF ResetEngine, Engine, Statuses
<1>7. CloseEngine(e) \in Engine
  BY <1>e DEF CloseEngine, Engine
<1> QED BY <1>1, <1>2, <1>3, <1>4, <1>5, <1>6, <1>7

-----------------------------------------------------------------------------
LEMMA TypeInit == Init => TypeOK /\ LivePrompts
<1> SUFFICES ASSUME Init PROVE TypeOK /\ LivePrompts
  OBVIOUS
<1>1. NewEngine \in Engine
  <2>1. <<>> \in Seq(Message)
    OBVIOUS
  <2> QED BY <2>1 DEF NewEngine, Engine, Statuses
<1> QED BY <1>1 DEF Init, TypeOK, LivePrompts, StreamPcs

\* Types are preserved by every action: a live generator has a prompt, so the
\* reply it appends is a message.
LEMMA TypeStep == TypeOK /\ LivePrompts /\ [Next]_vars => (TypeOK /\ LivePrompts)'
<1> SUFFICES ASSUME TypeOK, LivePrompts, [Next]_vars PROVE (TypeOK /\ LivePrompts)'
  OBVIOUS
<1> USE DEF TypeOK, LivePrompts, Goto, At, StreamPcs
<1>1. CASE AppendUserMessage
  BY <1>1, OperationTypes DEF AppendUserMessage
<1>2. ASSUME NEW s \in Streams, GenerateStream(s) PROVE (TypeOK /\ LivePrompts)'
  BY <1>2 DEF GenerateStream, CanGenerate, Engine
<1>3. ASSUME NEW s \in Streams, StreamStart(s) PROVE (TypeOK /\ LivePrompts)'
  BY <1>3, OperationTypes DEF StreamStart
<1>4. ASSUME NEW s \in Streams, StreamRefused(s) PROVE (TypeOK /\ LivePrompts)'
  BY <1>4 DEF StreamRefused
<1>5. ASSUME NEW s \in Streams, StreamComplete(s) PROVE (TypeOK /\ LivePrompts)'
  <2>1. streams[s].prompt \in Prompts
    BY <1>5 DEF StreamComplete
  <2> QED BY <1>5, <2>1, OperationTypes DEF StreamComplete
<1>6. ASSUME NEW s \in Streams, StreamFail(s) PROVE (TypeOK /\ LivePrompts)'
  BY <1>6, OperationTypes DEF StreamFail, Statuses
<1>7. ASSUME NEW s \in Streams, StreamClose(s) PROVE (TypeOK /\ LivePrompts)'
  BY <1>7, OperationTypes DEF StreamClose, Statuses
<1>8. ASSUME NEW b \in BOOLEAN, Rollback(b) PROVE (TypeOK /\ LivePrompts)'
  BY <1>8, OperationTypes DEF Rollback
<1>9. CASE Reset
  BY <1>9, OperationTypes DEF Reset
<1>10. CASE Close
  BY <1>10, OperationTypes DEF Close
<1>11. CASE UNCHANGED vars
  BY <1>11 DEF vars
<1> QED BY <1>1, <1>2, <1>3, <1>4, <1>5, <1>6, <1>7, <1>8, <1>9, <1>10, <1>11 DEF Next

\* Every state of every behaviour has the declared types: in particular a reply
\* always carries a real prompt and an engine status is one of the six of
\* GenerationState (engine.py:301-326).
THEOREM TypeCorrect == Spec => []TypeOK
<1>1. Init => TypeOK /\ LivePrompts
  BY TypeInit
<1>2. TypeOK /\ LivePrompts /\ [Next]_vars => (TypeOK /\ LivePrompts)'
  BY TypeStep
<1> QED BY <1>1, <1>2, PTL DEF Spec

-----------------------------------------------------------------------------
\* Every action preserves the ownership of the engine, given that clients close
\* a completed generator before they go on.
LEMMA OwnershipStep ==
  ASSUME CloseBeforeReuse, IInv, [Next]_vars
  PROVE  ActiveOwnership'
<1> USE DEF IInv, TypeOK, ActiveOwnership, Goto, At, StreamPcs, Engine, Inactive
<1>1. CASE AppendUserMessage
  BY <1>1 DEF AppendUserMessage, CanAppend, AppendUser
<1>2. ASSUME NEW s \in Streams, GenerateStream(s) PROVE ActiveOwnership'
  BY <1>2 DEF GenerateStream, CanGenerate
<1>3. ASSUME NEW s \in Streams, StreamStart(s) PROVE ActiveOwnership'
  BY <1>3 DEF StreamStart, CanStart, StartStream
<1>4. ASSUME NEW s \in Streams, StreamRefused(s) PROVE ActiveOwnership'
  BY <1>4 DEF StreamRefused
<1>5. ASSUME NEW s \in Streams, StreamComplete(s) PROVE ActiveOwnership'
  BY <1>5 DEF StreamComplete, CompleteStream
<1>6. ASSUME NEW s \in Streams, StreamFail(s) PROVE ActiveOwnership'
  BY <1>6 DEF StreamFail, FinishInterrupted
<1>7. ASSUME NEW s \in Streams, StreamClose(s) PROVE ActiveOwnership'
  <2>1. CASE At(s, "created")
    BY <1>7, <2>1 DEF StreamClose
  <2>2. CASE At(s, "running")
    BY ZenonT(60), <1>7, <2>2 DEF StreamClose, FinishInterrupted
  <2>3. CASE At(s, "finished")
    \* Nothing is pending, every running generator holds the pending prompt, and
    \* a live one holds a prompt: so none is running and the engine is left alone.
    <3>1. ~engine.active
      BY <2>3 DEF FinishedIsSettled, LivePrompts
    <3>2. engine' = engine /\ Goto(s, "dead")
      BY <1>7, <2>3, <3>1 DEF StreamClose, FinishInterrupted
    <3> QED BY <2>3, <3>2
  <2> QED BY <1>7, <2>1, <2>2, <2>3 DEF StreamClose
<1>8. ASSUME NEW b \in BOOLEAN, Rollback(b) PROVE ActiveOwnership'
  BY <1>8 DEF Rollback, CanRollback, RollbackLastTurn
<1>9. CASE Reset
  BY <1>9 DEF Reset, ResetEngine
<1>10. CASE Close
  BY <1>10 DEF Close, CanClose, CloseEngine
<1>11. CASE UNCHANGED vars
  BY <1>11 DEF vars
<1> QED BY <1>1, <1>2, <1>3, <1>4, <1>5, <1>6, <1>7, <1>8, <1>9, <1>10, <1>11 DEF Next

\* A completed generator leaves no prompt pending, and none becomes pending
\* before it is closed, because the append waits for that.
LEMMA SettledStep ==
  ASSUME IInv, [Next]_vars
  PROVE  FinishedIsSettled'
<1> SUFFICES ASSUME CloseBeforeReuse PROVE FinishedIsSettled'
  BY DEF FinishedIsSettled
<1> USE DEF IInv, TypeOK, FinishedIsSettled, Goto, At, StreamPcs, Engine
<1>1. CASE AppendUserMessage
  BY <1>1 DEF AppendUserMessage, Disciplined
<1>2. ASSUME NEW s \in Streams, GenerateStream(s) PROVE FinishedIsSettled'
  BY <1>2 DEF GenerateStream
<1>3. ASSUME NEW s \in Streams, StreamStart(s) PROVE FinishedIsSettled'
  BY <1>3 DEF StreamStart, StartStream
<1>4. ASSUME NEW s \in Streams, StreamRefused(s) PROVE FinishedIsSettled'
  BY <1>4 DEF StreamRefused
<1>5. ASSUME NEW s \in Streams, StreamComplete(s) PROVE FinishedIsSettled'
  BY <1>5 DEF StreamComplete, CompleteStream
<1>6. ASSUME NEW s \in Streams, StreamFail(s) PROVE FinishedIsSettled'
  BY <1>6 DEF StreamFail, FinishInterrupted
<1>7. ASSUME NEW s \in Streams, StreamClose(s) PROVE FinishedIsSettled'
  BY <1>7 DEF StreamClose, FinishInterrupted
<1>8. ASSUME NEW b \in BOOLEAN, Rollback(b) PROVE FinishedIsSettled'
  BY <1>8 DEF Rollback, RollbackLastTurn
<1>9. CASE Reset
  BY <1>9 DEF Reset, ResetEngine
<1>10. CASE Close
  BY <1>10 DEF Close, CloseEngine
<1>11. CASE UNCHANGED vars
  BY <1>11 DEF vars
<1> QED BY <1>1, <1>2, <1>3, <1>4, <1>5, <1>6, <1>7, <1>8, <1>9, <1>10, <1>11 DEF Next

-----------------------------------------------------------------------------
\* The two halves of RepliesAnswerTheirPrompt, of any history.
Answered(q) == \A i \in DOMAIN q : i % 2 = 0 => q[i].prompt = q[i - 1].prompt

\* In an alternating history the last role tells the parity of its length.
LEMMA LastRole ==
  ASSUME NEW q \in Seq(Message), Alternates(q), q # <<>>
  PROVE  /\ q[Len(q)].role = "user" => Len(q) % 2 = 1
         /\ q[Len(q)].role = "assistant" => Len(q) % 2 = 0
<1>1. Len(q) \in DOMAIN q
  OBVIOUS
<1>2. Len(q) % 2 \in {0, 1}
  OBVIOUS
<1> QED BY <1>1, <1>2 DEF Alternates

\* Appending a user message after a whole turn keeps the history well formed.
LEMMA AppendUserHistory ==
  ASSUME NEW q \in Seq(Message), NEW p \in Prompts, Alternates(q), Answered(q),
         q = <<>> \/ q[Len(q)].role = "assistant"
  PROVE  Alternates(Append(q, User(p))) /\ Answered(Append(q, User(p)))
<1>1. User(p) \in Message
  BY DEF User, Message
<1>2. Len(q) % 2 = 0
  BY LastRole
<1>3. (Len(q) + 1) % 2 = 1
  BY <1>2
<1>4. Alternates(Append(q, User(p)))
  BY <1>1, <1>3 DEF Alternates, User
<1>5. Answered(Append(q, User(p)))
  BY <1>1, <1>3 DEF Answered
<1> QED BY <1>4, <1>5

\* The reply completes a turn: it carries the prompt of the message before it.
LEMMA AppendReplyHistory ==
  ASSUME NEW q \in Seq(Message), NEW p \in Prompts, q # <<>>, Answered(q),
         q[Len(q)].prompt = p
  PROVE  Answered(Append(q, Assistant(p)))
<1>1. Assistant(p) \in Message /\ Assistant(p).prompt = p
  BY DEF Assistant, Message
<1> QED BY <1>1 DEF Answered

\* A prefix of a well-formed history is well formed.
LEMMA PrefixHistory ==
  ASSUME NEW q \in Seq(Message), NEW n \in 1 .. Len(q), Alternates(q), Answered(q)
  PROVE  Alternates(DropLast(q, n)) /\ Answered(DropLast(q, n))
<1>1. /\ DropLast(q, n) \in Seq(Message) /\ DOMAIN DropLast(q, n) = 1 .. Len(q) - n
      /\ \A i \in 1 .. Len(q) - n : DropLast(q, n)[i] = q[i]
  <2>1. /\ DropLast(q, n) \in Seq(Message) /\ Len(DropLast(q, n)) = Len(q) - n
        /\ \A i \in 1 .. Len(q) - n : DropLast(q, n)[i] = q[i]
    BY DropLastPrefix
  <2> QED BY <2>1
<1>2. \A i \in 1 .. Len(q) - n : i \in DOMAIN q
  OBVIOUS
<1>3. Alternates(DropLast(q, n))
  BY <1>1, <1>2 DEF Alternates
<1>4. \A i \in 1 .. Len(q) - n : i % 2 = 0 => i - 1 \in 1 .. Len(q) - n
  OBVIOUS
<1>5. Answered(DropLast(q, n))
  BY <1>1, <1>2, <1>4 DEF Answered
<1> QED BY <1>3, <1>5

\* A rollback leaves whole turns behind: it takes off the pending user message,
\* or the last user message with its reply.
LEMMA RollbackLeavesTurns ==
  ASSUME NEW e \in Engine, NEW b \in BOOLEAN, Alternates(e.messages), CanRollback(e, b)
  PROVE  ~EndsWith(RollbackLastTurn(e, b), "user")
<1> DEFINE q == e.messages
           n == RollbackCount(e, b)
<1>1. q \in Seq(Message) /\ n \in 1 .. Len(q)
  BY RollbackBound DEF Engine, CanRollback
<1>2. RollbackLastTurn(e, b).messages = DropLast(q, n)
  BY DEF RollbackLastTurn, Engine
<1>3. \/ n = 1 /\ q # <<>> /\ q[Len(q)].role = "user"
      \/ n = 2 /\ q # <<>> /\ q[Len(q)].role = "assistant"
  BY <1>1 DEF RollbackCount, EndsWith, CanRollback
<1> HIDE DEF q, n
<1>4. Alternates(q)
  BY DEF q
<1>5. (Len(q) - n) % 2 = 0
  <2>1. CASE n = 1
    <3>1. Len(q) % 2 = 1
      BY <1>1, <1>3, <1>4, <2>1, LastRole
    <3> QED BY <1>1, <2>1, <3>1
  <2>2. CASE n = 2
    <3>1. Len(q) % 2 = 0
      BY <1>1, <1>3, <1>4, <2>2, LastRole
    <3> QED BY <1>1, <2>2, <3>1
  <2> QED BY <1>3, <2>1, <2>2
<1>6. DropLast(q, n) \in Seq(Message) /\ Len(DropLast(q, n)) = Len(q) - n
      /\ \A i \in 1 .. Len(q) - n : DropLast(q, n)[i] = q[i]
  BY <1>1, DropLastPrefix
<1>7. DropLast(q, n) # <<>> => DropLast(q, n)[Len(q) - n].role = "assistant"
  <2> SUFFICES ASSUME DropLast(q, n) # <<>>
               PROVE  DropLast(q, n)[Len(q) - n].role = "assistant"
    OBVIOUS
  <2>1. Len(q) - n \in 1 .. Len(q) - n /\ Len(q) - n \in DOMAIN q
    BY <1>1, <1>6
  <2>2. DropLast(q, n)[Len(q) - n] = q[Len(q) - n]
    BY <1>6, <2>1
  <2> QED BY <1>4, <1>5, <2>1, <2>2 DEF Alternates
<1> QED BY <1>2, <1>6, <1>7 DEF EndsWith

-----------------------------------------------------------------------------
History == RepliesAnswerTheirPrompt /\ PendingIsLastUser

\* Every action keeps each reply behind its own prompt, and the pending prompt
\* that of the last message.
LEMMA HistoryStep ==
  ASSUME IInv, [Next]_vars
  PROVE  History'
<1>1. /\ engine \in Engine /\ engine.messages \in Seq(Message)
      /\ Alternates(engine.messages) /\ Answered(engine.messages) /\ PendingIsLastUser
  BY DEF IInv, TypeOK, Engine, RepliesAnswerTheirPrompt, Answered
<1>2. ASSUME Alternates(engine'.messages), Answered(engine'.messages), PendingIsLastUser'
      PROVE  History'
  BY <1>2 DEF History, RepliesAnswerTheirPrompt, Answered
<1>3. ASSUME engine'.messages = engine.messages, engine'.pending = engine.pending
      PROVE  History'
  BY <1>1, <1>2, <1>3 DEF PendingIsLastUser, EndsWith
<1>4. ASSUME engine'.messages = <<>>, engine'.pending = NoPrompt
      PROVE  History'
  BY <1>2, <1>4 DEF PendingIsLastUser, EndsWith, Alternates, Answered
<1>5. CASE AppendUserMessage
  <2>1. /\ nextPrompt \in Prompts /\ engine'.pending = nextPrompt
        /\ engine'.messages = Append(engine.messages, User(nextPrompt))
    BY <1>1, <1>5 DEF AppendUserMessage, AppendUser, IInv, TypeOK, Engine
  <2>2. Alternates(engine'.messages) /\ Answered(engine'.messages)
    BY <1>1, <1>5, <2>1, AppendUserHistory DEF AppendUserMessage, CanAppend, EndsWith
  <2>3. PendingIsLastUser'
    <3>1. User(nextPrompt).role = "user" /\ User(nextPrompt).prompt = nextPrompt
      BY DEF User
    <3> QED BY <1>1, <2>1, <3>1 DEF PendingIsLastUser, EndsWith
  <2> QED BY <1>2, <2>2, <2>3
<1>6. ASSUME NEW s \in Streams, GenerateStream(s) PROVE History'
  BY <1>3, <1>6 DEF GenerateStream
<1>7. ASSUME NEW s \in Streams, StreamStart(s) PROVE History'
  BY <1>1, <1>3, <1>7 DEF StreamStart, StartStream, Engine
<1>8. ASSUME NEW s \in Streams, StreamRefused(s) PROVE History'
  BY <1>3, <1>8 DEF StreamRefused
<1>9. ASSUME NEW s \in Streams, StreamComplete(s) PROVE History'
  <2> DEFINE p == streams[s].prompt
  <2>1. p \in Prompts /\ p = engine.pending
    BY <1>9 DEF StreamComplete, IInv, TypeOK, LivePrompts, ActiveOwnership, At
  <2>2. engine'.messages = Append(engine.messages, Assistant(p)) /\ engine'.pending = NoPrompt
    BY <1>1, <1>9 DEF StreamComplete, CompleteStream, Engine
  <2>3. engine.messages # <<>> /\ engine.messages[Len(engine.messages)].prompt = p
    BY <1>1, <2>1 DEF PendingIsLastUser, EndsWith
  <2>4. Answered(engine'.messages)
    BY <1>1, <2>1, <2>2, <2>3, AppendReplyHistory
  <2>5. Alternates(engine'.messages)
    BY <1>9, <2>2 DEF StreamComplete, CanComplete
  <2>6. PendingIsLastUser'
    <3>1. Assistant(p).role = "assistant"
      BY DEF Assistant
    <3> QED BY <1>1, <2>2, <3>1 DEF PendingIsLastUser, EndsWith
  <2> QED BY <1>2, <2>4, <2>5, <2>6
<1>10. ASSUME NEW s \in Streams, StreamFail(s) PROVE History'
  BY <1>1, <1>3, <1>10 DEF StreamFail, FinishInterrupted, Engine
<1>11. ASSUME NEW s \in Streams, StreamClose(s) PROVE History'
  BY <1>1, <1>3, <1>11 DEF StreamClose, FinishInterrupted, Engine
<1>12. ASSUME NEW b \in BOOLEAN, Rollback(b) PROVE History'
  <2>1. RollbackCount(engine, b) \in 1 .. Len(engine.messages) /\ CanRollback(engine, b)
    BY <1>1, <1>12, RollbackBound DEF Rollback, CanRollback
  <2>2. /\ engine'.messages = DropLast(engine.messages, RollbackCount(engine, b))
        /\ engine'.pending = NoPrompt
    BY <1>1, <1>12 DEF Rollback, RollbackLastTurn, Engine
  <2>3. Alternates(engine'.messages) /\ Answered(engine'.messages)
    BY <1>1, <2>1, <2>2, PrefixHistory
  <2>4. ~EndsWith(engine', "user")
    BY <1>1, <1>12, <2>1, RollbackLeavesTurns DEF Rollback
  <2> QED BY <1>2, <2>2, <2>3, <2>4 DEF PendingIsLastUser, EndsWith
<1>13. CASE Reset
  BY <1>1, <1>4, <1>13 DEF Reset, ResetEngine, Engine
<1>14. CASE Close
  BY <1>1, <1>3, <1>4, <1>14 DEF Close, CloseEngine, Engine
<1>15. CASE UNCHANGED vars
  BY <1>3, <1>15 DEF vars
<1> QED BY <1>5, <1>6, <1>7, <1>8, <1>9, <1>10, <1>11, <1>12, <1>13, <1>14, <1>15 DEF Next

-----------------------------------------------------------------------------
LEMMA IInvInit == Init => IInv
  BY TypeInit DEF Init, IInv, ActiveOwnership, RepliesAnswerTheirPrompt, PendingIsLastUser,
                  FinishedIsSettled, NewEngine, At, Alternates, EndsWith

LEMMA IInvStep == CloseBeforeReuse /\ IInv /\ [Next]_vars => IInv'
  BY TypeStep, OwnershipStep, HistoryStep, SettledStep DEF IInv, History

LEMMA IInvAlways == CloseBeforeReuse => (Spec => []IInv)
<1> SUFFICES ASSUME CloseBeforeReuse PROVE Spec => []IInv
  OBVIOUS
<1>1. Init => IInv
  BY IInvInit
<1>2. IInv /\ [Next]_vars => IInv'
  BY IInvStep
<1> QED BY <1>1, <1>2, PTL DEF Spec

\* However many generators are made, and however late they are started or
\* finalised, the engine has one owner while it is active, if clients close a
\* completed generator before they go on (engine.py:546-550, 651-657).
THEOREM OwnershipHolds == CloseBeforeReuse => (Spec => []ActiveOwnership)
<1>1. IInv => ActiveOwnership
  BY DEF IInv
<1> QED BY <1>1, IInvAlways, PTL

\* Under the same discipline no stale generator commits a reply: every reply in
\* the history follows the message it was generated for (engine.py:546, 612-643).
THEOREM RepliesHold == CloseBeforeReuse => (Spec => []RepliesAnswerTheirPrompt)
<1>1. IInv => RepliesAnswerTheirPrompt
  BY DEF IInv
<1> QED BY <1>1, IInvAlways, PTL

\* The pending prompt is always that of the unanswered last message, so a retry
\* after a failed or cancelled stream answers the right one (engine.py:376-410).
THEOREM PendingHolds == CloseBeforeReuse => (Spec => []PendingIsLastUser)
<1>1. IInv => PendingIsLastUser
  BY DEF IInv
<1> QED BY <1>1, IInvAlways, PTL

-----------------------------------------------------------------------------
(* The transcript of whole turns.                                          *)

LEMMA NoTurns == TurnsOf(<<>>) = <<>>
  BY DEF TurnsOf

LEMMA TurnsType ==
  ASSUME NEW q \in Seq(Message)
  PROVE  TurnsOf(q) \in Seq(Prompts) /\ Len(TurnsOf(q)) = Len(q) \div 2
<1>1. Len(q) \in Nat /\ Len(q) \div 2 \in Nat
  OBVIOUS
<1>2. \A i \in 1 .. (Len(q) \div 2) : 2 * i \in DOMAIN q
  BY <1>1
<1>3. ASSUME NEW i \in 1 .. (Len(q) \div 2) PROVE q[2 * i].prompt \in Prompts
  <2>1. q[2 * i] \in Message
    BY <1>2
  <2> QED BY <2>1 DEF Message
<1> QED BY <1>1, <1>3 DEF TurnsOf

\* A pending user message is in no turn yet.
LEMMA PendingInNoTurn ==
  ASSUME NEW q \in Seq(Message), NEW m \in Message, Len(q) % 2 = 0
  PROVE  TurnsOf(Append(q, m)) = TurnsOf(q)
<1>1. (Len(q) + 1) \div 2 = Len(q) \div 2
  OBVIOUS
<1>2. \A i \in 1 .. (Len(q) \div 2) : 2 * i \in 1 .. Len(q)
  OBVIOUS
<1>3. Len(Append(q, m)) = Len(q) + 1 /\ \A i \in 1 .. Len(q) : Append(q, m)[i] = q[i]
  OBVIOUS
<1> QED BY <1>1, <1>2, <1>3 DEF TurnsOf

\* A reply completes one turn.
LEMMA ReplyAddsTurn ==
  ASSUME NEW q \in Seq(Message), NEW m \in Message, Len(q) % 2 = 1
  PROVE  TurnsOf(Append(q, m)) = Append(TurnsOf(q), m.prompt)
<1> DEFINE k == Len(q) \div 2
<1>1. (Len(q) + 1) \div 2 = k + 1 /\ 2 * (k + 1) = Len(q) + 1 /\ k \in Nat
  OBVIOUS
<1>2. \A i \in 1 .. k : 2 * i \in 1 .. Len(q)
  OBVIOUS
<1>3. /\ Len(Append(q, m)) = Len(q) + 1 /\ Append(q, m)[Len(q) + 1] = m
      /\ \A i \in 1 .. Len(q) : Append(q, m)[i] = q[i]
  OBVIOUS
<1>4. TurnsOf(q) \in Seq(Prompts) /\ Len(TurnsOf(q)) = k /\ m.prompt \in Prompts
  BY TurnsType DEF Message
<1>5. TurnsOf(Append(q, m)) = [i \in 1 .. k + 1 |-> Append(q, m)[2 * i].prompt]
  BY <1>1, <1>3 DEF TurnsOf
<1>6. \A i \in 1 .. k : Append(q, m)[2 * i].prompt = TurnsOf(q)[i]
  BY <1>2, <1>3 DEF TurnsOf
<1>7. Append(q, m)[2 * (k + 1)].prompt = m.prompt
  BY <1>1, <1>3
<1> HIDE DEF k
<1>8. Append(TurnsOf(q), m.prompt) = [i \in 1 .. k + 1 |-> IF i = k + 1 THEN m.prompt ELSE TurnsOf(q)[i]]
  BY <1>1, <1>4
<1>9. \A i \in 1 .. k + 1 :
        Append(q, m)[2 * i].prompt = IF i = k + 1 THEN m.prompt ELSE TurnsOf(q)[i]
  BY SMTT(30), <1>1, <1>6, <1>7
<1> QED BY <1>5, <1>8, <1>9

\* Withdrawing the pending message takes no turn away.
LEMMA WithdrawKeepsTurns ==
  ASSUME NEW q \in Seq(Message), Len(q) % 2 = 1
  PROVE  TurnsOf(DropLast(q, 1)) = TurnsOf(q)
<1>1. 1 \in 1 .. Len(q) /\ (Len(q) - 1) \div 2 = Len(q) \div 2
  OBVIOUS
<1>2. Len(DropLast(q, 1)) = Len(q) - 1 /\ \A i \in 1 .. Len(q) - 1 : DropLast(q, 1)[i] = q[i]
  BY <1>1, DropLastPrefix
<1>3. \A i \in 1 .. (Len(q) \div 2) : 2 * i \in 1 .. Len(q) - 1
  OBVIOUS
<1> QED BY <1>1, <1>2, <1>3 DEF TurnsOf

\* Undoing a turn takes off the last one and no other.
LEMMA UndoDropsTurn ==
  ASSUME NEW q \in Seq(Message), Len(q) % 2 = 0, q # <<>>
  PROVE  /\ TurnsOf(q) # <<>>
         /\ TurnsOf(DropLast(q, 2)) = SubSeq(TurnsOf(q), 1, Len(TurnsOf(q)) - 1)
<1> DEFINE k == Len(q) \div 2
<1>1. 2 \in 1 .. Len(q) /\ (Len(q) - 2) \div 2 = k - 1 /\ k \in Nat /\ k >= 1
  OBVIOUS
<1>2. Len(DropLast(q, 2)) = Len(q) - 2 /\ \A i \in 1 .. Len(q) - 2 : DropLast(q, 2)[i] = q[i]
  BY <1>1, DropLastPrefix
<1>3. \A i \in 1 .. k - 1 : 2 * i \in 1 .. Len(q) - 2 /\ i \in 1 .. k
  OBVIOUS
<1>4. TurnsOf(q) \in Seq(Prompts) /\ Len(TurnsOf(q)) = k
  BY TurnsType
<1>5. TurnsOf(DropLast(q, 2)) = [i \in 1 .. k - 1 |-> DropLast(q, 2)[2 * i].prompt]
  BY <1>1, <1>2 DEF TurnsOf
<1>6. \A i \in 1 .. k - 1 : DropLast(q, 2)[2 * i].prompt = TurnsOf(q)[i]
  BY <1>2, <1>3 DEF TurnsOf
<1> HIDE DEF k
<1>7. TurnsOf(q) # <<>>
  BY <1>1, <1>4
<1>8. SubSeq(TurnsOf(q), 1, k - 1) = [i \in 1 .. k - 1 |-> TurnsOf(q)[i]]
  BY <1>1, <1>4
<1> QED BY <1>4, <1>5, <1>6, <1>7, <1>8

\* Every engine step is a step of the transcript, or changes nothing of it.
LEMMA TranscriptStep ==
  ASSUME IInv, IInv', [Next]_vars
  PROVE  [Transcript!Next]_(Transcript!tvars)
<1> DEFINE turns == CommittedTurns(engine)
<1> USE DEF Transcript!Next, Transcript!tvars, CommittedTurns
<1>1. /\ engine \in Engine /\ engine.messages \in Seq(Message)
      /\ Alternates(engine.messages) /\ PendingIsLastUser
  BY DEF IInv, TypeOK, Engine, RepliesAnswerTheirPrompt
<1>2. ASSUME engine'.messages = engine.messages, engine'.pending = engine.pending
      PROVE  [Transcript!Next]_(Transcript!tvars)
  BY <1>2
<1>3. ASSUME engine'.messages = <<>>, engine'.pending = NoPrompt
      PROVE  [Transcript!Next]_(Transcript!tvars)
  BY <1>3, NoTurns DEF Transcript!Clear
<1>4. CASE AppendUserMessage
  <2>1. /\ nextPrompt \in 1 .. MaxPrompt /\ engine'.pending = nextPrompt
        /\ engine'.messages = Append(engine.messages, User(nextPrompt))
    BY <1>1, <1>4 DEF AppendUserMessage, AppendUser, IInv, TypeOK, Engine
  <2>2. User(nextPrompt) \in Message
    BY <2>1 DEF User, Message
  <2>3. Len(engine.messages) % 2 = 0 /\ engine.pending = NoPrompt
    <3>1. engine.messages = <<>> \/ engine.messages[Len(engine.messages)].role = "assistant"
      BY <1>4 DEF AppendUserMessage, CanAppend, EndsWith
    <3>2. Len(engine.messages) % 2 = 0
      <4>1. CASE engine.messages = <<>>
        BY <4>1
      <4>2. CASE engine.messages # <<>>
        BY <1>1, <3>1, <4>2, LastRole
      <4> QED BY <4>1, <4>2
    <3> QED BY <1>1, <3>1, <3>2 DEF PendingIsLastUser, EndsWith
  <2>4. TurnsOf(engine'.messages) = TurnsOf(engine.messages)
    BY <1>1, <2>1, <2>2, <2>3, PendingInNoTurn
  <2> QED BY <2>1, <2>3, <2>4 DEF Transcript!Ask
<1>5. ASSUME NEW s \in Streams, GenerateStream(s) PROVE [Transcript!Next]_(Transcript!tvars)
  BY <1>2, <1>5 DEF GenerateStream
<1>6. ASSUME NEW s \in Streams, StreamStart(s) PROVE [Transcript!Next]_(Transcript!tvars)
  BY <1>1, <1>2, <1>6 DEF StreamStart, StartStream, Engine
<1>7. ASSUME NEW s \in Streams, StreamRefused(s) PROVE [Transcript!Next]_(Transcript!tvars)
  BY <1>2, <1>7 DEF StreamRefused
<1>8. ASSUME NEW s \in Streams, StreamComplete(s) PROVE [Transcript!Next]_(Transcript!tvars)
  <2> DEFINE p == streams[s].prompt
  <2>1. p \in Prompts /\ p = engine.pending
    BY <1>8 DEF StreamComplete, IInv, TypeOK, LivePrompts, ActiveOwnership, At
  <2>2. engine'.messages = Append(engine.messages, Assistant(p)) /\ engine'.pending = NoPrompt
    BY <1>1, <1>8 DEF StreamComplete, CompleteStream, Engine
  <2>3. Assistant(p) \in Message /\ Assistant(p).prompt = p
    BY <2>1 DEF Assistant, Message
  <2>4. Len(engine.messages) % 2 = 1
    BY <1>1, <2>1, LastRole DEF PendingIsLastUser, EndsWith
  <2>5. TurnsOf(engine'.messages) = Append(TurnsOf(engine.messages), engine.pending)
    BY <1>1, <2>1, <2>2, <2>3, <2>4, ReplyAddsTurn
  <2> QED BY <2>1, <2>2, <2>5 DEF Transcript!Answer
<1>9. ASSUME NEW s \in Streams, StreamFail(s) PROVE [Transcript!Next]_(Transcript!tvars)
  BY <1>1, <1>2, <1>9 DEF StreamFail, FinishInterrupted, Engine
<1>10. ASSUME NEW s \in Streams, StreamClose(s) PROVE [Transcript!Next]_(Transcript!tvars)
  BY <1>1, <1>2, <1>10 DEF StreamClose, FinishInterrupted, Engine
<1>11. ASSUME NEW b \in BOOLEAN, Rollback(b) PROVE [Transcript!Next]_(Transcript!tvars)
  <2>1. RollbackCount(engine, b) \in 1 .. Len(engine.messages)
    BY <1>1, <1>11, RollbackBound DEF Rollback, CanRollback
  <2>2. /\ engine'.messages = DropLast(engine.messages, RollbackCount(engine, b))
        /\ engine'.pending = NoPrompt
    BY <1>1, <1>11 DEF Rollback, RollbackLastTurn, Engine
  <2>3. CASE EndsWith(engine, "user")
    <3>1. Len(engine.messages) % 2 = 1 /\ RollbackCount(engine, b) = 1
      BY <1>1, <2>3, LastRole DEF EndsWith, RollbackCount
    <3>2. TurnsOf(engine'.messages) = TurnsOf(engine.messages)
      BY <1>1, <2>2, <3>1, WithdrawKeepsTurns
    <3> QED BY <1>1, <2>2, <2>3, <3>2 DEF Transcript!Withdraw, PendingIsLastUser
  <2>4. CASE ~EndsWith(engine, "user")
    <3>1. /\ RollbackCount(engine, b) = 2 /\ engine.messages # <<>>
          /\ engine.messages[Len(engine.messages)].role = "assistant"
      BY <2>1, <2>4 DEF EndsWith, RollbackCount
    <3>2. Len(engine.messages) % 2 = 0
      BY <1>1, <3>1, LastRole
    <3>3. /\ TurnsOf(engine.messages) # <<>>
          /\ TurnsOf(engine'.messages) =
               SubSeq(TurnsOf(engine.messages), 1, Len(TurnsOf(engine.messages)) - 1)
      BY <1>1, <2>2, <3>1, <3>2, UndoDropsTurn
    <3>4. engine.pending = NoPrompt
      BY <1>1, <2>4 DEF PendingIsLastUser
    <3> QED BY <2>2, <3>3, <3>4 DEF Transcript!Undo
  <2> QED BY <2>3, <2>4
<1>12. CASE Reset
  BY <1>1, <1>3, <1>12 DEF Reset, ResetEngine, Engine
<1>13. CASE Close
  BY <1>1, <1>2, <1>3, <1>13 DEF Close, CloseEngine, Engine
<1>14. CASE UNCHANGED vars
  BY <1>2, <1>14 DEF vars
<1> QED BY <1>4, <1>5, <1>6, <1>7, <1>8, <1>9, <1>10, <1>11, <1>12, <1>13, <1>14 DEF Next

\* The engine implements the transcript of whole turns: a client never sees half
\* a turn, whatever is cancelled, fails or is retried in between.
THEOREM TranscriptHolds == CloseBeforeReuse => (Spec => TranscriptIsTransactional)
<1> SUFFICES ASSUME CloseBeforeReuse PROVE Spec => TranscriptIsTransactional
  OBVIOUS
<1>1. Init => Transcript!Init
  BY NoTurns DEF Init, Transcript!Init, NewEngine, CommittedTurns
<1>2. IInv /\ IInv' /\ [Next]_vars => [Transcript!Next]_(Transcript!tvars)
  BY TranscriptStep
<1>3. Spec => []IInv
  BY IInvAlways
<1> QED BY <1>1, <1>2, <1>3, PTL DEF Spec, TranscriptIsTransactional, Transcript!Spec
=============================================================================
