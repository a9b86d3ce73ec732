------------------------- MODULE ChatSessionProofs -------------------------
(***************************************************************************)
(* Theorems about ChatSession (src/scratch_llm/web/service.py), for any    *)
(* number of checkpoint loads, generations, tokens and resets.             *)
(*                                                                         *)
(* The inductive invariant comes in three layers, each proved with the     *)
(* help of the ones before it:                                             *)
(*   OwnershipOK  who holds the service: at most one of a load's lock and  *)
(*                a lease; a live worker's engine is the current, open one;*)
(*                the FIFO holds callbacks of the current lease only;      *)
(*   StreamsOK    what a consumer has received and what is on its way;     *)
(*   TruthOK      the history is the answered turns and what the one live  *)
(*                turn has added so far, the counters and records agree.   *)
(* A worker's step is first named by what it does (WorkerKind), so that    *)
(* each layer has one case per kind of step.  The refinement of the        *)
(* transcript rests on TruthOK: the turns the clients see are those of the *)
(* settled part of the history, which no step of a worker changes.         *)
(***************************************************************************)
EXTENDS ChatSession, FiniteSetTheorems, SequenceTheorems, TLAPS

USE DEF NoPrompt, Prompts, None, Leases, Loads

-----------------------------------------------------------------------------
(* Types.                                                                  *)

LoadRecord == [pc : LoadPcs, thread : ThreadStates, ckpt : Checkpoints \cup {None}]
LeaseRecord == [pc : WorkerPcs, engine : Loads \cup {None}, session : Nat,
                cancel : BOOLEAN, appended : BOOLEAN,
                stream : {"none", "created", "running"}, event : Events,
                tokens : Nat, outcome : Outcomes, items : Seq(Events \cup Outcomes)]
Callback == [lease : Leases, item : Events \cup {"finish"}]
Finish(g) == <<[lease |-> g, item |-> "finish"]>>

\* What a worker does in one step, whatever made it do so: it gives up, appends
\* its message, makes a stream, starts it, takes a token, the completion or an
\* exception from it, accepts the completion, forwards an event, closes the
\* stream, and leaves, withdraws or fails to withdraw the turn.
GivesUp(g) ==
  \E o \in {"cancelled", "failed"} :
    /\ leases[g].pc \in {"begin", "prompted", "loop", "got"}
    /\ leases[g].pc = "got" => o = "cancelled"
    /\ WorkerStep(g, engines[leases[g].engine], Wind(leases[g], o), <<>>)
Appends(g) ==
  /\ leases[g].pc = "begin" /\ CanAppend(engines[leases[g].engine])
  /\ WorkerStep(g, AppendUser(engines[leases[g].engine], g),
                [leases[g] EXCEPT !.pc = "prompted", !.appended = TRUE], <<>>)
Creates(g) ==
  /\ leases[g].pc = "prompted"
  /\ WorkerStep(g, engines[leases[g].engine],
                [leases[g] EXCEPT !.pc = "loop", !.stream = "created"], <<>>)
Starts(g) ==
  /\ leases[g].pc = "loop" /\ leases[g].stream = "created"
  /\ CanStart(engines[leases[g].engine], g)
  /\ WorkerStep(g, StartStream(engines[leases[g].engine]),
                [leases[g] EXCEPT !.pc = "got", !.event = "start", !.stream = "running"], <<>>)
GetsToken(g) ==
  /\ leases[g].pc = "loop" /\ leases[g].stream = "running"
  /\ WorkerStep(g, engines[leases[g].engine],
                [leases[g] EXCEPT !.pc = "got", !.event = "token", !.stream = "running",
                                  !.tokens = @ + 1], <<>>)
Completes(g) ==
  /\ leases[g].pc = "loop" /\ leases[g].stream = "running"
  /\ CanComplete(engines[leases[g].engine], g)
  /\ WorkerStep(g, CompleteStream(engines[leases[g].engine], g),
                [leases[g] EXCEPT !.pc = "got", !.event = "complete", !.stream = "running"],
                <<>>)
Breaks(g) ==
  /\ leases[g].pc = "loop" /\ leases[g].stream = "running"
  /\ WorkerStep(g, FinishInterrupted(engines[leases[g].engine], "failed"),
                [leases[g] EXCEPT !.pc = "close", !.outcome = "failed", !.stream = "none"],
                <<>>)
Accepts(g) ==
  /\ leases[g].pc = "got" /\ leases[g].event = "complete"
  /\ WorkerStep(g, engines[leases[g].engine], Wind(leases[g], "completed"), <<>>)
Forwards(g) ==
  /\ leases[g].pc = "got" /\ leases[g].event # "complete"
  /\ WorkerStep(g, engines[leases[g].engine], [leases[g] EXCEPT !.pc = "loop"],
                <<[lease |-> g, item |-> leases[g].event]>>)
Closes(g) ==
  \E o \in {leases[g].outcome, "failed"} :
    /\ leases[g].pc = "close"
    /\ WorkerStep(g, IF leases[g].stream = "running"
                     THEN FinishInterrupted(engines[leases[g].engine], "cancelled")
                     ELSE engines[leases[g].engine],
                  [leases[g] EXCEPT !.pc = "rollback", !.stream = "none", !.outcome = o], <<>>)
Withdrawing(g) == leases[g].appended /\ leases[g].outcome # "completed"
Keeps(g) ==
  /\ leases[g].pc = "rollback" /\ ~Withdrawing(g)
  /\ WorkerStep(g, engines[leases[g].engine], [leases[g] EXCEPT !.pc = "posted"], Finish(g))
Undoes(g) ==
  /\ leases[g].pc = "rollback" /\ Withdrawing(g)
  /\ CanRollback(engines[leases[g].engine], TRUE)
  /\ WorkerStep(g, RollbackLastTurn(engines[leases[g].engine], TRUE),
                [leases[g] EXCEPT !.pc = "posted"], Finish(g))
CannotUndo(g) ==
  /\ leases[g].pc = "rollback" /\ Withdrawing(g)
  /\ ~CanRollback(engines[leases[g].engine], TRUE)
  /\ WorkerStep(g, engines[leases[g].engine],
                [leases[g] EXCEPT !.pc = "posted", !.outcome = "failed"], Finish(g))

WorkerKind(g) ==
  \/ GivesUp(g) \/ Appends(g) \/ Creates(g) \/ Starts(g) \/ GetsToken(g)
  \/ Completes(g) \/ Breaks(g) \/ Accepts(g) \/ Forwards(g) \/ Closes(g)
  \/ Keeps(g) \/ Undoes(g) \/ CannotUndo(g)

\* Every step of a worker is one of these.
LEMMA WorkerKinds ==
  ASSUME NEW g \in Leases, TypeOK, Worker(g)
  PROVE  WorkerKind(g)
<1> USE DEF WorkerKind
<1>0. leases[g] \in LeaseRecord
  BY DEF TypeOK, LeaseRecord
<1>1. CASE WorkerBegin(g)
  BY <1>1 DEF WorkerBegin, GivesUp, Appends
<1>2. CASE WorkerPrompted(g)
  BY <1>2 DEF WorkerPrompted, GivesUp, Creates
<1>3. CASE WorkerNext(g)
  <2>1. [[leases[g] EXCEPT !.pc = "got", !.event = "token", !.stream = "running"]
           EXCEPT !.tokens = @ + 1]
         = [leases[g] EXCEPT !.pc = "got", !.event = "token", !.stream = "running",
                             !.tokens = @ + 1]
    BY <1>0 DEF LeaseRecord
  <2>2. [Wind(leases[g], "failed") EXCEPT !.stream = "none"]
         = [leases[g] EXCEPT !.pc = "close", !.outcome = "failed", !.stream = "none"]
    BY <1>0 DEF LeaseRecord, Wind
  <2> DEFINE token == [[leases[g] EXCEPT !.pc = "got", !.event = "token",
                                         !.stream = "running"] EXCEPT !.tokens = @ + 1]
             broken == [Wind(leases[g], "failed") EXCEPT !.stream = "none"]
  <2>3. \/ GivesUp(g) \/ Starts(g) \/ Completes(g)
        \/ /\ leases[g].pc = "loop" /\ leases[g].stream = "running"
           /\ WorkerStep(g, engines[leases[g].engine], token, <<>>)
        \/ /\ leases[g].pc = "loop" /\ leases[g].stream = "running"
           /\ WorkerStep(g, FinishInterrupted(engines[leases[g].engine], "failed"), broken, <<>>)
    BY <1>3, Zenon DEF WorkerNext, GivesUp, Starts, Completes
  <2> QED BY <2>1, <2>2, <2>3 DEF GetsToken, Breaks
<1>4. CASE WorkerGot(g)
  BY <1>4 DEF WorkerGot, GivesUp, Accepts, Forwards
<1>5. CASE WorkerClose(g)
  <2>1. [leases[g] EXCEPT !.pc = "rollback", !.stream = "none"]
          = [leases[g] EXCEPT !.pc = "rollback", !.stream = "none",
                              !.outcome = leases[g].outcome]
    BY <1>0 DEF LeaseRecord
  <2> DEFINE kept == [leases[g] EXCEPT !.pc = "rollback", !.stream = "none"]
             closed == IF leases[g].stream = "running"
                       THEN FinishInterrupted(engines[leases[g].engine], "cancelled")
                       ELSE engines[leases[g].engine]
  <2>2. /\ leases[g].pc = "close"
        /\ \/ WorkerStep(g, closed, kept, <<>>)
           \/ WorkerStep(g, closed, [leases[g] EXCEPT !.pc = "rollback", !.stream = "none",
                                                     !.outcome = "failed"], <<>>)
    BY <1>5, Zenon DEF WorkerClose
  <2> HIDE DEF closed
  <2>3. PICK o \in {leases[g].outcome, "failed"} :
          WorkerStep(g, closed, [leases[g] EXCEPT !.pc = "rollback", !.stream = "none",
                                                  !.outcome = o], <<>>)
    BY <2>1, <2>2
  <2> QED BY <2>2, <2>3, Zenon DEF Closes, closed
<1>6. CASE WorkerRollback(g)
  BY <1>6 DEF WorkerRollback, Keeps, Undoes, CannotUndo, Withdrawing, Finish
<1> QED BY <1>1, <1>2, <1>3, <1>4, <1>5, <1>6, Zenon DEF Worker

\* What rollback discards, when it does, and the prefix of a sequence it keeps.
LEMMA RollbackBound ==
  ASSUME NEW e \in Engine, NEW b \in BOOLEAN, RollbackCount(e, b) > 0
  PROVE  RollbackCount(e, b) \in 1 .. Len(e.messages)
  BY DEF RollbackCount, EndsWith, Engine

LEMMA DropLastPrefix ==
  ASSUME NEW S, NEW q \in Seq(S), NEW n \in 1 .. Len(q)
  PROVE  /\ DropLast(q, n) \in Seq(S)
         /\ Len(DropLast(q, n)) = Len(q) - n
         /\ \A i \in 1 .. Len(q) - n : DropLast(q, n)[i] = q[i]
  BY DEF DropLast

\* The engine operations return engines.
LEMMA OperationTypes ==
  ASSUME NEW e \in Engine, NEW p \in Prompts
  PROVE  /\ AppendUser(e, p) \in Engine
         /\ StartStream(e) \in Engine
         /\ CompleteStream(e, p) \in Engine
         /\ \A s \in Statuses : FinishInterrupted(e, s) \in Engine
         /\ \A b \in BOOLEAN : CanRollback(e, b) => RollbackLastTurn(e, b) \in Engine
         /\ ResetEngine(e) \in Engine
         /\ Released(e) \in Engine
<1>1. AppendUser(e, p) \in Engine
  <2>1. User(p) \in Message
    BY DEF User, Message
  <2>2. Append(e.messages, User(p)) \in Seq(Message)
    BY <2>1 DEF Engine
  <2> QED BY <2>2 DEF AppendUser, Engine, Statuses
<1>2. StartStream(e) \in Engine
  BY DEF StartStream, Engine, Statuses
<1>3. CompleteStream(e, p) \in Engine
  <2>1. Assistant(p) \in Message
    BY DEF Assistant, Message
  <2>2. Append(e.messages, Assistant(p)) \in Seq(Message)
    BY <2>1 DEF Engine
  <2> QED BY <2>2 DEF CompleteStream, Engine, Statuses
<1>4. \A s \in Statuses : FinishInterrupted(e, s) \in Engine
  BY DEF FinishInterrupted, Engine
<1>5. ASSUME NEW b \in BOOLEAN, CanRollback(e, b)
      PROVE  RollbackLastTurn(e, b) \in Engine
  <2>1. RollbackCount(e, b) \in 1 .. Len(e.messages)
    BY <1>5, RollbackBound DEF CanRollback
  <2>2. DropLast(e.messages, RollbackCount(e, b)) \in Seq(Message)
    BY <2>1, DropLastPrefix DEF Engine
  <2> QED BY <2>2 DEF RollbackLastTurn, Engine, Statuses
<1>e. <<>> \in Seq(Message)
  OBVIOUS
<1>6. ResetEngine(e) \in Engine
  BY <1>e DEF ResetEngine, Engine, Statuses
<1>7. Released(e) \in Engine
  BY <1>e DEF Released, CloseEngine, Engine
<1> QED BY <1>1, <1>2, <1>3, <1>4, <1>5, <1>6, <1>7

LEMMA NewEngineType == NewEngine \in Engine
<1>1. <<>> \in Seq(Message)
  OBVIOUS
<1> QED BY <1>1 DEF NewEngine, Engine, Statuses

LEMMA TypeInit == Init => TypeOK
<1> SUFFICES ASSUME Init PROVE TypeOK
  OBVIOUS
<1>1. [l \in Loads |-> NewEngine] \in [Loads -> Engine]
  BY NewEngineType
<1>2. [pc |-> "unused", engine |-> None, session |-> 0, cancel |-> FALSE,
       appended |-> FALSE, stream |-> "none", event |-> "start", tokens |-> 0,
       outcome |-> "failed", items |-> <<>>] \in LeaseRecord
  BY DEF LeaseRecord, WorkerPcs, Events, Outcomes
<1>3. [g \in Leases |->
        [pc |-> "unused", engine |-> None, session |-> 0, cancel |-> FALSE,
         appended |-> FALSE, stream |-> "none", event |-> "start", tokens |-> 0,
         outcome |-> "failed", items |-> <<>>]] \in [Leases -> LeaseRecord]
  BY <1>2
<1>4. leases \in [Leases -> LeaseRecord]
  BY <1>3 DEF Init
<1> QED BY <1>1, <1>4 DEF Init, TypeOK, LeaseRecord, LoadPcs, ThreadStates

\* The types, with names for the records.
LEMMA Types ==
  TypeOK <=>
    /\ status \in {"unloaded", "loading", "ready", "generating", "failed"}
    /\ engine \in Loads \cup {None}
    /\ checkpoint \in Checkpoints \cup {None}
    /\ lock \in Loads \cup {None}
    /\ loads \in [Loads -> LoadRecord]
    /\ engines \in [Loads -> Engine]
    /\ lease \in Leases \cup {None}
    /\ leases \in [Leases -> LeaseRecord]
    /\ callbacks \in Seq(Callback)
    /\ session \in [id : Nat, turns : Nat, tracked : Nat, trackedId : Nat]
    /\ records \in Seq([turn : Leases, session : Nat, count : Nat])
    /\ shutdown \in {"serving", "waitLease", "waitLock", "done"}
  BY DEF TypeOK, LoadRecord, LeaseRecord, Callback

\* An update of a function at one argument, whether or not in its domain.
LEMMA UpdateType ==
  ASSUME NEW D, NEW R, NEW f \in [D -> R], NEW x, NEW v, x \in D => v \in R
  PROVE  [f EXCEPT ![x] = v] \in [D -> R]
  OBVIOUS

LEMMA WorkerTypes ==
  ASSUME TypeOK, NEW g \in Leases, NEW e2, NEW w2, NEW posted,
         WorkerStep(g, e2, w2, posted),
         leases[g].engine \in Loads => e2 \in Engine,
         w2 \in LeaseRecord, posted \in Seq(Callback)
  PROVE  TypeOK'
<1>1. engines' \in [Loads -> Engine]
  BY UpdateType, Types DEF WorkerStep
<1>2. leases' \in [Leases -> LeaseRecord]
  BY Types DEF WorkerStep
<1>3. callbacks' \in Seq(Callback)
  BY Types DEF WorkerStep
<1> QED BY <1>1, <1>2, <1>3, Types
     DEF WorkerStep, loadVars, TypeOK, LoadRecord, LeaseRecord, Callback

\* The lease after any step of its worker.
LEMMA WorkerRecords ==
  ASSUME NEW w \in LeaseRecord
  PROVE  /\ \A o \in Outcomes : Wind(w, o) \in LeaseRecord
         /\ [w EXCEPT !.pc = "prompted", !.appended = TRUE] \in LeaseRecord
         /\ [w EXCEPT !.pc = "loop", !.stream = "created"] \in LeaseRecord
         /\ [w EXCEPT !.pc = "got", !.event = "start", !.stream = "running"] \in LeaseRecord
         /\ [w EXCEPT !.pc = "got", !.event = "token", !.stream = "running",
                      !.tokens = @ + 1] \in LeaseRecord
         /\ [w EXCEPT !.pc = "got", !.event = "complete", !.stream = "running"] \in LeaseRecord
         /\ [w EXCEPT !.pc = "close", !.outcome = "failed", !.stream = "none"] \in LeaseRecord
         /\ [w EXCEPT !.pc = "loop"] \in LeaseRecord
         /\ \A o \in Outcomes :
              [w EXCEPT !.pc = "rollback", !.stream = "none", !.outcome = o] \in LeaseRecord
         /\ [w EXCEPT !.pc = "posted"] \in LeaseRecord
         /\ [w EXCEPT !.pc = "posted", !.outcome = "failed"] \in LeaseRecord
<1> USE DEF LeaseRecord, WorkerPcs, Events, Outcomes
<1>1. \A o \in Outcomes : Wind(w, o) \in LeaseRecord
  BY DEF Wind
<1>2. [w EXCEPT !.pc = "prompted", !.appended = TRUE] \in LeaseRecord
  OBVIOUS
<1>3. [w EXCEPT !.pc = "loop", !.stream = "created"] \in LeaseRecord
  OBVIOUS
<1>4. [w EXCEPT !.pc = "got", !.event = "start", !.stream = "running"] \in LeaseRecord
  OBVIOUS
<1>5. [w EXCEPT !.pc = "got", !.event = "token", !.stream = "running",
                !.tokens = @ + 1] \in LeaseRecord
  <2> DEFINE n == w.tokens + 1
  <2>1. n \in Nat
    OBVIOUS
  <2> HIDE DEF n
  <2>2. [w EXCEPT !.pc = "got", !.event = "token", !.stream = "running",
                  !.tokens = n] \in LeaseRecord
    BY <2>1
  <2> QED BY <2>2 DEF n
<1>6. [w EXCEPT !.pc = "got", !.event = "complete", !.stream = "running"] \in LeaseRecord
  OBVIOUS
<1>7. [w EXCEPT !.pc = "close", !.outcome = "failed", !.stream = "none"] \in LeaseRecord
  OBVIOUS
<1>8. [w EXCEPT !.pc = "loop"] \in LeaseRecord
  OBVIOUS
<1>9. \A o \in Outcomes :
        [w EXCEPT !.pc = "rollback", !.stream = "none", !.outcome = o] \in LeaseRecord
  OBVIOUS
<1>10. [w EXCEPT !.pc = "posted"] \in LeaseRecord
  OBVIOUS
<1>11. [w EXCEPT !.pc = "posted", !.outcome = "failed"] \in LeaseRecord
  OBVIOUS
<1> QED BY <1>1, <1>2, <1>3, <1>4, <1>5, <1>6, <1>7, <1>8, <1>9, <1>10, <1>11, Zenon

LEMMA WorkerTypeStep ==
  ASSUME TypeOK, NEW g \in Leases, WorkerKind(g)
  PROVE  TypeOK'
<1> DEFINE w == leases[g]
           e == engines[w.engine]
<1>w. w \in LeaseRecord
  BY Types
<1>e. w.engine \in Loads => e \in Engine
  BY Types
<1>g. g \in Prompts
  OBVIOUS
<1>n. <<>> \in Seq(Callback)
  OBVIOUS
<1>f. Finish(g) \in Seq(Callback)
  <2>1. [lease |-> g, item |-> "finish"] \in Callback
    BY DEF Callback
  <2> QED BY <2>1 DEF Finish
<1> HIDE DEF w, e
<1>0. /\ w = leases[g] /\ e = engines[w.engine]
  BY DEF w, e
<1>1. CASE GivesUp(g)
  <2>1. PICK o \in {"cancelled", "failed"} : WorkerStep(g, e, Wind(w, o), <<>>)
    BY <1>1, <1>0, Zenon DEF GivesUp
  <2> QED BY <2>1, <1>w, <1>e, <1>n, WorkerTypes, WorkerRecords DEF Outcomes, w
<1>2. CASE Appends(g)
  BY <1>2, <1>0, <1>w, <1>e, <1>n, <1>g, WorkerTypes, WorkerRecords, OperationTypes DEF Appends
<1>3. CASE Creates(g)
  BY <1>3, <1>0, <1>w, <1>e, <1>n, WorkerTypes, WorkerRecords DEF Creates
<1>4. CASE Starts(g)
  BY <1>4, <1>0, <1>w, <1>e, <1>n, <1>g, WorkerTypes, WorkerRecords, OperationTypes DEF Starts
<1>5. CASE GetsToken(g)
  BY <1>5, <1>0, <1>w, <1>e, <1>n, WorkerTypes, WorkerRecords DEF GetsToken
<1>6. CASE Completes(g)
  BY <1>6, <1>0, <1>w, <1>e, <1>n, <1>g, WorkerTypes, WorkerRecords, OperationTypes DEF Completes
<1>7. CASE Breaks(g)
  BY <1>7, <1>0, <1>w, <1>e, <1>n, <1>g, WorkerTypes, WorkerRecords, OperationTypes
     DEF Breaks, Statuses
<1>8. CASE Accepts(g)
  BY <1>8, <1>0, <1>w, <1>e, <1>n, WorkerTypes, WorkerRecords DEF Accepts, Outcomes
<1>9. CASE Forwards(g)
  <2>1. [lease |-> g, item |-> w.event] \in Callback
    BY <1>w DEF LeaseRecord, Callback
  <2>2. <<[lease |-> g, item |-> w.event]>> \in Seq(Callback)
    BY <2>1
  <2> QED BY <1>9, <1>0, <1>w, <1>e, <2>2, WorkerTypes, WorkerRecords DEF Forwards
<1>10. CASE Closes(g)
  <2> DEFINE e2 == IF w.stream = "running" THEN FinishInterrupted(e, "cancelled") ELSE e
  <2>1. w.engine \in Loads => e2 \in Engine
    BY <1>e, <1>g, OperationTypes DEF Statuses
  <2>2. PICK o \in {w.outcome, "failed"} :
          WorkerStep(g, e2, [w EXCEPT !.pc = "rollback", !.stream = "none", !.outcome = o], <<>>)
    BY <1>10, <1>0, Zenon DEF Closes
  <2>3. o \in Outcomes
    BY <1>w DEF LeaseRecord, Outcomes
  <2>4. [w EXCEPT !.pc = "rollback", !.stream = "none", !.outcome = o] \in LeaseRecord
    BY <2>3, <1>w, WorkerRecords, Zenon
  <2> HIDE DEF e2
  <2> QED BY <2>1, <2>2, <2>4, <1>0, <1>w, <1>n, WorkerTypes
<1>11. CASE Keeps(g)
  BY <1>11, <1>0, <1>w, <1>e, <1>f, WorkerTypes, WorkerRecords DEF Keeps
<1>12. CASE Undoes(g)
  BY <1>12, <1>0, <1>w, <1>e, <1>f, <1>g, WorkerTypes, WorkerRecords, OperationTypes DEF Undoes
<1>13. CASE CannotUndo(g)
  BY <1>13, <1>0, <1>w, <1>e, <1>f, WorkerTypes, WorkerRecords DEF CannotUndo
<1> QED BY <1>1, <1>2, <1>3, <1>4, <1>5, <1>6, <1>7, <1>8, <1>9, <1>10, <1>11, <1>12, <1>13
     DEF WorkerKind

LEMMA ReleaseTypes == TypeOK => ReleaseCurrent \in [Loads -> Engine]
<1>1. 1 \in Prompts
  OBVIOUS
<1> QED BY <1>1, OperationTypes, Types DEF ReleaseCurrent

\* The terminal callback's three outcomes, once its turn is named: how the
\* session, the engines and the records end.
Delivers(g, o) ==
  leases' = [leases EXCEPT ![g].pc = "over", ![g].outcome = o, ![g].items = Append(@, o)]
Counts(g) ==
  /\ leases[g].outcome = "completed" /\ engine # None
  /\ "logged" \in TrackerResults
  /\ records' = Append(records, [turn |-> g, session |-> session.trackedId,
                                 count |-> session.tracked + 1])
  /\ session' = [session EXCEPT !.turns = @ + 1, !.tracked = @ + 1]
  /\ Delivers(g, "completed") /\ UNCHANGED engines
TakesBack(g) ==
  /\ leases[g].outcome = "completed" /\ engine # None
  /\ \/ records' = records
     \/ "partial" \in TrackerResults
        /\ records' = Append(records, [turn |-> g, session |-> session.trackedId,
                                       count |-> session.tracked + 1])
  /\ engines' = IF CanRollback(engines[engine], TRUE)
                THEN [engines EXCEPT ![engine] = RollbackLastTurn(@, TRUE)] ELSE engines
  /\ Delivers(g, "failed") /\ UNCHANGED session
CountsAlone(g) ==
  /\ leases[g].outcome = "completed" /\ engine = None
  /\ session' = [session EXCEPT !.turns = @ + 1]
  /\ Delivers(g, "completed") /\ UNCHANGED <<engines, records>>
Reports(g) ==
  /\ leases[g].outcome # "completed"
  /\ Delivers(g, leases[g].outcome) /\ UNCHANGED <<engines, session, records>>

LEMMA FinishKinds ==
  ASSUME TypeOK, FinishGeneration, NEW g, g = Head(callbacks).lease
  PROVE  /\ g \in Leases /\ callbacks # <<>> /\ Head(callbacks).item = "finish"
         /\ callbacks' = Tail(callbacks)
         /\ IF lease = g
            THEN lease' = None /\ status' = (IF engine # None THEN "ready" ELSE "unloaded")
            ELSE UNCHANGED <<lease, status>>
         /\ Counts(g) \/ TakesBack(g) \/ CountsAlone(g) \/ Reports(g)
         /\ UNCHANGED <<engine, loadVars, shutdown>>
<1>1. TrackerResults \subseteq {"logged", "refused", "partial"}
  BY ChatSessionAssumption
<1>2. callbacks # <<>> => Head(callbacks) \in Callback
  BY Types
<1>3. g \in Leases /\ callbacks # <<>> /\ Head(callbacks).item = "finish"
  BY <1>2 DEF FinishGeneration, Callback
<1>4. /\ IF lease = g
         THEN lease' = None /\ status' = (IF engine # None THEN "ready" ELSE "unloaded")
         ELSE UNCHANGED <<lease, status>>
      /\ UNCHANGED <<engine, loadVars, shutdown>>
      /\ callbacks' = Tail(callbacks)
  BY DEF FinishGeneration
<1>5. \/ leases[g].outcome = "completed" /\ engine # None
         /\ \E result \in TrackerResults :
              /\ RecordTurn(g, result)
              /\ IF result = "logged"
                 THEN /\ session' = [session EXCEPT !.turns = @ + 1, !.tracked = @ + 1]
                      /\ Delivers(g, "completed") /\ UNCHANGED engines
                 ELSE /\ engines' = IF CanRollback(engines[engine], TRUE)
                                    THEN [engines EXCEPT ![engine] = RollbackLastTurn(@, TRUE)]
                                    ELSE engines
                      /\ Delivers(g, "failed") /\ UNCHANGED session
      \/ CountsAlone(g) \/ Reports(g)
  BY Zenon DEF FinishGeneration, CountsAlone, Reports, Delivers
<1>6. CASE leases[g].outcome = "completed" /\ engine # None
  <2>1. CASE CountsAlone(g) \/ Reports(g)
    BY <2>1, <1>3, <1>4
  <2>2. PICK result \in TrackerResults :
            /\ RecordTurn(g, result)
            /\ IF result = "logged"
               THEN /\ session' = [session EXCEPT !.turns = @ + 1, !.tracked = @ + 1]
                    /\ Delivers(g, "completed") /\ UNCHANGED engines
               ELSE /\ engines' = IF CanRollback(engines[engine], TRUE)
                                  THEN [engines EXCEPT ![engine] = RollbackLastTurn(@, TRUE)]
                                  ELSE engines
                    /\ Delivers(g, "failed") /\ UNCHANGED session
    BY <1>5, <1>6, Zenon DEF CountsAlone, Reports
  <2>3. CASE result = "logged"
    BY <2>2, <2>3, <1>6, <1>3, <1>4, Zenon DEF RecordTurn, Counts
  <2>4. CASE result # "logged"
    <3>1. \/ records' = records
          \/ "partial" \in TrackerResults
             /\ records' = Append(records, [turn |-> g, session |-> session.trackedId,
                                            count |-> session.tracked + 1])
      BY <2>2, <2>4, <1>1 DEF RecordTurn
    <3> QED BY <3>1, <2>2, <2>4, <1>6, <1>3, <1>4, Zenon DEF TakesBack
  <2> QED BY <2>3, <2>4
<1>7. CASE ~(leases[g].outcome = "completed" /\ engine # None)
  BY <1>5, <1>7, <1>3, <1>4
<1> QED BY <1>6, <1>7

LEMMA FinishTypes == TypeOK /\ FinishGeneration => TypeOK'
<1> SUFFICES ASSUME TypeOK, FinishGeneration PROVE TypeOK'
  OBVIOUS
<1> DEFINE g == Head(callbacks).lease
           r == [turn |-> g, session |-> session.trackedId, count |-> session.tracked + 1]
<1>1. /\ g \in Leases /\ callbacks # <<>>
      /\ callbacks' = Tail(callbacks)
      /\ IF lease = g
         THEN lease' = None /\ status' = (IF engine # None THEN "ready" ELSE "unloaded")
         ELSE UNCHANGED <<lease, status>>
      /\ Counts(g) \/ TakesBack(g) \/ CountsAlone(g) \/ Reports(g)
      /\ UNCHANGED <<engine, loadVars, shutdown>>
  BY FinishKinds
<1> DEFINE Record == [turn : Leases, session : Nat, count : Nat]
<1>r. r \in Record
  BY <1>1, Types
<1>t. callbacks' \in Seq(Callback)
  BY <1>1, Types, HeadTailProperties
<1> HIDE DEF g, r, Record
<1>2. ASSUME NEW o \in Outcomes, Delivers(g, o) PROVE leases' \in [Leases -> LeaseRecord]
  <2>0. leases[g] \in LeaseRecord
    BY <1>1, Types
  <2>1. Append(leases[g].items, o) \in Seq(Events \cup Outcomes)
    BY <2>0 DEF LeaseRecord
  <2> DEFINE s == Append(leases[g].items, o)
  <2> HIDE DEF s
  <2>2. [leases[g] EXCEPT !.pc = "over", !.outcome = o, !.items = s] \in LeaseRecord
    BY <2>0, <2>1 DEF s, LeaseRecord, WorkerPcs
  <2>3. leases' = [leases EXCEPT ![g] = [leases[g] EXCEPT !.pc = "over", !.outcome = o,
                                                          !.items = s]]
    BY <1>1, <1>2, Types DEF Delivers, s
  <2> QED BY <2>2, <2>3, Types
<1>3. leases' \in [Leases -> LeaseRecord]
  <2>1. leases[g].outcome \in Outcomes
    BY <1>1, Types DEF LeaseRecord
  <2>2. "completed" \in Outcomes /\ "failed" \in Outcomes
    BY DEF Outcomes
  <2> QED BY <1>1, <1>2, <2>1, <2>2, Zenon DEF Counts, TakesBack, CountsAlone, Reports
<1>4. engines' \in [Loads -> Engine]
  <2>1. CASE TakesBack(g)
    <3>1. 1 \in Prompts /\ TRUE \in BOOLEAN
      OBVIOUS
    <3>2. CASE engine \in Loads
      <4>1. engines[engine] \in Engine
        BY <3>2, Types
      <4>2. CanRollback(engines[engine], TRUE) => RollbackLastTurn(engines[engine], TRUE) \in Engine
        BY <4>1, <3>1, OperationTypes
      <4> QED BY <2>1, <4>2, Types DEF TakesBack
    <3>3. CASE engine \notin Loads
      BY <2>1, <3>3, Types DEF TakesBack
    <3> QED BY <3>2, <3>3
  <2> QED BY <2>1, <1>1, Types DEF Counts, CountsAlone, Reports
<1>5. session' \in [id : Nat, turns : Nat, tracked : Nat, trackedId : Nat]
  <2>1. session \in [id : Nat, turns : Nat, tracked : Nat, trackedId : Nat]
    BY Types
  <2>2. ASSUME NEW m \in Nat, NEW n \in Nat
        PROVE  /\ [session EXCEPT !.turns = m, !.tracked = n]
                    \in [id : Nat, turns : Nat, tracked : Nat, trackedId : Nat]
               /\ [session EXCEPT !.turns = m]
                    \in [id : Nat, turns : Nat, tracked : Nat, trackedId : Nat]
    BY <2>1
  <2>3. session.turns + 1 \in Nat /\ session.tracked + 1 \in Nat
    BY <2>1
  <2>4. \/ session' = session
        \/ session' = [session EXCEPT !.turns = session.turns + 1,
                                      !.tracked = session.tracked + 1]
        \/ session' = [session EXCEPT !.turns = session.turns + 1]
    BY <1>1, Zenon DEF Counts, TakesBack, CountsAlone, Reports
  <2> QED BY <2>1, <2>2, <2>3, <2>4
<1>6. records' \in Seq(Record)
  <2>1. records \in Seq(Record)
    BY Types DEF Record
  <2>2. Append(records, r) \in Seq(Record)
    BY <2>1, <1>r
  <2>3. records' = records \/ records' = Append(records, r)
    BY <1>1, Zenon DEF Counts, TakesBack, CountsAlone, Reports, r
  <2> QED BY <2>1, <2>2, <2>3
<1>7. /\ lease' \in Leases \cup {None}
      /\ status' \in {"unloaded", "loading", "ready", "generating", "failed"}
  BY <1>1, Types
<1> QED BY <1>1, <1>t, <1>3, <1>4, <1>5, <1>6, <1>7, Types
     DEF loadVars, Record, TypeOK, LoadRecord, LeaseRecord, Callback

LEMMA ForwardTypes == TypeOK /\ ForwardEvent => TypeOK'
<1> SUFFICES ASSUME TypeOK, ForwardEvent PROVE TypeOK'
  OBVIOUS
<1> DEFINE g == Head(callbacks).lease
           s == Append(leases[g].items, Head(callbacks).item)
<1>1. /\ callbacks # <<>> /\ Head(callbacks).item # "finish"
      /\ callbacks' = Tail(callbacks)
      /\ leases' = [leases EXCEPT ![g].items = s]
  BY DEF ForwardEvent
<1>2. Head(callbacks) \in Callback
  BY <1>1, Types
<1>3. g \in Leases /\ leases[g] \in LeaseRecord
  BY <1>2, Types DEF Callback
<1>4. s \in Seq(Events \cup Outcomes)
  BY <1>1, <1>2, <1>3 DEF Callback, LeaseRecord
<1>5. callbacks' \in Seq(Callback)
  BY <1>1, Types, HeadTailProperties
<1> HIDE DEF g, s
<1>6. leases' \in [Leases -> LeaseRecord]
  BY <1>1, <1>3, <1>4, Types DEF LeaseRecord
<1> QED BY <1>5, <1>6, Types
     DEF ForwardEvent, loadVars, TypeOK, LoadRecord, LeaseRecord, Callback

LEMMA CancelTypes ==
  ASSUME TypeOK, NEW g \in Leases
  PROVE  [leases EXCEPT ![g].cancel = TRUE] \in [Leases -> LeaseRecord]
<1>1. leases[g] \in LeaseRecord
  BY Types
<1>2. [leases[g] EXCEPT !.cancel = TRUE] \in LeaseRecord
  BY <1>1 DEF LeaseRecord
<1> QED BY <1>2, Types

LEMMA TypeStep == TypeOK /\ [Next]_vars => TypeOK'
<1> SUFFICES ASSUME TypeOK, [Next]_vars PROVE TypeOK'
  OBVIOUS
<1> USE DEF LoadPcs, ThreadStates, WorkerPcs
<1>0. 1 \in Prompts
  OBVIOUS
<1>s. ASSUME NewSession PROVE session' \in [id : Nat, turns : Nat, tracked : Nat, trackedId : Nat]
  BY <1>s, Types DEF NewSession
<1>1. ASSUME NEW l \in Loads, NEW c \in Checkpoints, LoadCheckpoint(l, c) PROVE TypeOK'
  <2>1. loads' \in [Loads -> LoadRecord]
    BY <1>1, Types DEF LoadCheckpoint, LoadRecord
  <2> QED BY <1>1, <2>1, Types DEF LoadCheckpoint, TypeOK, LoadRecord, LeaseRecord, Callback
<1>2. ASSUME NEW l \in Loads, LoadThread(l) PROVE TypeOK'
  <2>1. loads' \in [Loads -> LoadRecord]
    <3>1. loads[l] \in LoadRecord
      BY Types
    <3>2. \A t \in {"built", "raised"} : [loads[l] EXCEPT !.thread = t] \in LoadRecord
      BY <3>1 DEF LoadRecord
    <3> QED BY <1>2, <3>2, Types DEF LoadThread
  <2> QED BY <1>2, <2>1, Types DEF LoadThread, TypeOK, LoadRecord, LeaseRecord, Callback
<1>3. ASSUME NEW l \in Loads, LoadSucceeds(l) PROVE TypeOK'
  <2>1. loads' \in [Loads -> LoadRecord] /\ checkpoint' \in Checkpoints \cup {None}
    BY ZenonT(60), <1>3, Types DEF LoadSucceeds, LoadRecord
  <2>2. engines' \in [Loads -> Engine]
    BY <1>3, ReleaseTypes DEF LoadSucceeds
  <2> QED BY <1>3, <1>s, <2>1, <2>2, Types
       DEF LoadSucceeds, TypeOK, LoadRecord, LeaseRecord, Callback
<1>4. ASSUME NEW l \in Loads, LoadFails(l) PROVE TypeOK'
  <2>1. loads' \in [Loads -> LoadRecord]
    BY SMTT(30), <1>4, Types DEF LoadFails, LoadRecord
  <2>2. engines' \in [Loads -> Engine]
    BY <1>4, <1>0, OperationTypes, Types DEF LoadFails
  <2> QED BY <1>4, <2>1, <2>2, Types DEF LoadFails, TypeOK, LoadRecord, LeaseRecord, Callback
<1>5. ASSUME NEW l \in Loads, LoadCancelled(l) PROVE TypeOK'
  <2>1. loads' \in [Loads -> LoadRecord]
    BY ZenonT(60), <1>5, Types DEF LoadCancelled, LoadRecord
  <2> QED BY <1>5, <2>1, Types DEF LoadCancelled, TypeOK, LoadRecord, LeaseRecord, Callback
<1>6. ASSUME NEW l \in Loads, ReleaseCancelled(l) PROVE TypeOK'
  <2>1. loads' \in [Loads -> LoadRecord]
    BY ZenonT(60), <1>6, Types DEF ReleaseCancelled, LoadRecord
  <2>2. engines' \in [Loads -> Engine]
    BY <1>6, <1>0, OperationTypes, Types DEF ReleaseCancelled
  <2> QED BY <1>6, <2>1, <2>2, Types
       DEF ReleaseCancelled, TypeOK, LoadRecord, LeaseRecord, Callback
<1>7. CASE Reset
  <2>1. engines' \in [Loads -> Engine]
    BY <1>7, <1>0, OperationTypes, Types DEF Reset
  <2> QED BY <1>7, <1>s, <2>1, Types
       DEF Reset, loadVars, TypeOK, LoadRecord, LeaseRecord, Callback
<1>8. ASSUME NEW g \in Leases, StartGeneration(g) PROVE TypeOK'
  <2>1. leases[g] \in LeaseRecord /\ session.id \in Nat /\ engine \in Loads \cup {None}
    BY Types
  <2>2. [leases[g] EXCEPT !.pc = "begin", !.engine = engine, !.session = session.id]
          \in LeaseRecord
    BY <2>1 DEF LeaseRecord
  <2>3. leases' = [leases EXCEPT ![g] = [leases[g] EXCEPT !.pc = "begin", !.engine = engine,
                                                          !.session = session.id]]
    BY <1>8, Types DEF StartGeneration
  <2>4. leases' \in [Leases -> LeaseRecord]
    BY <2>2, <2>3, Types
  <2> QED BY <1>8, <2>4, Types
       DEF StartGeneration, loadVars, TypeOK, LoadRecord, LeaseRecord, Callback
<1>9. ASSUME NEW g \in Leases, Cancel(g) PROVE TypeOK'
  <2>1. leases' \in [Leases -> LeaseRecord]
    BY <1>9, CancelTypes, Types DEF Cancel
  <2> QED BY SMTT(30), <1>9, <2>1, Types DEF Cancel, loadVars, TypeOK, LoadRecord, LeaseRecord, Callback
<1>10. ASSUME NEW g \in Leases, Worker(g) PROVE TypeOK'
  BY <1>10, WorkerKinds, WorkerTypeStep
<1>11. CASE ForwardEvent
  BY <1>11, ForwardTypes
<1>12. CASE FinishGeneration
  BY <1>12, FinishTypes
<1>13. CASE ShutdownBegin
  <2>1. leases' \in [Leases -> LeaseRecord]
    BY <1>13, CancelTypes, Types DEF ShutdownBegin
  <2> QED BY <1>13, <2>1, Types
       DEF ShutdownBegin, loadVars, TypeOK, LoadRecord, LeaseRecord, Callback
<1>14. CASE ShutdownAwaited
  BY <1>14 DEF ShutdownAwaited, loadVars, TypeOK
<1>15. CASE ShutdownRelease
  <2>1. engines' \in [Loads -> Engine]
    BY <1>15, ReleaseTypes DEF ShutdownRelease
  <2> QED BY <1>15, <2>1, Types DEF ShutdownRelease, TypeOK, LoadRecord, LeaseRecord, Callback
<1>16. CASE UNCHANGED vars
  BY <1>16 DEF vars, loadVars, TypeOK
<1> QED BY <1>1, <1>2, <1>3, <1>4, <1>5, <1>6, <1>7, <1>8, <1>9, <1>10, <1>11, <1>12,
        <1>13, <1>14, <1>15, <1>16 DEF Next, LoadSettles

\* Every state of every behaviour has the declared types, whatever the clients,
\* threads and trackers do: a lease has one of nine phases, an engine one of six
\* statuses (service.py:220-280, 843-945, 947-1011).
THEOREM SessionTypesHold == SafeSpec => []TypeOK
<1> QED BY TypeInit, TypeStep, PTL DEF SafeSpec

-----------------------------------------------------------------------------
(* The inductive invariant.                                                *)

\* A load and its engine: until the load is swapped in or released the engine is
\* as it was built, and once the load is done a built engine is current or closed.
LoadOK(l) ==
  /\ loads[l].pc = "unused" => loads[l].thread = "none"
  /\ loads[l].pc = "waiting" <=> lock = l
  /\ loads[l].pc # "done" => engines[l] = NewEngine /\ engine # l
  /\ loads[l].pc = "done" /\ loads[l].thread = "built" /\ engine # l => engines[l].closed
\* A load is only done once its thread is.
ThreadsEnded ==
  \A l \in Loads : loads[l].pc = "done" => loads[l].thread \in {"built", "raised"}
CurrentOK ==
  /\ engine # None => /\ loads[engine].pc = "done" /\ loads[engine].thread = "built"
                      /\ ~engines[engine].closed
  /\ checkpoint = IF engine = None THEN None ELSE loads[engine].ckpt

\* Who holds what: the status, the lock and the lease exclude each other.
HoldersOK ==
  /\ status = "loading" <=> lock # None
  /\ status = "generating" <=> lease # None
  /\ shutdown \in {"waitLock", "done"} => lease = None
LeaseOK(g) ==
  /\ Live(g) <=> lease = g
  /\ Live(g) => /\ leases[g].engine = engine /\ engine # None
                /\ leases[g].session = session.id

\* Only a running stream makes an engine active.
ActiveOK ==
  engine # None /\ engines[engine].active =>
    lease # None /\ leases[lease].stream = "running"
StreamOK(g) ==
  leases[g].pc \in {"unused", "begin", "prompted", "rollback", "posted", "over"}
    => leases[g].stream = "none"

\* Everything in the FIFO is of the current lease, and its last item is the
\* terminal callback exactly when the worker has posted it.
FifoOK ==
  /\ lease = None => callbacks = <<>>
  /\ lease # None /\ leases[lease].pc = "posted" => callbacks # <<>>
  /\ \A i \in DOMAIN callbacks :
       /\ callbacks[i].lease = lease
       /\ callbacks[i].item = "finish" <=> i = Len(callbacks) /\ leases[lease].pc = "posted"

OwnershipOK ==
  /\ \A l \in Loads : LoadOK(l)
  /\ ThreadsEnded /\ CurrentOK /\ HoldersOK
  /\ \A g \in Leases : LeaseOK(g) /\ StreamOK(g)
  /\ ActiveOK /\ FifoOK

-----------------------------------------------------------------------------
\* Whether the worker's stream has yielded its first event.
Started(w) == \/ w.pc = "loop" /\ w.stream = "running"
              \/ w.pc = "got" /\ w.event # "start"

\* What a consumer has and what is on its way to it: the start event, exactly
\* first and once the stream has started, then tokens.
DeliveryOK(g) ==
  LET s == leases[g].items IN
  /\ leases[g].pc = "unused" => s = <<>>
  /\ leases[g].pc # "over" =>
       \A i \in DOMAIN s : s[i] \in {"start", "token"} /\ (s[i] = "start" <=> i = 1)
  /\ leases[g].pc = "over" =>
       /\ s # <<>>
       /\ \A i \in DOMAIN s :
            /\ s[i] = "start" <=> i = 1 /\ s[i] \in Events
            /\ s[i] \in Outcomes <=> i = Len(s)
FifoItemsOK ==
  \A i \in DOMAIN callbacks :
    /\ callbacks[i].item \in {"start", "token", "finish"}
    /\ callbacks[i].item = "start" => i = 1 /\ leases[callbacks[i].lease].items = <<>>
    /\ callbacks[i].item = "token" => i > 1 \/ leases[callbacks[i].lease].items # <<>>
NothingSent(g) == leases[g].items = <<>> /\ callbacks = <<>>
SendingOK ==
  lease # None =>
    /\ leases[lease].pc \in {"begin", "prompted"} => NothingSent(lease)
    /\ leases[lease].pc = "loop" => leases[lease].stream # "none"
    /\ leases[lease].pc = "got" => leases[lease].stream = "running"
    /\ leases[lease].pc \in {"loop", "got"} =>
         (NothingSent(lease) <=> ~Started(leases[lease]))

StreamsOK == (\A g \in Leases : DeliveryOK(g)) /\ FifoItemsOK /\ SendingOK

-----------------------------------------------------------------------------
\* The worker's turn is committed in the history: it was completed and has not
\* been withdrawn.
Committed(w) ==
  w.appended /\ w.event = "complete" /\ (w.pc = "posted" => w.outcome = "completed")
\* It waits for its reply in the history.
Waiting(w) == w.appended /\ w.event # "complete" /\ w.pc # "posted"

WorkerOK(w) ==
  /\ w.pc \in {"unused", "begin"} => ~w.appended /\ w.event = "start"
  /\ w.pc = "prompted" => w.event = "start"
  /\ w.pc \in {"prompted", "loop", "got"} => w.appended
  /\ w.pc = "loop" => w.event # "complete"
  /\ w.event = "complete" => w.appended
  /\ w.pc \in {"close", "rollback", "posted"} /\ w.outcome = "completed"
       => w.event = "complete"

\* The first n messages are the answered turns A, in order.
Settled(m, n, A) ==
  /\ n \in 0 .. Len(m)
  /\ n # 0 => m[n].role = "assistant"
  /\ \A i \in 1 .. n : m[i].role = "assistant" => m[i].prompt \in A
  /\ \A i, j \in 1 .. n :
       m[i].role = "assistant" /\ m[j].role = "assistant" /\ i < j
         => m[i].prompt < m[j].prompt
  /\ \A a \in A : \E i \in 1 .. n : m[i].role = "assistant" /\ m[i].prompt = a

\* The history of engine e: the turns A, and what the turn of worker w, identity
\* g, has added to them so far.
QuietOK(e, A) == Settled(e.messages, Len(e.messages), A) /\ e.pending = NoPrompt
WaitingOK(e, g, A) ==
  LET n == Len(e.messages) IN
  n > 0 /\ Settled(e.messages, n - 1, A) /\ e.messages[n].role = "user" /\ e.pending = g
CommittedOK(e, g, A) ==
  LET n == Len(e.messages) IN
  /\ n > 1 /\ Settled(e.messages, n - 2, A) /\ e.messages[n - 1].role = "user"
  /\ e.messages[n] = Assistant(g) /\ e.pending = NoPrompt
  /\ e.status = "completed" /\ ~e.active

TurnOK(e, w, g, A) ==
  /\ Alternates(e.messages)
  /\ Waiting(w) => WaitingOK(e, g, A)
  /\ Committed(w) => CommittedOK(e, g, A)
  /\ ~Waiting(w) /\ ~Committed(w) => QuietOK(e, A)

HistoryOK ==
  engine # None =>
    /\ lease = None =>
         Alternates(engines[engine].messages) /\ QuietOK(engines[engine], AnsweredTurns)
    /\ lease # None => TurnOK(engines[engine], leases[lease], lease, AnsweredTurns)

\* Leases are handed out in order, one at a time, and in a session no later than
\* the current one.
LeasesOrdered ==
  \A g \in Leases :
    /\ leases[g].pc # "unused" => \A k \in 1 .. g - 1 : leases[k].pc = "over"
    /\ leases[g].session <= session.id
    /\ WorkerOK(leases[g])

RecordsOK ==
  /\ \A i \in DOMAIN records :
       /\ leases[records[i].turn].pc = "over"
       /\ leases[records[i].turn].outcome = "completed"
       /\ records[i].session = leases[records[i].turn].session
       /\ records[i].session = session.id => records[i].count <= session.tracked
  /\ \A i, j \in DOMAIN records :
       /\ records[i].turn = records[j].turn => i = j
       /\ records[i].session = records[j].session /\ i < j
            => records[i].count < records[j].count

\* tracker.log never writes the record and then raises.
AtomicTracker == "partial" \notin TrackerResults

TruthOK == HistoryOK /\ LeasesOrdered /\ CountersAgree /\ (AtomicTracker => RecordsOK)

-----------------------------------------------------------------------------
(* Ownership: who holds the service, its engine and the FIFO.              *)

LEMMA ConcatOne ==
  ASSUME NEW S, NEW q \in Seq(S), NEW x \in S
  PROVE  q \o <<x>> = Append(q, x) /\ q \o <<>> = q
  OBVIOUS

LEMMA OwnershipInit == Init => OwnershipOK
<1> SUFFICES ASSUME Init PROVE OwnershipOK
  OBVIOUS
<1>1. \A l \in Loads : LoadOK(l)
  BY DEF Init, LoadOK
<1>2. ThreadsEnded /\ CurrentOK /\ HoldersOK /\ ActiveOK /\ FifoOK
  BY DEF Init, ThreadsEnded, CurrentOK, HoldersOK, ActiveOK, FifoOK
<1>3. \A g \in Leases : LeaseOK(g) /\ StreamOK(g)
  BY DEF Init, LeaseOK, StreamOK, Live
<1> QED BY <1>1, <1>2, <1>3 DEF OwnershipOK

\* A live worker's lease is the service's, its engine is the current one and open.
LEMMA LiveWorker ==
  ASSUME TypeOK, OwnershipOK, NEW g \in Leases, Live(g)
  PROVE  /\ lease = g /\ status = "generating" /\ lock = None
         /\ leases[g].engine = engine /\ engine \in Loads
         /\ leases[g].session = session.id
         /\ engines[engine] \in Engine /\ ~engines[engine].closed
         /\ leases[g] \in LeaseRecord
  BY Types DEF OwnershipOK, LeaseOK, HoldersOK, CurrentOK

\* The FIFO after a worker posts at most one callback of its own.
LEMMA PostedFifo ==
  ASSUME TypeOK, OwnershipOK, NEW g \in Leases, Live(g), leases[g].pc # "posted",
         NEW w2, w2 \in LeaseRecord, NEW posted,
         callbacks' = callbacks \o posted, lease' = lease,
         leases' = [leases EXCEPT ![g] = w2], w2.pc # "over",
         \/ w2.pc = "posted" /\ posted = Finish(g)
         \/ w2.pc # "posted" /\ posted = <<>>
         \/ w2.pc # "posted" /\ \E ev \in Events : posted = <<[lease |-> g, item |-> ev]>>
  PROVE  FifoOK'
<1>0. lease = g /\ lease' = g /\ leases'[g] = w2 /\ callbacks \in Seq(Callback)
  BY LiveWorker, Types
<1>1. \A i \in DOMAIN callbacks : callbacks[i].lease = g /\ callbacks[i].item # "finish"
  BY <1>0 DEF OwnershipOK, FifoOK
<1>2. CASE posted = <<>> /\ w2.pc # "posted"
  <2>1. callbacks' = callbacks
    BY <1>2, <1>0
  <2> QED BY <2>1, <1>0, <1>1, <1>2 DEF FifoOK
<1>3. ASSUME NEW it \in Events \cup {"finish"}, posted = <<[lease |-> g, item |-> it]>>,
             it = "finish" <=> w2.pc = "posted"
      PROVE  FifoOK'
  <2> DEFINE x == [lease |-> g, item |-> it]
  <2>1. x \in Callback /\ x.lease = g /\ x.item = it
    BY DEF Callback
  <2>2. callbacks' = Append(callbacks, x)
    BY <1>3, <1>0, <2>1, ConcatOne
  <2> HIDE DEF x
  <2>3. /\ Len(callbacks') = Len(callbacks) + 1
        /\ callbacks'[Len(callbacks) + 1] = x
        /\ \A i \in 1 .. Len(callbacks) : callbacks'[i] = callbacks[i]
        /\ DOMAIN callbacks' = 1 .. Len(callbacks) + 1 /\ DOMAIN callbacks = 1 .. Len(callbacks)
        /\ Len(callbacks) \in Nat
    BY <2>2, <2>1, <1>0
  <2> QED BY <2>3, <2>1, <1>3, <1>0, <1>1 DEF FifoOK
<1>4. "finish" \notin Events
  BY DEF Events
<1> QED BY <1>2, <1>3, <1>4 DEF Finish

\* A step of a worker that keeps its lease, leaves its engine open, and makes it
\* active only with a running stream.
LEMMA WorkerOwnership ==
  ASSUME TypeOK, OwnershipOK, NEW g \in Leases, Live(g), leases[g].pc # "posted",
         NEW e2, NEW w2 \in LeaseRecord, NEW posted, WorkerStep(g, e2, w2, posted),
         e2 \in Engine, e2.closed = FALSE, e2.active => w2.stream = "running",
         w2.pc \notin {"unused", "over"}, w2.engine = leases[g].engine,
         w2.session = leases[g].session,
         w2.pc \in {"begin", "prompted", "rollback", "posted"} => w2.stream = "none",
         \/ w2.pc = "posted" /\ posted = Finish(g)
         \/ w2.pc # "posted" /\ posted = <<>>
         \/ w2.pc # "posted" /\ \E ev \in Events : posted = <<[lease |-> g, item |-> ev]>>
  PROVE  OwnershipOK'
<1>0. /\ lease = g /\ leases[g].engine = engine /\ engine \in Loads
      /\ engines \in [Loads -> Engine] /\ leases \in [Leases -> LeaseRecord]
  BY LiveWorker, Types
<1>1. /\ engines' = [engines EXCEPT ![engine] = e2] /\ leases' = [leases EXCEPT ![g] = w2]
      /\ callbacks' = callbacks \o posted
      /\ UNCHANGED <<status, engine, checkpoint, lock, loads, lease, session, records, shutdown>>
  BY <1>0 DEF WorkerStep, loadVars
<1>2. /\ engines'[engine] = e2 /\ \A l \in Loads : l # engine => engines'[l] = engines[l]
      /\ leases'[g] = w2 /\ \A k \in Leases : k # g => leases'[k] = leases[k]
  BY <1>0, <1>1
<1>3. \A l \in Loads : LoadOK(l)'
  BY <1>0, <1>1, <1>2 DEF OwnershipOK, LoadOK, CurrentOK
<1>4. ThreadsEnded' /\ CurrentOK' /\ HoldersOK'
  BY <1>0, <1>1, <1>2 DEF OwnershipOK, ThreadsEnded, CurrentOK, HoldersOK
<1>5. \A k \in Leases : LeaseOK(k)' /\ StreamOK(k)'
  BY <1>0, <1>1, <1>2 DEF OwnershipOK, LeaseOK, StreamOK, Live, LeaseRecord
<1>6. ActiveOK'
  BY <1>0, <1>1, <1>2 DEF ActiveOK
<1>7. FifoOK'
  BY <1>1, PostedFifo
<1> QED BY <1>3, <1>4, <1>5, <1>6, <1>7 DEF OwnershipOK

\* What the engine operations do to a closed or active engine.
LEMMA OperationFlags ==
  ASSUME NEW e \in Engine, NEW p \in Prompts
  PROVE  /\ AppendUser(e, p).closed = e.closed /\ AppendUser(e, p).active = e.active
         /\ StartStream(e).closed = e.closed
         /\ CompleteStream(e, p).closed = e.closed /\ ~CompleteStream(e, p).active
         /\ \A s \in Statuses : /\ FinishInterrupted(e, s).closed = e.closed
                                /\ ~FinishInterrupted(e, s).active
         /\ \A b \in BOOLEAN : /\ RollbackLastTurn(e, b).closed = e.closed
                               /\ RollbackLastTurn(e, b).active = e.active
         /\ ResetEngine(e).closed = e.closed /\ ResetEngine(e).active = e.active
         /\ ~e.active => Released(e).closed
         /\ Released(e).active = e.active
  BY DEF Engine, AppendUser, StartStream, CompleteStream, FinishInterrupted,
         RollbackLastTurn, ResetEngine, Released, CanClose, CloseEngine

LEMMA WorkerOwnershipStep ==
  ASSUME TypeOK, OwnershipOK, NEW g \in Leases, WorkerKind(g)
  PROVE  OwnershipOK'
<1> DEFINE w == leases[g]
           e == engines[w.engine]
<1>l. Live(g) /\ w.pc # "posted"
  BY DEF WorkerKind, GivesUp, Appends, Creates, Starts, GetsToken, Completes, Breaks,
         Accepts, Forwards, Closes, Keeps, Undoes, CannotUndo, Live, WorkerPcs
<1>w. w \in LeaseRecord /\ e \in Engine /\ e.closed = FALSE /\ g \in Prompts
  BY <1>l, LiveWorker DEF Engine
<1>a. e.active => w.stream = "running"
  BY <1>l, LiveWorker DEF OwnershipOK, ActiveOK
<1>s. w.pc \in {"begin", "prompted", "rollback"} => w.stream = "none"
  BY DEF OwnershipOK, StreamOK
<1>0. /\ w = leases[g] /\ e = engines[w.engine]
  BY DEF w, e
<1> HIDE DEF w, e
<1>1. CASE GivesUp(g)
  <2>1. PICK o \in {"cancelled", "failed"} :
          w.pc \in {"begin", "prompted", "loop", "got"} /\ WorkerStep(g, e, Wind(w, o), <<>>)
    BY <1>1, <1>0, Zenon DEF GivesUp
  <2>2. Wind(w, o) \in LeaseRecord
    BY <1>w, WorkerRecords DEF Outcomes
  <2>3. /\ Wind(w, o).pc = "close" /\ Wind(w, o).engine = w.engine
        /\ Wind(w, o).session = w.session /\ Wind(w, o).stream = w.stream
    BY <1>w DEF Wind, LeaseRecord
  <2> HIDE DEF Wind
  <2> QED BY <2>1, <2>2, <2>3, <1>0, <1>l, <1>w, <1>a, WorkerOwnership
<1>2. CASE Appends(g)
  <2> DEFINE w2 == [w EXCEPT !.pc = "prompted", !.appended = TRUE]
             e2 == AppendUser(e, g)
  <2>1. WorkerStep(g, e2, w2, <<>>) /\ w.pc = "begin"
    BY <1>2, <1>0 DEF Appends
  <2>2. /\ w2 \in LeaseRecord /\ w2.pc = "prompted" /\ w2.engine = w.engine
        /\ w2.session = w.session /\ w2.stream = w.stream
    <3>1. w2 \in LeaseRecord
      BY <1>w, WorkerRecords, Zenon
    <3> QED BY <3>1, <1>w DEF LeaseRecord
  <2>3. e2 \in Engine /\ e2.closed = FALSE /\ e2.active = e.active
    BY <1>w, OperationTypes, OperationFlags
  <2> HIDE DEF w2, e2
  <2> QED BY <2>1, <2>2, <2>3, <1>0, <1>l, <1>w, <1>a, <1>s, WorkerOwnership
<1>3. CASE Creates(g)
  <2> DEFINE w2 == [w EXCEPT !.pc = "loop", !.stream = "created"]
  <2>1. WorkerStep(g, e, w2, <<>>) /\ w.pc = "prompted"
    BY <1>3, <1>0 DEF Creates
  <2>2. /\ w2 \in LeaseRecord /\ w2.pc = "loop" /\ w2.engine = w.engine
        /\ w2.session = w.session
    <3>1. w2 \in LeaseRecord
      BY <1>w, WorkerRecords, Zenon
    <3> QED BY <3>1, <1>w DEF LeaseRecord
  <2> HIDE DEF w2
  <2> QED BY <2>1, <2>2, <1>0, <1>l, <1>w, <1>a, <1>s, WorkerOwnership
<1>4. CASE Starts(g)
  <2> DEFINE w2 == [w EXCEPT !.pc = "got", !.event = "start", !.stream = "running"]
             e2 == StartStream(e)
  <2>1. WorkerStep(g, e2, w2, <<>>)
    BY <1>4, <1>0 DEF Starts
  <2>2. /\ w2 \in LeaseRecord /\ w2.pc = "got" /\ w2.engine = w.engine
        /\ w2.session = w.session /\ w2.stream = "running"
    <3>1. w2 \in LeaseRecord
      BY <1>w, WorkerRecords, Zenon
    <3> QED BY <3>1, <1>w DEF LeaseRecord
  <2>3. e2 \in Engine /\ e2.closed = FALSE
    BY <1>w, OperationTypes, OperationFlags
  <2> HIDE DEF w2, e2
  <2> QED BY <2>1, <2>2, <2>3, <1>0, <1>l, WorkerOwnership
<1>5. CASE GetsToken(g)
  <2> DEFINE w2 == [w EXCEPT !.pc = "got", !.event = "token", !.stream = "running",
                             !.tokens = @ + 1]
  <2>1. WorkerStep(g, e, w2, <<>>)
    BY <1>5, <1>0 DEF GetsToken
  <2>2. w2 \in LeaseRecord
    BY <1>w, WorkerRecords
  <2>3. /\ w2.pc = "got" /\ w2.engine = w.engine
        /\ w2.session = w.session /\ w2.stream = "running"
    BY <1>w DEF LeaseRecord
  <2> HIDE DEF w2
  <2> QED BY <2>1, <2>2, <2>3, <1>0, <1>l, <1>w, WorkerOwnership
<1>6. CASE Completes(g)
  <2> DEFINE w2 == [w EXCEPT !.pc = "got", !.event = "complete", !.stream = "running"]
             e2 == CompleteStream(e, g)
  <2>1. WorkerStep(g, e2, w2, <<>>)
    BY <1>6, <1>0 DEF Completes
  <2>2. /\ w2 \in LeaseRecord /\ w2.pc = "got" /\ w2.engine = w.engine
        /\ w2.session = w.session /\ w2.stream = "running"
    <3>1. w2 \in LeaseRecord
      BY <1>w, WorkerRecords, Zenon
    <3> QED BY <3>1, <1>w DEF LeaseRecord
  <2>3. e2 \in Engine /\ e2.closed = FALSE
    BY <1>w, OperationTypes, OperationFlags
  <2> HIDE DEF w2, e2
  <2> QED BY <2>1, <2>2, <2>3, <1>0, <1>l, WorkerOwnership
<1>7. CASE Breaks(g)
  <2> DEFINE w2 == [w EXCEPT !.pc = "close", !.outcome = "failed", !.stream = "none"]
             e2 == FinishInterrupted(e, "failed")
  <2>1. WorkerStep(g, e2, w2, <<>>)
    BY <1>7, <1>0 DEF Breaks
  <2>2. /\ w2 \in LeaseRecord /\ w2.pc = "close" /\ w2.engine = w.engine
        /\ w2.session = w.session
    <3>1. w2 \in LeaseRecord
      BY <1>w, WorkerRecords, Zenon
    <3> QED BY <3>1, <1>w DEF LeaseRecord
  <2>3. e2 \in Engine /\ e2.closed = FALSE /\ ~e2.active
    BY <1>w, OperationTypes, OperationFlags DEF Statuses
  <2> HIDE DEF w2, e2
  <2> QED BY <2>1, <2>2, <2>3, <1>0, <1>l, WorkerOwnership
<1>8. CASE Accepts(g)
  <2> DEFINE w2 == Wind(w, "completed")
  <2>1. WorkerStep(g, e, w2, <<>>)
    BY <1>8, <1>0 DEF Accepts
  <2>2. w2 \in LeaseRecord
    BY <1>w, WorkerRecords DEF Outcomes
  <2>3. /\ w2.pc = "close" /\ w2.engine = w.engine
        /\ w2.session = w.session /\ w2.stream = w.stream
    BY <1>w DEF Wind, LeaseRecord
  <2> HIDE DEF w2
  <2> QED BY <2>1, <2>2, <2>3, <1>0, <1>l, <1>w, <1>a, WorkerOwnership
<1>9. CASE Forwards(g)
  <2> DEFINE w2 == [w EXCEPT !.pc = "loop"]
             x == <<[lease |-> g, item |-> w.event]>>
  <2>1. WorkerStep(g, e, w2, x)
    BY <1>9, <1>0 DEF Forwards
  <2>2. /\ w2 \in LeaseRecord /\ w2.pc = "loop" /\ w2.engine = w.engine
        /\ w2.session = w.session /\ w2.stream = w.stream
    <3>1. w2 \in LeaseRecord
      BY <1>w, WorkerRecords, Zenon
    <3> QED BY <3>1, <1>w DEF LeaseRecord
  <2>3. \E ev \in Events : x = <<[lease |-> g, item |-> ev]>>
    BY <1>w DEF LeaseRecord
  <2> HIDE DEF w2, x
  <2> QED BY <2>1, <2>2, <2>3, <1>0, <1>l, <1>w, <1>a, WorkerOwnership
<1>10. CASE Closes(g)
  <2> DEFINE e2 == IF w.stream = "running" THEN FinishInterrupted(e, "cancelled") ELSE e
  <2>0. PICK o \in {w.outcome, "failed"} :
          WorkerStep(g, e2, [w EXCEPT !.pc = "rollback", !.stream = "none", !.outcome = o], <<>>)
    BY <1>10, <1>0, Zenon DEF Closes
  <2> DEFINE w2 == [w EXCEPT !.pc = "rollback", !.stream = "none", !.outcome = o]
  <2>1. WorkerStep(g, e2, w2, <<>>)
    BY <2>0
  <2>o. o \in Outcomes
    BY <1>w DEF LeaseRecord, Outcomes
  <2>2. /\ w2 \in LeaseRecord /\ w2.pc = "rollback" /\ w2.engine = w.engine
        /\ w2.session = w.session /\ w2.stream = "none"
    <3>1. w2 \in LeaseRecord
      BY <2>o, <1>w, WorkerRecords, Zenon
    <3> QED BY <3>1, <1>w DEF LeaseRecord
  <2>3. e2 \in Engine /\ e2.closed = FALSE /\ ~e2.active
    <3> DEFINE f == FinishInterrupted(e, "cancelled")
    <3>1. "cancelled" \in Statuses
      BY DEF Statuses
    <3>2. f \in Engine
      BY <3>1, <1>w, OperationTypes, Zenon
    <3>3. f.closed = e.closed /\ ~f.active
      BY <3>1, <1>w, OperationFlags, Zenon
    <3> HIDE DEF f
    <3>4. e2 = IF w.stream = "running" THEN f ELSE e
      BY Zenon DEF f
    <3> HIDE DEF e2
    <3> QED BY <3>2, <3>3, <3>4, <1>w, <1>a
  <2> HIDE DEF w2, e2
  <2> QED BY <2>1, <2>2, <2>3, <1>0, <1>l, WorkerOwnership
<1>11. CASE Keeps(g)
  <2> DEFINE w2 == [w EXCEPT !.pc = "posted"]
  <2>1. WorkerStep(g, e, w2, Finish(g)) /\ w.pc = "rollback"
    BY <1>11, <1>0 DEF Keeps
  <2>2. /\ w2 \in LeaseRecord /\ w2.pc = "posted" /\ w2.engine = w.engine
        /\ w2.session = w.session /\ w2.stream = w.stream
    <3>1. w2 \in LeaseRecord
      BY <1>w, WorkerRecords, Zenon
    <3> QED BY <3>1, <1>w DEF LeaseRecord
  <2> HIDE DEF w2
  <2> QED BY <2>1, <2>2, <1>0, <1>l, <1>w, <1>a, <1>s, WorkerOwnership
<1>12. CASE Undoes(g)
  <2> DEFINE w2 == [w EXCEPT !.pc = "posted"]
             e2 == RollbackLastTurn(e, TRUE)
  <2>1. WorkerStep(g, e2, w2, Finish(g)) /\ w.pc = "rollback" /\ CanRollback(e, TRUE)
    BY <1>12, <1>0 DEF Undoes
  <2>2. /\ w2 \in LeaseRecord /\ w2.pc = "posted" /\ w2.engine = w.engine
        /\ w2.session = w.session /\ w2.stream = w.stream
    <3>1. w2 \in LeaseRecord
      BY <1>w, WorkerRecords, Zenon
    <3> QED BY <3>1, <1>w DEF LeaseRecord
  <2>3. e2 \in Engine /\ e2.closed = FALSE /\ e2.active = e.active
    BY <2>1, <1>w, OperationTypes, OperationFlags
  <2> HIDE DEF w2, e2
  <2> QED BY <2>1, <2>2, <2>3, <1>0, <1>l, <1>a, <1>s, WorkerOwnership
<1>13. CASE CannotUndo(g)
  <2> DEFINE w2 == [w EXCEPT !.pc = "posted", !.outcome = "failed"]
  <2>1. WorkerStep(g, e, w2, Finish(g)) /\ w.pc = "rollback"
    BY <1>13, <1>0 DEF CannotUndo
  <2>2. /\ w2 \in LeaseRecord /\ w2.pc = "posted" /\ w2.engine = w.engine
        /\ w2.session = w.session /\ w2.stream = w.stream
    <3>1. w2 \in LeaseRecord
      BY <1>w, WorkerRecords, Zenon
    <3> QED BY <3>1, <1>w DEF LeaseRecord
  <2> HIDE DEF w2
  <2> QED BY <2>1, <2>2, <1>0, <1>l, <1>w, <1>a, <1>s, WorkerOwnership
<1> QED BY <1>1, <1>2, <1>3, <1>4, <1>5, <1>6, <1>7, <1>8, <1>9, <1>10, <1>11, <1>12, <1>13
     DEF WorkerKind

\* The public status decided by the ownership.
LEMMA StatusMeaning ==
  ASSUME TypeOK, OwnershipOK
  PROVE  /\ ~Busy => status \notin {"loading", "generating"} /\ lock = None /\ lease = None
         /\ lease = None /\ engine # None => Inactive(engines[engine])
         /\ Status = "ready" => engine # None /\ lease = None
<1>1. lease = None /\ engine # None => Inactive(engines[engine])
  BY Types DEF OwnershipOK, ActiveOK, CurrentOK, Inactive, Engine
<1>2. ~Busy => status \notin {"loading", "generating"}
  BY DEF Busy, Status
<1>3. Status = "ready" => engine # None /\ lease = None
  BY DEF Status, OwnershipOK, HoldersOK
<1> QED BY <1>1, <1>2, <1>3 DEF OwnershipOK, HoldersOK

\* Releasing the current engine closes it, when nobody holds a lease.
LEMMA ReleaseCurrentOK ==
  ASSUME TypeOK, OwnershipOK, lease = None
  PROVE  /\ ReleaseCurrent \in [Loads -> Engine]
         /\ engine # None => ReleaseCurrent[engine].closed
         /\ \A l \in Loads : l # engine => ReleaseCurrent[l] = engines[l]
<1>1. CASE engine = None
  BY <1>1, ReleaseTypes DEF ReleaseCurrent
<1>2. CASE engine # None
  <2>1. engine \in Loads /\ engines[engine] \in Engine /\ ~engines[engine].active
    BY <1>2, StatusMeaning, Types DEF Inactive
  <2>2. Released(engines[engine]).closed
    BY <2>1, OperationFlags
  <2>3. ReleaseCurrent = [engines EXCEPT ![engine] = Released(engines[engine])]
    BY <1>2, Zenon DEF ReleaseCurrent
  <2> QED BY <2>1, <2>2, <2>3, ReleaseTypes, Types
<1> QED BY <1>1, <1>2

\* The loads: what a load's own steps do.
LEMMA LoadOwnershipStep ==
  ASSUME TypeOK, OwnershipOK, NEW l \in Loads,
         \/ \E c \in Checkpoints : LoadCheckpoint(l, c)
         \/ LoadThread(l) \/ LoadSettles(l) \/ LoadCancelled(l) \/ ReleaseCancelled(l)
  PROVE  OwnershipOK'
<1> USE DEF LoadPcs, ThreadStates
<1>0. loads \in [Loads -> LoadRecord] /\ loads[l] \in LoadRecord /\ engines \in [Loads -> Engine]
  BY Types
<1>n. NewEngine \in Engine /\ ~NewEngine.active /\ ~NewEngine.closed
  BY NewEngineType DEF NewEngine
<1>r. Released(NewEngine) \in Engine /\ Released(NewEngine).closed
  <2>1. 1 \in Prompts
    OBVIOUS
  <2> QED BY <2>1, <1>n, OperationTypes, OperationFlags
\* Steps that leave the workers alone.
<1>k. ASSUME UNCHANGED <<lease, leases, callbacks>>, engine' = engine, session' = session,
             engine # None => engines'[engine] = engines[engine]
      PROVE  (\A g \in Leases : LeaseOK(g)' /\ StreamOK(g)') /\ ActiveOK' /\ FifoOK'
  BY <1>k DEF OwnershipOK, LeaseOK, StreamOK, Live, ActiveOK, FifoOK
<1>1. ASSUME NEW c \in Checkpoints, LoadCheckpoint(l, c) PROVE OwnershipOK'
  <2>1. /\ loads[l].pc = "unused" /\ lock' = l /\ status' = "loading"
        /\ loads' = [loads EXCEPT ![l] = [pc |-> "waiting", thread |-> "running", ckpt |-> c]]
        /\ UNCHANGED <<engine, checkpoint, engines, lease, leases, callbacks, session, records,
                       shutdown>>
        /\ ~Busy
    BY <1>1 DEF LoadCheckpoint
  <2>2. /\ loads'[l].pc = "waiting"
        /\ \A k \in Loads : k # l => loads'[k] = loads[k]
    BY <2>1, <1>0
  <2>3. lock = None /\ lease = None
    BY <2>1, StatusMeaning
  <2>4. \A k \in Loads : LoadOK(k)'
    BY <2>1, <2>2, <2>3 DEF OwnershipOK, LoadOK
  <2>5. CurrentOK' /\ HoldersOK'
    BY <2>1, <2>2, <2>3, Types DEF OwnershipOK, CurrentOK, HoldersOK, LoadOK
  <2>6. ThreadsEnded'
    BY <2>2 DEF OwnershipOK, ThreadsEnded
  <2> QED BY <2>1, <2>4, <2>5, <2>6, <1>k DEF OwnershipOK
<1>2. CASE LoadThread(l)
  <2>1. PICK t \in {"built", "raised"} : loads' = [loads EXCEPT ![l].thread = t]
    BY <1>2 DEF LoadThread
  <2>2. /\ loads[l].thread = "running"
        /\ UNCHANGED <<status, engine, checkpoint, lock, engines, lease, leases,
                       callbacks, session, records, shutdown>>
    BY <1>2 DEF LoadThread
  <2>3. /\ loads'[l].pc = loads[l].pc /\ loads'[l].ckpt = loads[l].ckpt
        /\ loads'[l].thread \in {"built", "raised"}
        /\ \A k \in Loads : k # l => loads'[k] = loads[k]
    BY <2>1, <1>0 DEF LoadRecord
  <2>4. \A k \in Loads : LoadOK(k)'
    <3>1. ASSUME NEW k \in Loads, k # l PROVE LoadOK(k)'
      BY <3>1, <2>2, <2>3 DEF OwnershipOK, LoadOK
    <3>2. LoadOK(l) /\ loads[l].thread = "running"
      BY <2>2 DEF OwnershipOK
    <3>3. loads[l].pc # "unused"
      BY <3>2 DEF LoadOK
    <3>4. loads[l].pc # "done"
      BY <2>2 DEF OwnershipOK, ThreadsEnded
    <3>5. LoadOK(l)'
      BY <3>2, <3>3, <3>4, <2>2, <2>3 DEF LoadOK
    <3> QED BY <3>1, <3>5
  <2>5. CurrentOK' /\ HoldersOK'
    BY <2>2, <2>3, Types DEF OwnershipOK, CurrentOK, HoldersOK
  <2>6. ThreadsEnded'
    BY <2>2, <2>3 DEF OwnershipOK, ThreadsEnded
  <2> QED BY <2>2, <2>4, <2>5, <2>6, <1>k DEF OwnershipOK
<1>3. CASE LoadSucceeds(l)
  <2>1. /\ loads[l].pc = "waiting" /\ loads[l].thread = "built"
        /\ engine' = l /\ checkpoint' = loads[l].ckpt /\ status' = "ready"
        /\ engines' = ReleaseCurrent /\ lock' = None
        /\ loads' = [loads EXCEPT ![l].pc = "done"]
        /\ UNCHANGED <<lease, leases, callbacks, records, shutdown>>
    BY <1>3 DEF LoadSucceeds
  <2>2. LoadOK(l) /\ lock = l /\ lease = None /\ engine # l /\ engines[l] = NewEngine
    BY <2>1 DEF OwnershipOK, LoadOK, HoldersOK
  <2>3. /\ loads'[l].pc = "done" /\ loads'[l].thread = "built" /\ loads'[l].ckpt = loads[l].ckpt
        /\ \A k \in Loads : k # l => loads'[k] = loads[k]
    BY <2>1, <1>0 DEF LoadRecord
  <2>4. /\ engines'[l] = NewEngine
        /\ engine # None => engines'[engine].closed
        /\ \A k \in Loads : k # engine => engines'[k] = engines[k]
    BY <2>1, <2>2, ReleaseCurrentOK
  <2>5. ASSUME NEW k \in Loads PROVE LoadOK(k)'
    <3>1. CASE k = l
      BY <3>1, <2>1, <2>3 DEF LoadOK
    <3>2. CASE k = engine
      BY <3>2, <2>1, <2>2, <2>3, <2>4 DEF OwnershipOK, LoadOK, CurrentOK
    <3>3. CASE k # l /\ k # engine
      BY <3>3, <2>1, <2>2, <2>3, <2>4 DEF OwnershipOK, LoadOK
    <3> QED BY <3>1, <3>2, <3>3
  <2>6. CurrentOK' /\ HoldersOK'
    BY <2>1, <2>2, <2>3, <2>4, <1>n DEF OwnershipOK, CurrentOK, HoldersOK
  <2>7. \A g \in Leases : ~Live(g)
    BY <2>2 DEF OwnershipOK, LeaseOK
  <2>8. \A g \in Leases : LeaseOK(g)' /\ StreamOK(g)'
    BY <2>1, <2>2, <2>7 DEF OwnershipOK, LeaseOK, StreamOK, Live
  <2>9. ActiveOK' /\ FifoOK'
    BY <2>1, <2>2, <2>4, <1>n DEF OwnershipOK, ActiveOK, FifoOK
  <2>10. ThreadsEnded'
    BY <2>3 DEF OwnershipOK, ThreadsEnded
  <2> QED BY <2>5, <2>6, <2>8, <2>9, <2>10 DEF OwnershipOK
<1>4. CASE LoadFails(l)
  <2>1. /\ loads[l].pc = "waiting" /\ loads[l].thread \in {"built", "raised"}
        /\ status' = IF engine # None THEN "ready" ELSE "failed"
        /\ engines' = IF loads[l].thread = "built"
                      THEN [engines EXCEPT ![l] = Released(@)] ELSE engines
        /\ lock' = None /\ loads' = [loads EXCEPT ![l].pc = "done"]
        /\ UNCHANGED <<engine, checkpoint, lease, leases, callbacks, session, records, shutdown>>
    BY <1>4, Zenon DEF LoadFails
  <2>2. LoadOK(l) /\ lock = l /\ lease = None /\ engine # l /\ engines[l] = NewEngine
    BY <2>1 DEF OwnershipOK, LoadOK, HoldersOK
  <2>3. /\ loads'[l].pc = "done" /\ loads'[l].thread = loads[l].thread
        /\ \A k \in Loads : k # l => loads'[k] = loads[k]
    BY <2>1, <1>0 DEF LoadRecord
  <2>4. /\ loads[l].thread = "built" => engines'[l].closed
        /\ \A k \in Loads : k # l => engines'[k] = engines[k]
    BY <2>1, <2>2, <1>0, <1>r
  <2>5. \A k \in Loads : LoadOK(k)'
    BY <2>1, <2>2, <2>3, <2>4 DEF OwnershipOK, LoadOK
  <2>6. CurrentOK' /\ HoldersOK'
    BY <2>1, <2>2, <2>3, <2>4, Types DEF OwnershipOK, CurrentOK, HoldersOK
  <2>7. ThreadsEnded'
    BY <2>1, <2>3 DEF OwnershipOK, ThreadsEnded
  <2>8. engine # None => engines'[engine] = engines[engine]
    BY <2>2, <2>4, Types
  <2> QED BY <2>1, <2>5, <2>6, <2>7, <2>8, <1>k DEF OwnershipOK
<1>5. CASE LoadCancelled(l)
  <2>1. /\ loads[l].pc = "waiting"
        /\ status' = IF engine # None THEN "ready" ELSE "unloaded"
        /\ lock' = None /\ loads' = [loads EXCEPT ![l].pc = "cancelled"]
        /\ UNCHANGED <<engine, checkpoint, engines, lease, leases, callbacks, session, records,
                       shutdown>>
    BY <1>5, Zenon DEF LoadCancelled
  <2>2. LoadOK(l) /\ lock = l /\ lease = None /\ engine # l
    BY <2>1 DEF OwnershipOK, LoadOK, HoldersOK
  <2>3. /\ loads'[l].pc = "cancelled" /\ loads'[l].thread = loads[l].thread
        /\ \A k \in Loads : k # l => loads'[k] = loads[k]
    BY <2>1, <1>0 DEF LoadRecord
  <2>5. \A k \in Loads : LoadOK(k)'
    BY <2>1, <2>2, <2>3 DEF OwnershipOK, LoadOK
  <2>6. CurrentOK' /\ HoldersOK'
    BY <2>1, <2>2, <2>3, Types DEF OwnershipOK, CurrentOK, HoldersOK
  <2>7. ThreadsEnded'
    BY <2>1, <2>3 DEF OwnershipOK, ThreadsEnded
  <2> QED BY <2>1, <2>5, <2>6, <2>7, <1>k DEF OwnershipOK
<1>6. CASE ReleaseCancelled(l)
  <2>1. /\ loads[l].pc = "cancelled" /\ loads[l].thread \in {"built", "raised"}
        /\ engines' = IF loads[l].thread = "built"
                      THEN [engines EXCEPT ![l] = Released(@)] ELSE engines
        /\ loads' = [loads EXCEPT ![l].pc = "done"]
        /\ UNCHANGED <<status, engine, checkpoint, lock, lease, leases, callbacks, session,
                       records, shutdown>>
    BY <1>6, Zenon DEF ReleaseCancelled
  <2>2. LoadOK(l) /\ lock # l /\ engine # l /\ engines[l] = NewEngine
    BY <2>1 DEF OwnershipOK, LoadOK
  <2>3. /\ loads'[l].pc = "done" /\ loads'[l].thread = loads[l].thread
        /\ \A k \in Loads : k # l => loads'[k] = loads[k]
    BY <2>1, <1>0 DEF LoadRecord
  <2>4. /\ loads[l].thread = "built" => engines'[l].closed
        /\ \A k \in Loads : k # l => engines'[k] = engines[k]
    BY <2>1, <2>2, <1>0, <1>r
  <2>5. \A k \in Loads : LoadOK(k)'
    BY <2>1, <2>2, <2>3, <2>4 DEF OwnershipOK, LoadOK
  <2>6. CurrentOK' /\ HoldersOK'
    BY <2>1, <2>2, <2>3, <2>4, Types DEF OwnershipOK, CurrentOK, HoldersOK
  <2>7. ThreadsEnded'
    BY <2>1, <2>3 DEF OwnershipOK, ThreadsEnded
  <2>8. engine # None => engines'[engine] = engines[engine]
    BY <2>2, <2>4, Types
  <2> QED BY <2>1, <2>5, <2>6, <2>7, <2>8, <1>k DEF OwnershipOK
<1> QED BY <1>1, <1>2, <1>3, <1>4, <1>5, <1>6 DEF LoadSettles

\* Steps that leave loads, engines and holders alone and change a lease at most
\* in what ownership does not speak of.
LEMMA QuietOwnership ==
  ASSUME TypeOK, OwnershipOK,
         UNCHANGED <<status, engine, loadVars, engines, lease, callbacks>>,
         session'.id = session.id,
         \A g \in Leases : /\ leases'[g].pc = leases[g].pc
                           /\ leases'[g].engine = leases[g].engine
                           /\ leases'[g].session = leases[g].session
                           /\ leases'[g].stream = leases[g].stream,
         shutdown' \in {"waitLock", "done"} => lease = None
  PROVE  OwnershipOK'
<1> USE DEF loadVars
<1>1. \A l \in Loads : LoadOK(l)'
  BY DEF OwnershipOK, LoadOK
<1>2. ThreadsEnded' /\ CurrentOK' /\ HoldersOK'
  BY DEF OwnershipOK, ThreadsEnded, CurrentOK, HoldersOK
<1>3. \A g \in Leases : LeaseOK(g)' /\ StreamOK(g)'
  BY DEF OwnershipOK, LeaseOK, StreamOK, Live
<1>4. lease \in Leases \cup {None}
  BY Types
<1>5. ActiveOK' /\ FifoOK'
  BY <1>4 DEF OwnershipOK, ActiveOK, FifoOK
<1> QED BY <1>1, <1>2, <1>3, <1>5 DEF OwnershipOK

LEMMA ResetOwnership == TypeOK /\ OwnershipOK /\ Reset => OwnershipOK'
<1> SUFFICES ASSUME TypeOK, OwnershipOK, Reset PROVE OwnershipOK'
  OBVIOUS
<1>1. /\ ~Busy /\ engine # None /\ status' = "ready"
      /\ engines' = [engines EXCEPT ![engine] = ResetEngine(@)]
      /\ UNCHANGED <<engine, checkpoint, lock, loads, lease, leases, callbacks, records, shutdown>>
  BY DEF Reset, loadVars
<1>2. /\ lock = None /\ lease = None /\ Inactive(engines[engine])
      /\ engine \in Loads /\ engines \in [Loads -> Engine]
  BY <1>1, StatusMeaning, Types
<1>3. 1 \in Prompts
  OBVIOUS
<1>4. /\ ~engines'[engine].closed /\ ~engines'[engine].active
      /\ \A l \in Loads : l # engine => engines'[l] = engines[l]
  BY <1>1, <1>2, <1>3, OperationFlags DEF Inactive
<1>5. \A l \in Loads : LoadOK(l)'
  BY <1>1, <1>4 DEF OwnershipOK, LoadOK, CurrentOK
<1>6. ThreadsEnded' /\ CurrentOK' /\ HoldersOK'
  BY <1>1, <1>2, <1>4 DEF OwnershipOK, ThreadsEnded, CurrentOK, HoldersOK
<1>7. \A g \in Leases : LeaseOK(g)' /\ StreamOK(g)'
  <2>1. \A g \in Leases : ~Live(g)
    BY <1>2 DEF OwnershipOK, LeaseOK
  <2> QED BY <2>1, <1>1, <1>2 DEF OwnershipOK, LeaseOK, StreamOK, Live
<1>8. ActiveOK' /\ FifoOK'
  BY <1>1, <1>2, <1>4 DEF OwnershipOK, ActiveOK, FifoOK
<1> QED BY <1>5, <1>6, <1>7, <1>8 DEF OwnershipOK

LEMMA StartOwnership ==
  ASSUME TypeOK, OwnershipOK, NEW g \in Leases, StartGeneration(g)
  PROVE  OwnershipOK'
<1>1. /\ leases[g].pc = "unused" /\ ~Busy /\ engine # None /\ Accepting
      /\ lease = None /\ lease' = g /\ status' = "generating"
      /\ leases' = [leases EXCEPT ![g].pc = "begin", ![g].engine = engine,
                                  ![g].session = session.id]
      /\ UNCHANGED <<engine, checkpoint, lock, loads, engines, callbacks, session, records,
                     shutdown>>
  BY DEF StartGeneration, loadVars
<1>2. /\ lock = None /\ Inactive(engines[engine]) /\ engine \in Loads
      /\ leases \in [Leases -> LeaseRecord] /\ leases[g] \in LeaseRecord /\ shutdown = "serving"
  BY <1>1, StatusMeaning, Types DEF Accepting
<1>3. /\ leases'[g].pc = "begin" /\ leases'[g].engine = engine
      /\ leases'[g].session = session.id /\ leases'[g].stream = leases[g].stream
      /\ \A k \in Leases : k # g => leases'[k] = leases[k]
  BY <1>1, <1>2 DEF LeaseRecord
<1>4. \A l \in Loads : LoadOK(l)'
  BY <1>1 DEF OwnershipOK, LoadOK
<1>5. ThreadsEnded' /\ CurrentOK' /\ HoldersOK'
  BY <1>1, <1>2 DEF OwnershipOK, ThreadsEnded, CurrentOK, HoldersOK
<1>6. \A k \in Leases : LeaseOK(k)' /\ StreamOK(k)'
  <2>1. LeaseOK(g)' /\ StreamOK(g)'
    BY <1>1, <1>3 DEF OwnershipOK, LeaseOK, StreamOK, Live, WorkerPcs
  <2>2. ASSUME NEW k \in Leases, k # g PROVE LeaseOK(k)' /\ StreamOK(k)'
    <3>1. LeaseOK(k) /\ StreamOK(k)
      BY DEF OwnershipOK
    <3>2. leases'[k] = leases[k] /\ lease = None /\ lease' = g /\ k # None
      <4>1. lease = None /\ lease' = g
        BY <1>1, Zenon
      <4>2. k # None
        BY ChatSessionAssumption
      <4> QED BY <4>1, <4>2, <2>2, <1>3
    <3>3. ~Live(k)
      BY <3>1, <3>2 DEF LeaseOK
    <3> QED BY <3>1, <3>2, <3>3, <2>2 DEF LeaseOK, StreamOK, Live
  <2> QED BY <2>1, <2>2
<1>7. ActiveOK' /\ FifoOK'
  BY <1>1, <1>2, <1>3 DEF OwnershipOK, ActiveOK, FifoOK, Inactive
<1> QED BY <1>4, <1>5, <1>6, <1>7 DEF OwnershipOK

LEMMA HeadOfFifo ==
  ASSUME TypeOK, OwnershipOK, callbacks # <<>>
  PROVE  /\ Head(callbacks) \in Callback /\ Head(callbacks) = callbacks[1]
         /\ Head(callbacks).lease = lease /\ lease \in Leases /\ Live(lease)
         /\ Head(callbacks).item = "finish" =>
              leases[lease].pc = "posted" /\ Tail(callbacks) = <<>>
         /\ Tail(callbacks) \in Seq(Callback) /\ Len(Tail(callbacks)) = Len(callbacks) - 1
         /\ Len(callbacks) \in Nat \ {0}
         /\ \A i \in 1 .. Len(callbacks) - 1 : Tail(callbacks)[i] = callbacks[i + 1]
<1>1. callbacks \in Seq(Callback) /\ lease \in Leases \cup {None}
  BY Types
<1>2. /\ Head(callbacks) \in Callback /\ Head(callbacks) = callbacks[1]
      /\ Tail(callbacks) \in Seq(Callback) /\ Len(Tail(callbacks)) = Len(callbacks) - 1
      /\ Len(callbacks) \in Nat \ {0} /\ 1 \in DOMAIN callbacks
      /\ \A i \in 1 .. Len(callbacks) - 1 : Tail(callbacks)[i] = callbacks[i + 1]
  BY <1>1, HeadTailProperties
<1>3. Head(callbacks).lease = lease /\ lease \in Leases
  BY <1>1, <1>2 DEF OwnershipOK, FifoOK
<1>4. Live(lease)
  BY <1>3 DEF OwnershipOK, LeaseOK
<1>5. ASSUME Head(callbacks).item = "finish"
      PROVE  leases[lease].pc = "posted" /\ Len(callbacks) = 1
  BY <1>2, <1>5 DEF OwnershipOK, FifoOK
<1>6. Len(callbacks) = 1 => Tail(callbacks) = <<>>
  <2>1. \A q \in Seq(Callback) : Len(q) = 0 => q = <<>>
    OBVIOUS
  <2>2. Len(callbacks) = 1 => Len(Tail(callbacks)) = 0
    BY <1>2
  <2> QED BY <2>1, <2>2, <1>2
<1> QED BY <1>2, <1>3, <1>4, <1>5, <1>6

LEMMA ForwardOwnership == TypeOK /\ OwnershipOK /\ ForwardEvent => OwnershipOK'
<1> SUFFICES ASSUME TypeOK, OwnershipOK, ForwardEvent PROVE OwnershipOK'
  OBVIOUS
<1> DEFINE s == Append(leases[lease].items, Head(callbacks).item)
<1>1. /\ callbacks # <<>> /\ Head(callbacks).item # "finish"
      /\ callbacks' = Tail(callbacks)
      /\ UNCHANGED <<status, engine, checkpoint, lock, loads, engines, lease, session, records,
                     shutdown>>
  BY DEF ForwardEvent, loadVars
<1>2. leases' = [leases EXCEPT ![lease].items = s]
  BY <1>1, HeadOfFifo DEF ForwardEvent
<1> HIDE DEF s
<1>3. lease \in Leases /\ leases \in [Leases -> LeaseRecord] /\ leases[lease] \in LeaseRecord
  BY <1>1, HeadOfFifo, Types
<1>4. \A g \in Leases : /\ leases'[g].pc = leases[g].pc
                        /\ leases'[g].engine = leases[g].engine
                        /\ leases'[g].session = leases[g].session
                        /\ leases'[g].stream = leases[g].stream
  BY <1>2, <1>3 DEF LeaseRecord
<1>5. \A l \in Loads : LoadOK(l)'
  BY <1>1 DEF OwnershipOK, LoadOK
<1>6. ThreadsEnded' /\ CurrentOK' /\ HoldersOK' /\ ActiveOK'
  BY <1>1, <1>3, <1>4 DEF OwnershipOK, ThreadsEnded, CurrentOK, HoldersOK, ActiveOK
<1>7. \A g \in Leases : LeaseOK(g)' /\ StreamOK(g)'
  BY <1>1, <1>4 DEF OwnershipOK, LeaseOK, StreamOK, Live
<1>8. FifoOK'
  <2>1. /\ Len(callbacks') = Len(callbacks) - 1 /\ Len(callbacks) \in Nat \ {0}
        /\ \A i \in 1 .. Len(callbacks) - 1 : callbacks'[i] = callbacks[i + 1]
        /\ DOMAIN callbacks' = 1 .. Len(callbacks) - 1
        /\ DOMAIN callbacks = 1 .. Len(callbacks)
        /\ Head(callbacks) = callbacks[1] /\ callbacks' \in Seq(Callback)
    <3>1. callbacks \in Seq(Callback)
      BY Types
    <3> QED BY <3>1, <1>1, HeadOfFifo
  <2>2. leases'[lease'].pc = leases[lease].pc /\ lease' = lease
    BY <1>1, <1>3, <1>4
  <2>3. ASSUME NEW i \in DOMAIN callbacks'
        PROVE  /\ callbacks'[i].lease = lease
               /\ callbacks'[i].item = "finish"
                    <=> i = Len(callbacks') /\ leases[lease].pc = "posted"
    <3>1. i + 1 \in DOMAIN callbacks /\ callbacks'[i] = callbacks[i + 1]
          /\ (i = Len(callbacks') <=> i + 1 = Len(callbacks))
      BY <2>1
    <3> QED BY <3>1 DEF OwnershipOK, FifoOK
  <2>4. ASSUME leases[lease].pc = "posted" PROVE callbacks' # <<>>
    <3>1. callbacks[Len(callbacks)].item = "finish"
      BY <2>1, <2>4 DEF OwnershipOK, FifoOK
    <3>2. Len(callbacks) # 1
      BY <3>1, <2>1, <1>1
    <3> QED BY <3>2, <2>1
  <2>5. lease # None
    BY <1>3
  <2> QED BY <2>2, <2>3, <2>4, <2>5 DEF FifoOK
<1> QED BY <1>5, <1>6, <1>7, <1>8 DEF OwnershipOK

LEMMA FinishOwnership == TypeOK /\ OwnershipOK /\ FinishGeneration => OwnershipOK'
<1> SUFFICES ASSUME TypeOK, OwnershipOK, FinishGeneration PROVE OwnershipOK'
  OBVIOUS
<1>1. /\ lease \in Leases /\ Live(lease) /\ leases[lease].pc = "posted"
      /\ callbacks' = <<>> /\ lease' = None
      /\ status' = (IF engine # None THEN "ready" ELSE "unloaded")
      /\ UNCHANGED <<engine, checkpoint, lock, loads, shutdown>>
      /\ Counts(lease) \/ TakesBack(lease) \/ CountsAlone(lease) \/ Reports(lease)
  BY HeadOfFifo, FinishKinds DEF FinishGeneration, loadVars
<1>2. /\ status = "generating" /\ lock = None /\ engine \in Loads /\ ~engines[engine].closed
      /\ engines[engine] \in Engine /\ leases[lease] \in LeaseRecord
      /\ leases \in [Leases -> LeaseRecord] /\ engines \in [Loads -> Engine]
      /\ session \in [id : Nat, turns : Nat, tracked : Nat, trackedId : Nat]
  BY <1>1, LiveWorker, Types
<1>3. ~engines[engine].active
  BY <1>1, <1>2 DEF OwnershipOK, ActiveOK, StreamOK
<1>4. session'.id = session.id
  BY <1>1, <1>2 DEF Counts, TakesBack, CountsAlone, Reports
<1>5. /\ ~engines'[engine].closed /\ ~engines'[engine].active
      /\ \A l \in Loads : l # engine => engines'[l] = engines[l]
  <2>1. CASE TakesBack(lease)
    <3>1. 1 \in Prompts /\ TRUE \in BOOLEAN
      OBVIOUS
    <3>2. /\ RollbackLastTurn(engines[engine], TRUE).closed = engines[engine].closed
          /\ RollbackLastTurn(engines[engine], TRUE).active = engines[engine].active
      BY <1>2, <3>1, OperationFlags
    <3> QED BY <2>1, <3>2, <1>2, <1>3 DEF TakesBack
  <2> QED BY <2>1, <1>1, <1>2, <1>3 DEF Counts, CountsAlone, Reports
<1>6. \E o : Delivers(lease, o)
  BY <1>1 DEF Counts, TakesBack, CountsAlone, Reports
<1>7. /\ leases'[lease].pc = "over" /\ leases'[lease].stream = leases[lease].stream
      /\ \A k \in Leases : k # lease => leases'[k] = leases[k]
  BY <1>6, <1>2, <1>1 DEF Delivers, LeaseRecord
<1>8. \A l \in Loads : LoadOK(l)'
  BY <1>1, <1>5 DEF OwnershipOK, LoadOK, CurrentOK
<1>9. ThreadsEnded' /\ CurrentOK' /\ HoldersOK'
  BY <1>1, <1>2, <1>5 DEF OwnershipOK, ThreadsEnded, CurrentOK, HoldersOK
<1>10. ASSUME NEW k \in Leases PROVE LeaseOK(k)' /\ StreamOK(k)'
  <2>1. CASE k = lease
    BY <2>1, <1>1, <1>7 DEF OwnershipOK, LeaseOK, StreamOK, Live, WorkerPcs
  <2>2. CASE k # lease
    <3>1. ~Live(k)
      BY <2>2 DEF OwnershipOK, LeaseOK
    <3> QED BY <3>1, <2>2, <1>1, <1>7 DEF OwnershipOK, LeaseOK, StreamOK, Live
  <2> QED BY <2>1, <2>2
<1>11. ActiveOK' /\ FifoOK'
  BY <1>1, <1>5 DEF ActiveOK, FifoOK
<1> QED BY <1>8, <1>9, <1>10, <1>11 DEF OwnershipOK

\* Setting a cancel event changes nothing else.
LEMMA CancelFields ==
  ASSUME TypeOK, NEW g \in Leases, NEW k \in Leases
  PROVE  LET w == [leases EXCEPT ![g].cancel = TRUE][k] IN
         /\ w.pc = leases[k].pc /\ w.engine = leases[k].engine
         /\ w.session = leases[k].session /\ w.stream = leases[k].stream
         /\ w.appended = leases[k].appended /\ w.event = leases[k].event
         /\ w.outcome = leases[k].outcome /\ w.items = leases[k].items
<1>1. leases \in [Leases -> LeaseRecord] /\ leases[k] \in LeaseRecord
  BY Types
<1>2. [leases EXCEPT ![g].cancel = TRUE][k] =
        IF k = g THEN [leases[k] EXCEPT !.cancel = TRUE] ELSE leases[k]
  BY <1>1
<1> QED BY <1>1, <1>2 DEF LeaseRecord

LEMMA OwnershipStep == TypeOK /\ OwnershipOK /\ [Next]_vars => OwnershipOK'
<1> SUFFICES ASSUME TypeOK, OwnershipOK, [Next]_vars PROVE OwnershipOK'
  OBVIOUS
<1>1. ASSUME NEW l \in Loads,
             \/ \E c \in Checkpoints : LoadCheckpoint(l, c)
             \/ LoadThread(l) \/ LoadSettles(l) \/ LoadCancelled(l) \/ ReleaseCancelled(l)
      PROVE OwnershipOK'
  BY <1>1, LoadOwnershipStep
<1>2. CASE Reset
  BY <1>2, ResetOwnership
<1>3. ASSUME NEW g \in Leases, StartGeneration(g) PROVE OwnershipOK'
  BY <1>3, StartOwnership
<1>4. ASSUME NEW g \in Leases, Cancel(g) PROVE OwnershipOK'
  <2>1. \A k \in Leases : /\ leases'[k].pc = leases[k].pc
                          /\ leases'[k].engine = leases[k].engine
                          /\ leases'[k].session = leases[k].session
                          /\ leases'[k].stream = leases[k].stream
    BY <1>4, CancelFields DEF Cancel
  <2> QED BY <1>4, <2>1, QuietOwnership DEF Cancel, OwnershipOK, HoldersOK
<1>5. ASSUME NEW g \in Leases, Worker(g) PROVE OwnershipOK'
  BY <1>5, WorkerKinds, WorkerOwnershipStep
<1>6. CASE ForwardEvent
  BY <1>6, ForwardOwnership
<1>7. CASE FinishGeneration
  BY <1>7, FinishOwnership
<1>8. CASE ShutdownBegin
  <2>1. \A k \in Leases : /\ leases'[k].pc = leases[k].pc
                          /\ leases'[k].engine = leases[k].engine
                          /\ leases'[k].session = leases[k].session
                          /\ leases'[k].stream = leases[k].stream
    <3>1. lease \in Leases \cup {None}
      BY Types
    <3>2. CASE lease # None
      <4>1. leases' = [leases EXCEPT ![lease].cancel = TRUE] /\ lease \in Leases
        BY <1>8, <3>1, <3>2 DEF ShutdownBegin
      <4> QED BY <4>1, CancelFields
    <3>3. CASE lease = None
      BY <1>8, <3>3 DEF ShutdownBegin
    <3> QED BY <3>2, <3>3
  <2>2. shutdown' \in {"waitLock", "done"} => lease = None
    BY <1>8 DEF ShutdownBegin
  <2> QED BY <1>8, <2>1, <2>2, QuietOwnership DEF ShutdownBegin
<1>9. CASE ShutdownAwaited
  <2>1. lease \in Leases \cup {None}
    BY Types
  <2>2. lease = None
    BY <1>9, <2>1 DEF ShutdownAwaited, OwnershipOK, LeaseOK, Live
  <2> QED BY <1>9, <2>2, QuietOwnership DEF ShutdownAwaited
<1>10. CASE ShutdownRelease
  <2>1. /\ shutdown = "waitLock" /\ lock = None /\ shutdown' = "done"
        /\ engine' = None /\ checkpoint' = None /\ status' = "unloaded"
        /\ engines' = ReleaseCurrent
        /\ UNCHANGED <<lock, loads, lease, leases, callbacks, session, records>>
    BY <1>10 DEF ShutdownRelease
  <2>2. lease = None
    BY <2>1 DEF OwnershipOK, HoldersOK
  <2>3. /\ engine # None => engines'[engine].closed
        /\ \A l \in Loads : l # engine => engines'[l] = engines[l]
    BY <2>1, <2>2, ReleaseCurrentOK
  <2>4. ASSUME NEW l \in Loads PROVE LoadOK(l)'
    <3>1. CASE l = engine
      BY <3>1, <2>1, <2>3 DEF OwnershipOK, LoadOK, CurrentOK
    <3>2. CASE l # engine
      BY <3>2, <2>1, <2>3 DEF OwnershipOK, LoadOK
    <3> QED BY <3>1, <3>2
  <2>5. ThreadsEnded' /\ CurrentOK' /\ HoldersOK'
    BY <2>1, <2>2 DEF OwnershipOK, ThreadsEnded, CurrentOK, HoldersOK
  <2>6. \A g \in Leases : LeaseOK(g)' /\ StreamOK(g)'
    <3>1. \A g \in Leases : ~Live(g)
      BY <2>2 DEF OwnershipOK, LeaseOK
    <3> QED BY <3>1, <2>1, <2>2 DEF OwnershipOK, LeaseOK, StreamOK, Live
  <2>7. ActiveOK' /\ FifoOK'
    BY <2>1, <2>2 DEF OwnershipOK, ActiveOK, FifoOK
  <2> QED BY <2>4, <2>5, <2>6, <2>7 DEF OwnershipOK
<1>11. CASE UNCHANGED vars
  <2>1. shutdown' \in {"waitLock", "done"} => lease = None
    BY <1>11 DEF vars, OwnershipOK, HoldersOK
  <2> QED BY <1>11, <2>1, QuietOwnership DEF vars, loadVars
<1> QED BY <1>1, <1>2, <1>3, <1>4, <1>5, <1>6, <1>7, <1>8, <1>9, <1>10, <1>11 DEF Next

\* What ownership says of engines and status.
LEMMA OwnershipMeans == TypeOK /\ OwnershipOK => EnginesAccounted /\ StatusTruthful
<1> SUFFICES ASSUME TypeOK, OwnershipOK PROVE EnginesAccounted /\ StatusTruthful
  OBVIOUS
<1>1. EngineExclusive
  BY LiveWorker DEF EngineExclusive
<1>2. NoEngineLeak
  <2>1. ASSUME NEW l \in Loads, loads[l].thread = "built", ~engines[l].closed,
               l # engine, loads[l].pc \notin {"waiting", "cancelled"}
        PROVE  FALSE
    <3>1. loads[l] \in LoadRecord /\ LoadOK(l)
      BY Types DEF OwnershipOK
    <3> QED BY <2>1, <3>1 DEF LoadOK, LoadRecord, LoadPcs
  <2> QED BY <2>1 DEF NoEngineLeak
<1>3. Status = "generating" <=> lease # None
  <2>1. status = "generating" <=> lease # None
    BY DEF OwnershipOK, HoldersOK
  <2>2. Status = "generating" => status = "generating"
    BY StatusMeaning DEF Status, Inactive, OwnershipOK, HoldersOK
  <2> QED BY <2>1, <2>2 DEF Status
<1>4. Status = "loading" <=> lock # None
  <2>1. status = "loading" <=> lock # None
    BY DEF OwnershipOK, HoldersOK
  <2> QED BY <2>1 DEF Status
<1>5. Status = "ready" => engine # None /\ Inactive(engines[engine])
  BY StatusMeaning
<1>6. checkpoint = IF engine = None THEN None ELSE loads[engine].ckpt
  BY DEF OwnershipOK, CurrentOK
<1> QED BY <1>1, <1>2, <1>3, <1>4, <1>5, <1>6 DEF EnginesAccounted, StatusTruthful

\* For any loads, generations and tokens: a worker has its engine to itself for
\* as long as it lives (no load, reset, close or second worker touches it), and
\* no engine a load has built stays open unless it is current or on its way to be
\* swapped in or released (service.py:432-445, 482-546, 650-687, 825-841).
THEOREM EnginesAccountedHolds == SafeSpec => []EnginesAccounted
<1>1. Init => TypeOK /\ OwnershipOK
  BY TypeInit, OwnershipInit
<1>2. TypeOK /\ OwnershipOK /\ [Next]_vars => (TypeOK /\ OwnershipOK)'
  BY TypeStep, OwnershipStep
<1>3. TypeOK /\ OwnershipOK => EnginesAccounted
  BY OwnershipMeans
<1> QED BY <1>1, <1>2, <1>3, PTL DEF SafeSpec

\* For any loads and generations: the status a client reads is "generating"
\* exactly while a lease is held and "loading" exactly while a load holds the
\* lock, "ready" promises an open idle engine, and the advertised checkpoint is
\* the engine's (service.py:408-424).
THEOREM StatusTruthfulHolds == SafeSpec => []StatusTruthful
<1>1. Init => TypeOK /\ OwnershipOK
  BY TypeInit, OwnershipInit
<1>2. TypeOK /\ OwnershipOK /\ [Next]_vars => (TypeOK /\ OwnershipOK)'
  BY TypeStep, OwnershipStep
<1>3. TypeOK /\ OwnershipOK => StatusTruthful
  BY OwnershipMeans
<1> QED BY <1>1, <1>2, <1>3, PTL DEF SafeSpec

\* Only a successful load and the end of shutdown replace the engine.
LEMMA SwapStep ==
  ASSUME TypeOK, OwnershipOK, [Next]_vars, engine' # engine
  PROVE  \/ /\ engine' # None /\ engine' = lock /\ loads[engine'].thread = "built"
            /\ ~engines'[engine'].closed /\ session'.id # session.id
            /\ engine # None => engines'[engine].closed
         \/ shutdown' = "done"
<1>1. ASSUME NEW l \in Loads, LoadSucceeds(l)
      PROVE  /\ engine' # None /\ engine' = lock /\ loads[engine'].thread = "built"
             /\ ~engines'[engine'].closed /\ session'.id # session.id
             /\ engine # None => engines'[engine].closed
  <2>1. /\ loads[l].pc = "waiting" /\ loads[l].thread = "built" /\ engine' = l
        /\ engines' = ReleaseCurrent /\ session'.id = session.id + 1
    BY <1>1 DEF LoadSucceeds, NewSession
  <2>2. lock = l /\ lease = None /\ engine # l /\ engines[l] = NewEngine
    BY <2>1 DEF OwnershipOK, LoadOK, HoldersOK
  <2>3. session.id \in Nat
    BY Types
  <2>4. ~NewEngine.closed
    BY DEF NewEngine
  <2>5. l # None
    BY ChatSessionAssumption
  <2> QED BY <2>1, <2>2, <2>3, <2>4, <2>5, ReleaseCurrentOK
<1>2. \/ ShutdownRelease \/ \E l \in Loads : LoadSucceeds(l)
  <2>1. ASSUME NEW l \in Loads, LoadSettles(l) PROVE LoadSucceeds(l)
    BY <2>1 DEF LoadSettles, LoadFails
  <2>2. ASSUME NEW g \in Leases, Worker(g) PROVE FALSE
    BY <2>2, Zenon DEF Worker, WorkerBegin, WorkerPrompted, WorkerNext, WorkerGot, WorkerClose,
                WorkerRollback, WorkerStep
  <2>3. ASSUME NEW l \in Loads,
               \/ \E c \in Checkpoints : LoadCheckpoint(l, c)
               \/ LoadThread(l) \/ LoadCancelled(l) \/ ReleaseCancelled(l)
        PROVE FALSE
    BY <2>3, Zenon DEF LoadCheckpoint, LoadThread, LoadCancelled, ReleaseCancelled
  <2>4. ASSUME NEW g \in Leases, StartGeneration(g) \/ Cancel(g) PROVE FALSE
    BY <2>4, Zenon DEF StartGeneration, Cancel
  <2>5. CASE Reset \/ ForwardEvent \/ FinishGeneration \/ ShutdownBegin \/ ShutdownAwaited
             \/ UNCHANGED vars
    BY <2>5, Zenon DEF Reset, ForwardEvent, FinishGeneration, ShutdownBegin, ShutdownAwaited, vars
  <2> QED BY <2>1, <2>2, <2>3, <2>4, <2>5 DEF Next
<1> QED BY <1>1, <1>2 DEF ShutdownRelease

\* For any loads: the current engine is replaced only by a load that holds the lock
\* and has built an open engine, together with a new session and the release of the
\* old engine, or by shutdown; a load that fails or is cancelled changes nothing a
\* client can see (service.py:432-445, 492-535).
THEOREM SwapIsAtomicHolds == SafeSpec => SwapIsAtomic
<1>1. Init => TypeOK /\ OwnershipOK
  BY TypeInit, OwnershipInit
<1>2. TypeOK /\ OwnershipOK /\ [Next]_vars => (TypeOK /\ OwnershipOK)'
  BY TypeStep, OwnershipStep
<1>3. TypeOK /\ OwnershipOK /\ [Next]_vars
        => [engine' # engine =>
              \/ /\ engine' # None /\ engine' = lock /\ loads[engine'].thread = "built"
                 /\ ~engines'[engine'].closed /\ session'.id # session.id
                 /\ engine # None => engines'[engine].closed
              \/ shutdown' = "done"]_vars
  BY SwapStep
<1> QED BY <1>1, <1>2, <1>3, PTL DEF SafeSpec, SwapIsAtomic

-----------------------------------------------------------------------------
(* Delivery: what a consumer sees of its generation.                       *)

LEMMA StreamsInit == Init => StreamsOK
  BY DEF Init, StreamsOK, DeliveryOK, FifoItemsOK, SendingOK

\* Steps that neither post nor deliver nor move a worker.
LEMMA QuietStreams ==
  ASSUME TypeOK, OwnershipOK, StreamsOK, callbacks' = callbacks, lease' = lease,
         \A g \in Leases : /\ leases'[g].pc = leases[g].pc
                           /\ leases'[g].stream = leases[g].stream
                           /\ leases'[g].event = leases[g].event
                           /\ leases'[g].items = leases[g].items
  PROVE  StreamsOK'
<1>1. \A g \in Leases : DeliveryOK(g)'
  BY DEF StreamsOK, DeliveryOK
<1>2. lease \in Leases \cup {None}
  BY Types
<1>3. FifoItemsOK'
  <2>1. ASSUME NEW i \in DOMAIN callbacks PROVE callbacks[i].lease \in Leases
    <3>1. callbacks[i] \in Callback
      BY <2>1, Types
    <3> QED BY <3>1 DEF Callback
  <2> QED BY <2>1 DEF StreamsOK, FifoItemsOK
<1>4. SendingOK'
  BY <1>2 DEF StreamsOK, SendingOK, NothingSent, Started
<1> QED BY <1>1, <1>3, <1>4 DEF StreamsOK

\* A step of a worker that posts nothing, an event or its terminal callback.
LEMMA WorkerStreams ==
  ASSUME TypeOK, OwnershipOK, StreamsOK, NEW g \in Leases, Live(g),
         NEW e2, NEW w2 \in LeaseRecord, NEW posted, WorkerStep(g, e2, w2, posted),
         w2.items = leases[g].items, w2.pc \notin {"unused", "over"},
         \/ posted = <<>>
         \/ posted = Finish(g)
         \/ posted = <<[lease |-> g, item |-> "start"]>> /\ NothingSent(g)
         \/ posted = <<[lease |-> g, item |-> "token"]>> /\ ~NothingSent(g),
         w2.pc \in {"begin", "prompted"} => NothingSent(g) /\ posted = <<>>,
         w2.pc = "loop" => w2.stream # "none",
         w2.pc = "got" => w2.stream = "running",
         w2.pc \in {"loop", "got"}
           => (NothingSent(g) /\ posted = <<>> <=> ~Started(w2))
  PROVE  StreamsOK'
<1>0. /\ lease = g /\ callbacks \in Seq(Callback) /\ leases \in [Leases -> LeaseRecord]
      /\ leases[g].pc \notin {"unused", "over"}
  BY LiveWorker, Types DEF Live
<1>1. leases' = [leases EXCEPT ![g] = w2] /\ callbacks' = callbacks \o posted /\ lease' = lease
  BY DEF WorkerStep
<1>2. leases'[g] = w2 /\ \A k \in Leases : k # g => leases'[k] = leases[k]
  BY <1>0, <1>1
<1>3. \A k \in Leases : DeliveryOK(k)'
  <2>1. \A k \in Leases : leases'[k].items = leases[k].items
    BY <1>2
  <2>2. DeliveryOK(g)'
    BY <2>1, <1>2, <1>0 DEF StreamsOK, DeliveryOK
  <2>3. \A k \in Leases : k # g => DeliveryOK(k)'
    BY <1>2 DEF StreamsOK, DeliveryOK
  <2> QED BY <2>2, <2>3
<1>4. \A i \in DOMAIN callbacks :
        /\ callbacks[i].lease = g /\ callbacks[i].item \in {"start", "token", "finish"}
        /\ callbacks[i].item = "start" => i = 1 /\ leases[g].items = <<>>
        /\ callbacks[i].item = "token" => i > 1 \/ leases[g].items # <<>>
  BY <1>0 DEF OwnershipOK, FifoOK, StreamsOK, FifoItemsOK
<1>5. CASE posted = <<>>
  <2>1. callbacks' = callbacks
    BY <1>5, <1>1, <1>0
  <2>2. FifoItemsOK'
    BY <2>1, <1>2, <1>4 DEF FifoItemsOK
  <2>3. SendingOK'
    BY <2>1, <1>0, <1>1, <1>2, <1>5 DEF SendingOK, NothingSent
  <2> QED BY <2>2, <2>3, <1>3 DEF StreamsOK
<1>6. ASSUME NEW it \in {"start", "token", "finish"}, posted = <<[lease |-> g, item |-> it]>>,
             it = "start" => NothingSent(g), it = "token" => ~NothingSent(g)
      PROVE  StreamsOK'
  <2> DEFINE x == [lease |-> g, item |-> it]
  <2>1. x \in Callback /\ x.lease = g /\ x.item = it
    BY DEF Callback, Events
  <2>2. callbacks' = Append(callbacks, x)
    BY <1>6, <1>0, <1>1, <2>1, ConcatOne
  <2> HIDE DEF x
  <2>3. /\ callbacks'[Len(callbacks) + 1] = x
        /\ \A i \in 1 .. Len(callbacks) : callbacks'[i] = callbacks[i]
        /\ DOMAIN callbacks' = 1 .. Len(callbacks) + 1 /\ DOMAIN callbacks = 1 .. Len(callbacks)
        /\ Len(callbacks) \in Nat /\ callbacks' # <<>>
        /\ Len(callbacks) = 0 <=> callbacks = <<>>
    BY <2>2, <2>1, <1>0
  <2>4. FifoItemsOK'
    BY <2>1, <2>3, <1>2, <1>4, <1>6 DEF FifoItemsOK, NothingSent
  <2>5. posted # <<>>
    BY <1>6
  <2>6. SendingOK'
    BY <2>3, <2>5, <1>0, <1>1, <1>2 DEF SendingOK, NothingSent
  <2> QED BY <2>4, <2>6, <1>3 DEF StreamsOK
<1> QED BY <1>5, <1>6 DEF Finish

LEMMA WorkerStreamsStep ==
  ASSUME TypeOK, OwnershipOK, StreamsOK, NEW g \in Leases, WorkerKind(g)
  PROVE  StreamsOK'
<1> DEFINE w == leases[g]
           e == engines[w.engine]
<1>l. Live(g)
  BY DEF WorkerKind, GivesUp, Appends, Creates, Starts, GetsToken, Completes, Breaks,
         Accepts, Forwards, Closes, Keeps, Undoes, CannotUndo, Live, WorkerPcs
<1>w. w \in LeaseRecord /\ lease = g
  BY <1>l, LiveWorker
<1>s. /\ w.pc \in {"begin", "prompted"} => NothingSent(g)
      /\ w.pc = "got" => w.stream = "running"
      /\ w.pc \in {"loop", "got"} => (NothingSent(g) <=> ~Started(w))
  BY <1>w DEF StreamsOK, SendingOK
<1>0. /\ w = leases[g] /\ e = engines[w.engine]
  BY DEF w, e
<1> HIDE DEF w, e
<1>1. CASE GivesUp(g)
  <2>1. PICK o \in {"cancelled", "failed"} : WorkerStep(g, e, Wind(w, o), <<>>)
    BY <1>1, <1>0, Zenon DEF GivesUp
  <2>2. Wind(w, o) \in LeaseRecord
    BY <1>w, WorkerRecords DEF Outcomes
  <2>3. Wind(w, o).pc = "close" /\ Wind(w, o).items = w.items
    BY <1>w DEF Wind, LeaseRecord
  <2> HIDE DEF Wind
  <2> QED BY <2>1, <2>2, <2>3, <1>0, <1>l, WorkerStreams
<1>2. CASE Appends(g)
  <2> DEFINE w2 == [w EXCEPT !.pc = "prompted", !.appended = TRUE]
  <2>1. WorkerStep(g, AppendUser(e, g), w2, <<>>) /\ w.pc = "begin"
    BY <1>2, <1>0 DEF Appends
  <2>2. w2 \in LeaseRecord /\ w2.pc = "prompted" /\ w2.items = w.items
    <3>1. w2 \in LeaseRecord
      BY <1>w, WorkerRecords, Zenon
    <3> QED BY <3>1, <1>w DEF LeaseRecord
  <2> HIDE DEF w2
  <2> QED BY <2>1, <2>2, <1>0, <1>l, <1>s, WorkerStreams
<1>3. CASE Creates(g)
  <2> DEFINE w2 == [w EXCEPT !.pc = "loop", !.stream = "created"]
  <2>1. WorkerStep(g, e, w2, <<>>) /\ w.pc = "prompted"
    BY <1>3, <1>0 DEF Creates
  <2>2. /\ w2 \in LeaseRecord /\ w2.pc = "loop" /\ w2.items = w.items
        /\ w2.stream = "created"
    <3>1. w2 \in LeaseRecord
      BY <1>w, WorkerRecords, Zenon
    <3> QED BY <3>1, <1>w DEF LeaseRecord
  <2> HIDE DEF w2
  <2>3. ~Started(w2)
    BY <2>2 DEF Started
  <2> QED BY <2>1, <2>2, <2>3, <1>0, <1>l, <1>s, WorkerStreams
<1>4. CASE Starts(g)
  <2> DEFINE w2 == [w EXCEPT !.pc = "got", !.event = "start", !.stream = "running"]
  <2>1. WorkerStep(g, StartStream(e), w2, <<>>) /\ w.pc = "loop" /\ w.stream = "created"
    BY <1>4, <1>0 DEF Starts
  <2>2. /\ w2 \in LeaseRecord /\ w2.pc = "got" /\ w2.items = w.items
        /\ w2.stream = "running" /\ w2.event = "start"
    <3>1. w2 \in LeaseRecord
      BY <1>w, WorkerRecords, Zenon
    <3> QED BY <3>1, <1>w DEF LeaseRecord
  <2> HIDE DEF w2
  <2>3. ~Started(w2) /\ ~Started(w)
    BY <2>1, <2>2 DEF Started
  <2> QED BY <2>1, <2>2, <2>3, <1>0, <1>l, <1>s, WorkerStreams
<1>5. CASE GetsToken(g)
  <2> DEFINE w2 == [w EXCEPT !.pc = "got", !.event = "token", !.stream = "running",
                             !.tokens = @ + 1]
  <2>1. WorkerStep(g, e, w2, <<>>) /\ w.pc = "loop" /\ w.stream = "running"
    BY <1>5, <1>0 DEF GetsToken
  <2>2. w2 \in LeaseRecord
    BY <1>w, WorkerRecords
  <2>3. w2.pc = "got" /\ w2.items = w.items /\ w2.stream = "running" /\ w2.event = "token"
    BY <1>w DEF LeaseRecord
  <2> HIDE DEF w2
  <2>4. Started(w2) /\ Started(w)
    BY <2>1, <2>3 DEF Started
  <2> QED BY <2>1, <2>2, <2>3, <2>4, <1>0, <1>l, <1>s, WorkerStreams
<1>6. CASE Completes(g)
  <2> DEFINE w2 == [w EXCEPT !.pc = "got", !.event = "complete", !.stream = "running"]
  <2>1. /\ WorkerStep(g, CompleteStream(e, g), w2, <<>>)
        /\ w.pc = "loop" /\ w.stream = "running"
    BY <1>6, <1>0 DEF Completes
  <2>2. /\ w2 \in LeaseRecord /\ w2.pc = "got" /\ w2.items = w.items
        /\ w2.stream = "running" /\ w2.event = "complete"
    <3>1. w2 \in LeaseRecord
      BY <1>w, WorkerRecords, Zenon
    <3> QED BY <3>1, <1>w DEF LeaseRecord
  <2> HIDE DEF w2
  <2>3. Started(w2) /\ Started(w)
    BY <2>1, <2>2 DEF Started
  <2> QED BY <2>1, <2>2, <2>3, <1>0, <1>l, <1>s, WorkerStreams
<1>7. CASE Breaks(g)
  <2> DEFINE w2 == [w EXCEPT !.pc = "close", !.outcome = "failed", !.stream = "none"]
  <2>1. WorkerStep(g, FinishInterrupted(e, "failed"), w2, <<>>)
    BY <1>7, <1>0 DEF Breaks
  <2>2. w2 \in LeaseRecord /\ w2.pc = "close" /\ w2.items = w.items
    <3>1. w2 \in LeaseRecord
      BY <1>w, WorkerRecords, Zenon
    <3> QED BY <3>1, <1>w DEF LeaseRecord
  <2> HIDE DEF w2
  <2> QED BY <2>1, <2>2, <1>0, <1>l, WorkerStreams
<1>8. CASE Accepts(g)
  <2> DEFINE w2 == Wind(w, "completed")
  <2>1. WorkerStep(g, e, w2, <<>>)
    BY <1>8, <1>0 DEF Accepts
  <2>2. w2 \in LeaseRecord
    BY <1>w, WorkerRecords DEF Outcomes
  <2>3. w2.pc = "close" /\ w2.items = w.items
    BY <1>w DEF Wind, LeaseRecord
  <2> HIDE DEF w2
  <2> QED BY <2>1, <2>2, <2>3, <1>0, <1>l, WorkerStreams
<1>9. CASE Forwards(g)
  <2> DEFINE w2 == [w EXCEPT !.pc = "loop"]
             x == <<[lease |-> g, item |-> w.event]>>
  <2>1. WorkerStep(g, e, w2, x) /\ w.pc = "got" /\ w.event # "complete"
    BY <1>9, <1>0 DEF Forwards
  <2>2. w.event \in {"start", "token"}
    BY <2>1, <1>w DEF LeaseRecord, Events
  <2>3. /\ w2 \in LeaseRecord /\ w2.pc = "loop" /\ w2.items = w.items
        /\ w2.stream = "running"
    <3>1. w2 \in LeaseRecord
      BY <1>w, WorkerRecords, Zenon
    <3> QED BY <3>1, <2>1, <1>s, <1>w DEF LeaseRecord
  <2>4. \/ x = <<[lease |-> g, item |-> "start"]>> /\ NothingSent(g)
        \/ x = <<[lease |-> g, item |-> "token"]>> /\ ~NothingSent(g)
    BY <2>1, <2>2, <1>s DEF Started
  <2>5. x # <<>>
    OBVIOUS
  <2> HIDE DEF w2, x
  <2>6. Started(w2)
    BY <2>3 DEF Started
  <2> QED BY <2>1, <2>3, <2>4, <2>5, <2>6, <1>0, <1>l, WorkerStreams
<1>10. CASE Closes(g)
  <2> DEFINE e2 == IF w.stream = "running" THEN FinishInterrupted(e, "cancelled") ELSE e
  <2>0. PICK o \in {w.outcome, "failed"} :
          WorkerStep(g, e2, [w EXCEPT !.pc = "rollback", !.stream = "none", !.outcome = o], <<>>)
    BY <1>10, <1>0, Zenon DEF Closes
  <2> DEFINE w2 == [w EXCEPT !.pc = "rollback", !.stream = "none", !.outcome = o]
  <2>1. WorkerStep(g, e2, w2, <<>>)
    BY <2>0
  <2>o. o \in Outcomes
    BY <1>w DEF LeaseRecord, Outcomes
  <2>2. w2 \in LeaseRecord /\ w2.pc = "rollback" /\ w2.items = w.items
    <3>1. w2 \in LeaseRecord
      BY <2>o, <1>w, WorkerRecords, Zenon
    <3> QED BY <3>1, <1>w DEF LeaseRecord
  <2> HIDE DEF w2, e2
  <2> QED BY <2>1, <2>2, <1>0, <1>l, WorkerStreams
<1>11. CASE Keeps(g) \/ Undoes(g)
  <2> DEFINE w2 == [w EXCEPT !.pc = "posted"]
  <2>1. PICK e2 : WorkerStep(g, e2, w2, Finish(g))
    BY <1>11, <1>0, Zenon DEF Keeps, Undoes
  <2>2. w2 \in LeaseRecord /\ w2.pc = "posted" /\ w2.items = w.items
    <3>1. w2 \in LeaseRecord
      BY <1>w, WorkerRecords, Zenon
    <3> QED BY <3>1, <1>w DEF LeaseRecord
  <2> HIDE DEF w2
  <2> QED BY <2>1, <2>2, <1>0, <1>l, WorkerStreams
<1>12. CASE CannotUndo(g)
  <2> DEFINE w2 == [w EXCEPT !.pc = "posted", !.outcome = "failed"]
  <2>1. WorkerStep(g, e, w2, Finish(g))
    BY <1>12, <1>0 DEF CannotUndo
  <2>2. w2 \in LeaseRecord /\ w2.pc = "posted" /\ w2.items = w.items
    <3>1. w2 \in LeaseRecord
      BY <1>w, WorkerRecords, Zenon
    <3> QED BY <3>1, <1>w DEF LeaseRecord
  <2> HIDE DEF w2
  <2> QED BY <2>1, <2>2, <1>0, <1>l, WorkerStreams
<1> QED BY <1>1, <1>2, <1>3, <1>4, <1>5, <1>6, <1>7, <1>8, <1>9, <1>10, <1>11, <1>12
     DEF WorkerKind

\* A lease's items after one more.
LEMMA ItemsGrow ==
  ASSUME NEW s \in Seq(Events \cup Outcomes), NEW x \in Events \cup Outcomes
  PROVE  /\ Append(s, x) # <<>> /\ Len(Append(s, x)) = Len(s) + 1 /\ Len(s) \in Nat
         /\ DOMAIN Append(s, x) = 1 .. Len(s) + 1 /\ DOMAIN s = 1 .. Len(s)
         /\ Append(s, x)[Len(s) + 1] = x
         /\ \A i \in 1 .. Len(s) : Append(s, x)[i] = s[i]
         /\ s = <<>> <=> Len(s) = 0
  OBVIOUS

LEMMA ForwardStreams == TypeOK /\ OwnershipOK /\ StreamsOK /\ ForwardEvent => StreamsOK'
<1> SUFFICES ASSUME TypeOK, OwnershipOK, StreamsOK, ForwardEvent PROVE StreamsOK'
  OBVIOUS
<1> DEFINE x == Head(callbacks).item
           s == leases[lease].items
           s2 == Append(s, x)
<1>1. /\ callbacks # <<>> /\ x # "finish" /\ callbacks' = Tail(callbacks) /\ lease' = lease
      /\ leases' = [leases EXCEPT ![lease].items = s2]
  BY HeadOfFifo DEF ForwardEvent
<1>2. /\ lease \in Leases /\ Live(lease) /\ leases \in [Leases -> LeaseRecord]
      /\ leases[lease] \in LeaseRecord /\ s \in Seq(Events \cup Outcomes)
  BY <1>1, HeadOfFifo, Types DEF LeaseRecord
<1>3. /\ x \in {"start", "token"}
      /\ x = "start" => s = <<>>
      /\ x = "token" => s # <<>>
  <2>1. Head(callbacks) = callbacks[1] /\ callbacks[1].lease = lease /\ 1 \in DOMAIN callbacks
    <3>1. callbacks \in Seq(Callback)
      BY Types
    <3> QED BY <3>1, <1>1, HeadOfFifo
  <2> QED BY <2>1, <1>1 DEF StreamsOK, FifoItemsOK
<1>4. x \in Events \cup Outcomes
  BY <1>3 DEF Events
<1>5. /\ s2 # <<>> /\ Len(s2) = Len(s) + 1 /\ Len(s) \in Nat
      /\ DOMAIN s2 = 1 .. Len(s) + 1 /\ DOMAIN s = 1 .. Len(s) /\ s2[Len(s) + 1] = x
      /\ \A i \in 1 .. Len(s) : s2[i] = s[i]
      /\ s = <<>> <=> Len(s) = 0
  BY <1>2, <1>4, ItemsGrow
<1> HIDE DEF s2
<1>6. /\ leases'[lease].items = s2 /\ leases'[lease].pc = leases[lease].pc
      /\ leases'[lease].stream = leases[lease].stream
      /\ leases'[lease].event = leases[lease].event
      /\ \A k \in Leases : k # lease => leases'[k] = leases[k]
  BY <1>1, <1>2 DEF LeaseRecord
<1>7. DeliveryOK(lease)'
  <2>1. leases[lease].pc \notin {"unused", "over"}
    BY <1>2 DEF Live
  <2>2. \A i \in 1 .. Len(s) : s[i] \in {"start", "token"} /\ (s[i] = "start" <=> i = 1)
    BY <2>1, <1>2, <1>5 DEF StreamsOK, DeliveryOK
  <2>3. ASSUME NEW i \in DOMAIN s2
        PROVE  s2[i] \in {"start", "token"} /\ (s2[i] = "start" <=> i = 1)
    <3>1. CASE i \in 1 .. Len(s)
      BY <3>1, <2>2, <1>5
    <3>2. CASE i = Len(s) + 1
      BY <3>2, <1>5, <1>3
    <3> QED BY <3>1, <3>2, <1>5
  <2> QED BY <2>1, <2>3, <1>1, <1>6 DEF DeliveryOK
<1>8. \A k \in Leases : k # lease => DeliveryOK(k)'
  BY <1>6 DEF StreamsOK, DeliveryOK
<1>9. FifoItemsOK'
  <2>1. /\ Len(callbacks) \in Nat \ {0} /\ DOMAIN callbacks' = 1 .. Len(callbacks) - 1
        /\ DOMAIN callbacks = 1 .. Len(callbacks)
        /\ \A i \in 1 .. Len(callbacks) - 1 : callbacks'[i] = callbacks[i + 1]
    <3>1. callbacks \in Seq(Callback)
      BY Types
    <3> QED BY <3>1, <1>1, HeadOfFifo
  <2>2. ASSUME NEW i \in DOMAIN callbacks'
        PROVE  /\ callbacks'[i].item \in {"start", "token", "finish"}
               /\ callbacks'[i].item # "start" /\ callbacks'[i].lease = lease
    <3>1. i + 1 \in DOMAIN callbacks /\ callbacks'[i] = callbacks[i + 1] /\ i + 1 # 1
      BY <2>1
    <3>2. /\ callbacks[i + 1].item \in {"start", "token", "finish"}
          /\ callbacks[i + 1].item # "start"
      BY <3>1 DEF StreamsOK, FifoItemsOK
    <3>3. callbacks[i + 1].lease = lease
      BY <3>1 DEF OwnershipOK, FifoOK
    <3> QED BY <3>1, <3>2, <3>3
  <2> QED BY <2>2, <1>6, <1>5 DEF FifoItemsOK
<1>10. SendingOK'
  <2>1. ~NothingSent(lease)
    BY <1>1 DEF NothingSent
  <2>2. ~NothingSent(lease)'
    BY <1>1, <1>5, <1>6 DEF NothingSent
  <2> QED BY <2>1, <2>2, <1>1, <1>2, <1>6 DEF StreamsOK, SendingOK, Started
<1>11. \A k \in Leases : DeliveryOK(k)'
  <2>1. lease' = lease
    BY <1>1
  <2>2. ASSUME NEW k \in Leases, k = lease PROVE DeliveryOK(k)'
    BY <2>1, <2>2, <1>7
  <2> QED BY <2>2, <1>8
<1> QED BY <1>9, <1>10, <1>11 DEF StreamsOK

LEMMA FinishStreams == TypeOK /\ OwnershipOK /\ StreamsOK /\ FinishGeneration => StreamsOK'
<1> SUFFICES ASSUME TypeOK, OwnershipOK, StreamsOK, FinishGeneration PROVE StreamsOK'
  OBVIOUS
<1>0. PICK g \in Leases : g = lease
  BY HeadOfFifo DEF FinishGeneration
<1>1. /\ Live(g) /\ callbacks' = <<>> /\ lease' = None
      /\ Counts(g) \/ TakesBack(g) \/ CountsAlone(g) \/ Reports(g)
  BY <1>0, HeadOfFifo, FinishKinds DEF FinishGeneration
<1>2. leases \in [Leases -> LeaseRecord] /\ leases[g] \in LeaseRecord
  BY Types
<1>3. PICK o \in Outcomes : Delivers(g, o)
  <2>1. leases[g].outcome \in Outcomes /\ "completed" \in Outcomes /\ "failed" \in Outcomes
    BY <1>2 DEF LeaseRecord, Outcomes
  <2> QED BY <1>1, <2>1, Zenon DEF Counts, TakesBack, CountsAlone, Reports
<1> DEFINE s == leases[g].items
           s2 == Append(s, o)
<1>4. s \in Seq(Events \cup Outcomes)
  BY <1>2 DEF LeaseRecord
<1>5. /\ s2 # <<>> /\ Len(s2) = Len(s) + 1 /\ Len(s) \in Nat
      /\ DOMAIN s2 = 1 .. Len(s) + 1 /\ DOMAIN s = 1 .. Len(s) /\ s2[Len(s) + 1] = o
      /\ \A i \in 1 .. Len(s) : s2[i] = s[i]
  BY <1>4, ItemsGrow
<1>6. leases' = [leases EXCEPT ![g].pc = "over", ![g].outcome = o, ![g].items = s2]
  BY <1>3 DEF Delivers
<1> HIDE DEF s2
<1>7. /\ leases'[g].pc = "over" /\ leases'[g].items = s2
      /\ \A k \in Leases : k # g => leases'[k] = leases[k]
  BY <1>1, <1>2, <1>6 DEF LeaseRecord
<1>8. DeliveryOK(g)'
  <2>1. leases[g].pc \notin {"unused", "over"}
    BY <1>1 DEF Live
  <2>2. \A i \in 1 .. Len(s) : s[i] \in {"start", "token"} /\ (s[i] = "start" <=> i = 1)
    BY <2>1, <1>1, <1>5 DEF StreamsOK, DeliveryOK
  <2>3. o \notin Events /\ o # "start"
    BY DEF Events, Outcomes
  <2>4. \A i \in DOMAIN s2 : /\ s2[i] = "start" <=> i = 1 /\ s2[i] \in Events
                             /\ s2[i] \in Outcomes <=> i = Len(s2)
    <3>1. ASSUME NEW i \in 1 .. Len(s)
          PROVE  /\ s2[i] = "start" <=> i = 1 /\ s2[i] \in Events
                 /\ s2[i] \in Outcomes <=> i = Len(s2)
      BY <3>1, <2>2, <1>5 DEF Events, Outcomes
    <3>2. /\ s2[Len(s) + 1] = "start" <=> Len(s) + 1 = 1 /\ s2[Len(s) + 1] \in Events
          /\ s2[Len(s) + 1] \in Outcomes <=> Len(s) + 1 = Len(s2)
      BY <1>5, <2>3
    <3> QED BY <3>1, <3>2, <1>5
  <2> QED BY <2>4, <1>5, <1>7 DEF DeliveryOK
<1>9. \A k \in Leases : k # g => DeliveryOK(k)'
  BY <1>7 DEF StreamsOK, DeliveryOK
<1>10. FifoItemsOK' /\ SendingOK'
  BY <1>1 DEF FifoItemsOK, SendingOK
<1> QED BY <1>8, <1>9, <1>10 DEF StreamsOK

LEMMA StreamsStep == TypeOK /\ OwnershipOK /\ StreamsOK /\ [Next]_vars => StreamsOK'
<1> SUFFICES ASSUME TypeOK, OwnershipOK, StreamsOK, [Next]_vars PROVE StreamsOK'
  OBVIOUS
<1>1. ASSUME NEW g \in Leases, StartGeneration(g) PROVE StreamsOK'
  <2>1. /\ leases[g].pc = "unused" /\ lease = None /\ lease' = g /\ callbacks' = callbacks
        /\ leases' = [leases EXCEPT ![g].pc = "begin", ![g].engine = engine,
                                    ![g].session = session.id]
    BY <1>1, Zenon DEF StartGeneration
  <2>2. leases \in [Leases -> LeaseRecord] /\ leases[g] \in LeaseRecord
    BY Types
  <2>3. /\ leases'[g].pc = "begin" /\ leases'[g].items = leases[g].items
        /\ \A k \in Leases : k # g => leases'[k] = leases[k]
    BY <2>1, <2>2 DEF LeaseRecord
  <2>4. callbacks' = <<>> /\ leases[g].items = <<>> /\ lease' = g /\ lease' \in Leases
    <3>1. lease = None /\ lease' = g /\ callbacks' = callbacks /\ leases[g].pc = "unused"
      BY <2>1, Zenon
    <3> QED BY <3>1 DEF OwnershipOK, FifoOK, StreamsOK, DeliveryOK
  <2>5. \A k \in Leases : DeliveryOK(k)'
    <3>1. DeliveryOK(g)'
      BY <2>3, <2>4 DEF DeliveryOK
    <3>2. \A k \in Leases : k # g => DeliveryOK(k)'
      BY <2>3 DEF StreamsOK, DeliveryOK
    <3> QED BY <3>1, <3>2
  <2>6. FifoItemsOK' /\ SendingOK'
    BY <2>3, <2>4 DEF FifoItemsOK, SendingOK, NothingSent
  <2> QED BY <2>5, <2>6 DEF StreamsOK
<1>2. ASSUME NEW g \in Leases, Worker(g) PROVE StreamsOK'
  BY <1>2, WorkerKinds, WorkerStreamsStep
<1>3. CASE ForwardEvent
  BY <1>3, ForwardStreams
<1>4. CASE FinishGeneration
  BY <1>4, FinishStreams
<1>5. ASSUME NEW g \in Leases, leases' = [leases EXCEPT ![g].cancel = TRUE],
             callbacks' = callbacks, lease' = lease
      PROVE  StreamsOK'
  <2>1. \A k \in Leases : /\ leases'[k].pc = leases[k].pc
                          /\ leases'[k].stream = leases[k].stream
                          /\ leases'[k].event = leases[k].event
                          /\ leases'[k].items = leases[k].items
    BY <1>5, CancelFields
  <2> QED BY <1>5, <2>1, QuietStreams
<1>6. CASE UNCHANGED <<leases, callbacks, lease>>
  BY <1>6, QuietStreams
<1>7. ASSUME NEW g \in Leases, Cancel(g) PROVE StreamsOK'
  BY <1>5, <1>7 DEF Cancel
<1>8. CASE ShutdownBegin
  <2>1. lease \in Leases \cup {None}
    BY Types
  <2>2. \/ lease \in Leases /\ leases' = [leases EXCEPT ![lease].cancel = TRUE]
        \/ UNCHANGED leases
    BY <1>8, <2>1 DEF ShutdownBegin
  <2>3. callbacks' = callbacks /\ lease' = lease
    BY <1>8 DEF ShutdownBegin
  <2> QED BY <1>5, <1>6, <2>2, <2>3
<1>9. ASSUME NEW l \in Loads,
             \/ \E c \in Checkpoints : LoadCheckpoint(l, c)
             \/ LoadThread(l) \/ LoadSettles(l) \/ LoadCancelled(l) \/ ReleaseCancelled(l)
      PROVE StreamsOK'
  <2>1. UNCHANGED <<leases, callbacks, lease>>
    BY <1>9, Zenon DEF LoadCheckpoint, LoadThread, LoadSettles, LoadSucceeds, LoadFails,
                       LoadCancelled, ReleaseCancelled
  <2> QED BY <2>1, <1>6
<1>10. CASE Reset \/ ShutdownAwaited \/ ShutdownRelease \/ UNCHANGED vars
  <2>1. UNCHANGED <<leases, callbacks, lease>>
    BY <1>10, Zenon DEF Reset, ShutdownAwaited, ShutdownRelease, vars
  <2> QED BY <2>1, <1>6
<1> QED BY <1>1, <1>2, <1>3, <1>4, <1>7, <1>8, <1>9, <1>10 DEF Next

\* For any loads, generations and tokens: a consumer sees the start event first,
\* then tokens, and exactly one terminal item, last; nothing of a lease is still on
\* its way when its terminal item has been delivered (service.py:257-278, 947-1011).
THEOREM StreamWellFormedHolds == SafeSpec => []StreamWellFormed
<1>1. Init => TypeOK /\ OwnershipOK /\ StreamsOK
  BY TypeInit, OwnershipInit, StreamsInit
<1>2. TypeOK /\ OwnershipOK /\ StreamsOK /\ [Next]_vars => (TypeOK /\ OwnershipOK /\ StreamsOK)'
  BY TypeStep, OwnershipStep, StreamsStep
<1>3. TypeOK /\ OwnershipOK /\ StreamsOK => StreamWellFormed
  <2> SUFFICES ASSUME TypeOK, OwnershipOK, StreamsOK, NEW g \in Leases
               PROVE  LET s == leases[g].items IN
                      /\ \A i \in DOMAIN s :
                           /\ s[i] = "start" <=> (i = 1 /\ s[i] \in Events)
                           /\ s[i] \in Outcomes <=> (i = Len(s) /\ leases[g].pc = "over")
                      /\ leases[g].pc = "over" => \A i \in DOMAIN callbacks : callbacks[i].lease # g
    BY DEF StreamWellFormed
  <2>1. leases[g].pc = "over" => \A i \in DOMAIN callbacks : callbacks[i].lease # g
    BY DEF OwnershipOK, FifoOK, LeaseOK, Live
  <2>2. CASE leases[g].pc = "over"
    BY <2>1, <2>2 DEF StreamsOK, DeliveryOK
  <2>3. CASE leases[g].pc # "over"
    <3>1. \A i \in DOMAIN leases[g].items :
            /\ leases[g].items[i] \in {"start", "token"}
            /\ leases[g].items[i] = "start" <=> i = 1
      BY <2>3 DEF StreamsOK, DeliveryOK
    <3> QED BY <3>1, <2>3 DEF Events, Outcomes
  <2> QED BY <2>2, <2>3
<1> QED BY <1>1, <1>2, <1>3, PTL DEF SafeSpec

-----------------------------------------------------------------------------
(* Truth: the history, the counters and the records tell of the same turns. *)

\* Only the first n messages count, and one more turn may join them.
LEMMA SettledPrefix ==
  ASSUME NEW m \in Seq(Message), NEW m2 \in Seq(Message), NEW n \in Nat, NEW A,
         n <= Len(m2), \A i \in 1 .. n : m2[i] = m[i], Settled(m, n, A)
  PROVE  Settled(m2, n, A)
<1>1. \A i \in 1 .. n : m2[i].role = m[i].role /\ m2[i].prompt = m[i].prompt
  OBVIOUS
<1>2. n \in 0 .. Len(m2)
  OBVIOUS
<1>3. n # 0 => m2[n].role = "assistant"
  BY <1>1 DEF Settled
<1>4. \A i \in 1 .. n : m2[i].role = "assistant" => m2[i].prompt \in A
  BY <1>1 DEF Settled
<1>5. \A i, j \in 1 .. n :
        m2[i].role = "assistant" /\ m2[j].role = "assistant" /\ i < j
          => m2[i].prompt < m2[j].prompt
  BY <1>1 DEF Settled
<1>6. \A a \in A : \E i \in 1 .. n : m2[i].role = "assistant" /\ m2[i].prompt = a
  BY <1>1 DEF Settled
<1> QED BY <1>2, <1>3, <1>4, <1>5, <1>6 DEF Settled

LEMMA SettledTurn ==
  ASSUME NEW m \in Seq(Message), NEW n \in Nat, n = Len(m), n > 1, NEW A, NEW g \in Nat,
         Settled(m, n - 2, A), m[n - 1].role = "user", m[n] = Assistant(g),
         \A a \in A : a < g
  PROVE  Settled(m, n, A \cup {g})
<1>0. \A i \in 1 .. n : i \in 1 .. n - 2 \/ i = n - 1 \/ i = n
  OBVIOUS
<1>1. m[n].role = "assistant" /\ m[n].prompt = g
  BY DEF Assistant
<1>2. \A i \in 1 .. n : m[i].role = "assistant" => i \in 1 .. n - 2 \/ i = n
  BY <1>0
<1>3. \A i \in 1 .. n - 2 : m[i].role = "assistant" => m[i].prompt \in A
  BY DEF Settled
<1>4. \A i \in 1 .. n : m[i].role = "assistant" => m[i].prompt \in A \cup {g}
  BY <1>1, <1>2, <1>3
<1>5. ASSUME NEW i \in 1 .. n, NEW j \in 1 .. n,
             m[i].role = "assistant", m[j].role = "assistant", i < j
      PROVE  m[i].prompt < m[j].prompt
  <2>1. i \in 1 .. n - 2
    BY <1>5, <1>2
  <2>2. CASE j \in 1 .. n - 2
    BY <2>1, <2>2, <1>5 DEF Settled
  <2>3. CASE j = n
    BY <2>1, <2>3, <1>5, <1>1, <1>3
  <2> QED BY <2>2, <2>3, <1>5, <1>2
<1>6. \A a \in A \cup {g} : \E i \in 1 .. n : m[i].role = "assistant" /\ m[i].prompt = a
  <2>1. ASSUME NEW a \in A PROVE \E i \in 1 .. n : m[i].role = "assistant" /\ m[i].prompt = a
    <3>1. PICK i \in 1 .. n - 2 : m[i].role = "assistant" /\ m[i].prompt = a
      BY DEF Settled
    <3>2. i \in 1 .. n
      OBVIOUS
    <3> QED BY <3>1, <3>2
  <2>2. n \in 1 .. n
    OBVIOUS
  <2> QED BY <2>1, <2>2, <1>1
<1> QED BY <1>1, <1>4, <1>5, <1>6 DEF Settled

LEMMA NoTurns == Settled(<<>>, 0, {}) /\ Alternates(<<>>) /\ Len(<<>>) = 0
  BY DEF Settled, Alternates

LEMMA Parity ==
  ASSUME NEW n \in Nat
  PROVE  n % 2 \in {0, 1} /\ (n % 2 = 0 => (n + 1) % 2 = 1)
  OBVIOUS

\* A history is alternating and whole after a message or without its last ones.
LEMMA AppendAlternates ==
  ASSUME NEW e \in Engine, NEW g \in Prompts, CanAppend(e), Alternates(e.messages)
  PROVE  Alternates(AppendUser(e, g).messages)
<1> DEFINE m == e.messages
           m2 == Append(m, User(g))
<1>1. m \in Seq(Message) /\ AppendUser(e, g).messages = m2
  BY DEF Engine, AppendUser
<1>2. /\ Len(m) \in Nat /\ DOMAIN m = 1 .. Len(m) /\ DOMAIN m2 = 1 .. Len(m) + 1
      /\ \A i \in 1 .. Len(m) : m2[i] = m[i]
      /\ m2[Len(m) + 1] = User(g)
      /\ m = <<>> <=> Len(m) = 0
  <2>1. User(g) \in Message
    BY DEF User, Message
  <2> QED BY <1>1, <2>1
<1>3. Len(m) % 2 = 0
  <2>1. CASE m = <<>>
    BY <2>1, <1>2
  <2>2. CASE m # <<>>
    <3>1. m[Len(m)].role = "assistant" /\ Len(m) \in DOMAIN m
      BY <2>2, <1>2 DEF CanAppend, EndsWith
    <3>2. Len(m) % 2 # 1
      BY <3>1 DEF Alternates
    <3> QED BY <3>2, <1>2, Parity
  <2> QED BY <2>1, <2>2
<1>4. (Len(m) + 1) % 2 = 1
  BY <1>2, <1>3, Parity
<1>5. User(g).role = "user"
  BY DEF User
<1> HIDE DEF m2, m
<1>6. \A i \in DOMAIN m2 : m2[i].role = IF i % 2 = 1 THEN "user" ELSE "assistant"
  <2>1. \A i \in 1 .. Len(m) : m[i].role = IF i % 2 = 1 THEN "user" ELSE "assistant"
    BY <1>2 DEF Alternates, m
  <2> QED BY <2>1, <1>2, <1>4, <1>5
<1> QED BY <1>1, <1>6 DEF Alternates

LEMMA RollbackPrefix ==
  ASSUME NEW e \in Engine, NEW b \in BOOLEAN, CanRollback(e, b), Alternates(e.messages)
  PROVE  LET m == RollbackLastTurn(e, b).messages
             n == Len(e.messages) - RollbackCount(e, b)
         IN  /\ m \in Seq(Message) /\ Len(m) = n /\ n \in Nat
             /\ \A i \in 1 .. n : m[i] = e.messages[i]
             /\ Alternates(m)
             /\ RollbackLastTurn(e, b).pending = NoPrompt
<1> DEFINE q == e.messages
           c == RollbackCount(e, b)
           m == DropLast(q, c)
<1>1. q \in Seq(Message) /\ c \in 1 .. Len(q)
  BY RollbackBound DEF Engine, CanRollback
<1>2. RollbackLastTurn(e, b).messages = m /\ RollbackLastTurn(e, b).pending = NoPrompt
  BY DEF RollbackLastTurn, Engine
<1> HIDE DEF c, q
<1>3. m \in Seq(Message) /\ Len(m) = Len(q) - c /\ \A i \in 1 .. Len(q) - c : m[i] = q[i]
  BY <1>1, DropLastPrefix
<1> HIDE DEF m
<1>4. Len(q) - c \in Nat /\ DOMAIN m = 1 .. Len(q) - c /\ DOMAIN q = 1 .. Len(q)
      /\ 1 .. Len(q) - c \subseteq 1 .. Len(q)
  BY <1>1, <1>3
<1>5. Alternates(m)
  BY <1>3, <1>4 DEF Alternates, q
<1> QED BY <1>2, <1>3, <1>4, <1>5 DEF q, c

\* What is left of a turn once it is taken back, and that it can be.
LEMMA TakenBack ==
  ASSUME NEW e \in Engine, NEW g \in Prompts, NEW A, Alternates(e.messages), Inactive(e),
         WaitingOK(e, g, A) \/ CommittedOK(e, g, A)
  PROVE  /\ CanRollback(e, TRUE)
         /\ Alternates(RollbackLastTurn(e, TRUE).messages)
         /\ QuietOK(RollbackLastTurn(e, TRUE), A)
<1> DEFINE n == Len(e.messages)
           c == RollbackCount(e, TRUE)
<1>0. e.messages \in Seq(Message) /\ n \in Nat /\ TRUE \in BOOLEAN
  BY DEF Engine
<1>1. c > 0 /\ Settled(e.messages, n - c, A)
  <2>1. CASE WaitingOK(e, g, A)
    <3>1. EndsWith(e, "user")
      BY <2>1, <1>0 DEF WaitingOK, EndsWith
    <3>2. ~EndsWith(e, "assistant")
      BY <3>1 DEF EndsWith
    <3>3. RollbackCount(e, TRUE) = 1
      BY <3>1, <3>2, Zenon DEF RollbackCount
    <3>4. c = 1
      BY <3>3, Zenon
    <3> HIDE DEF c
    <3> QED BY <3>4, <2>1 DEF WaitingOK
  <2>2. CASE CommittedOK(e, g, A)
    <3>1. e.messages[n].role = "assistant" /\ n > 1 /\ e.messages[n - 1].role = "user"
          /\ e.status = "completed" /\ e.messages # <<>>
      BY <2>2, <1>0 DEF CommittedOK, Assistant
    <3>2. ~EndsWith(e, "user") /\ EndsWith(e, "assistant") /\ n >= 2
      BY <3>1, <1>0 DEF EndsWith
    <3>3. RollbackCount(e, TRUE) = 2
      BY <3>1, <3>2, Zenon DEF RollbackCount
    <3>4. c = 2
      BY <3>3, Zenon
    <3> HIDE DEF c
    <3> QED BY <3>4, <2>2 DEF CommittedOK
  <2> QED BY <2>1, <2>2
<1>2. CanRollback(e, TRUE)
  BY <1>1 DEF CanRollback
<1> DEFINE m == RollbackLastTurn(e, TRUE).messages
<1>3. /\ m \in Seq(Message) /\ Len(m) = n - c /\ n - c \in Nat
      /\ \A i \in 1 .. n - c : m[i] = e.messages[i]
      /\ Alternates(m) /\ RollbackLastTurn(e, TRUE).pending = NoPrompt
  BY <1>2, <1>0, RollbackPrefix
<1> DEFINE k == n - c
<1> HIDE DEF m, n, c, k
<1>4. Settled(m, k, A)
  BY <1>0, <1>1, <1>3, SettledPrefix DEF k
<1>5. QuietOK(RollbackLastTurn(e, TRUE), A)
  BY <1>3, <1>4 DEF QuietOK, m, k
<1> QED BY <1>2, <1>3, <1>5 DEF m

\* Appending the user's message to a settled history, and the reply to that.
LEMMA TurnAppended ==
  ASSUME NEW e \in Engine, NEW g \in Prompts, NEW A, QuietOK(e, A)
  PROVE  WaitingOK(AppendUser(e, g), g, A)
<1> DEFINE m == e.messages
           m2 == Append(m, User(g))
           n == Len(m)
<1>1. /\ m \in Seq(Message) /\ User(g) \in Message /\ User(g).role = "user"
  BY DEF Engine, User, Message
<1>2. AppendUser(e, g).messages = m2 /\ AppendUser(e, g).pending = g
  BY DEF Engine, AppendUser
<1>3. /\ m2 \in Seq(Message) /\ Len(m2) = n + 1 /\ n \in Nat
      /\ \A i \in 1 .. n : m2[i] = m[i]
      /\ m2[n + 1] = User(g)
  BY <1>1
<1>4. Settled(m, n, A)
  BY DEF QuietOK
<1> HIDE DEF m2, n, m
<1>5. Settled(m2, n, A)
  BY <1>1, <1>3, <1>4, SettledPrefix
<1>6. n + 1 - 1 = n /\ n + 1 > 0
  BY <1>3
<1> QED BY <1>1, <1>2, <1>3, <1>5, <1>6 DEF WaitingOK

LEMMA TurnCompleted ==
  ASSUME NEW e \in Engine, NEW g \in Prompts, NEW A, WaitingOK(e, g, A)
  PROVE  CommittedOK(CompleteStream(e, g), g, A)
<1> DEFINE m == e.messages
           m2 == Append(m, Assistant(g))
           n == Len(m)
           e2 == CompleteStream(e, g)
<1>1. m \in Seq(Message) /\ Assistant(g) \in Message
  BY DEF Engine, Assistant, Message
<1>2. e2.messages = m2 /\ e2.pending = NoPrompt /\ e2.status = "completed" /\ ~e2.active
  BY DEF Engine, CompleteStream
<1>3. /\ m2 \in Seq(Message) /\ Len(m2) = n + 1 /\ n \in Nat
      /\ \A i \in 1 .. n : m2[i] = m[i]
      /\ m2[n + 1] = Assistant(g)
  BY <1>1
<1>4. n > 0 /\ Settled(m, n - 1, A) /\ m[n].role = "user"
  BY DEF WaitingOK
<1> HIDE DEF m2, n, m, e2
<1> DEFINE k == n - 1
<1>5. k \in Nat /\ k <= Len(m2) /\ \A i \in 1 .. k : m2[i] = m[i]
  BY <1>3, <1>4
<1>6. Settled(m, k, A)
  BY <1>4
<1> HIDE DEF k
<1>7. Settled(m2, k, A)
  BY <1>1, <1>3, <1>5, <1>6, SettledPrefix
<1>8. n + 1 > 1 /\ n + 1 - 2 = k /\ n + 1 - 1 = n /\ m2[n].role = "user"
  BY <1>3, <1>4 DEF k
<1> QED BY <1>2, <1>3, <1>7, <1>8 DEF CommittedOK, e2

-----------------------------------------------------------------------------
LEMMA ElementType ==
  ASSUME NEW S, NEW q \in Seq(S), NEW i \in DOMAIN q
  PROVE  q[i] \in S
  OBVIOUS

LEMMA RecordTurns == TypeOK => \A i \in DOMAIN records : records[i].turn \in Leases
<1> SUFFICES ASSUME TypeOK, NEW i \in DOMAIN records PROVE records[i].turn \in Leases
  OBVIOUS
<1>1. records \in Seq([turn : Leases, session : Nat, count : Nat])
  BY Types
<1>2. records[i] \in [turn : Leases, session : Nat, count : Nat]
  BY <1>1, ElementType
<1> QED BY <1>2

LEMMA EarlierLeases == \A g \in Leases : \A k \in 1 .. g - 1 : k \in Leases /\ k # g
  BY ChatSessionAssumption

\* A lease that is not over has no answered turn yet, and comes after all that do.
LEMMA LiveIsNewest ==
  ASSUME TypeOK, LeasesOrdered, NEW g \in Leases, leases[g].pc \notin {"unused", "over"}
  PROVE  /\ g \notin AnsweredTurns
         /\ \A a \in AnsweredTurns : a < g
<1>1. g \notin AnsweredTurns
  BY DEF AnsweredTurns
<1>2. ASSUME NEW a \in AnsweredTurns PROVE a < g
  <2>1. a \in Leases /\ leases[a].pc = "over" /\ a # g
    BY <1>1 DEF AnsweredTurns
  <2>2. CASE g < a
    <3>1. g \in 1 .. a - 1
      BY <2>1, <2>2
    <3> QED BY <3>1, <2>1 DEF LeasesOrdered
  <2> QED BY <2>1, <2>2
<1> QED BY <1>1, <1>2

\* The same history serves a lease whose turn stands where it stood.
LEMMA SameTurn ==
  ASSUME NEW e, NEW e2, NEW w, NEW w2, NEW g, NEW A, TurnOK(e, w, g, A),
         e2.messages = e.messages, e2.pending = e.pending,
         w2.appended = w.appended, w2.event = "complete" <=> w.event = "complete",
         w.pc # "posted", w2.pc = "posted" => w2.outcome = "completed",
         w2.pc = "posted" => ~w.appended \/ w.event = "complete",
         Committed(w) => e2 = e
  PROVE  TurnOK(e2, w2, g, A)
<1>1. Waiting(w2) <=> Waiting(w)
  BY DEF Waiting
<1>2. Committed(w2) <=> Committed(w)
  BY DEF Committed
<1>3. CASE Committed(w)
  BY <1>1, <1>2, <1>3 DEF TurnOK
<1>4. CASE ~Committed(w)
  BY <1>1, <1>2, <1>4 DEF TurnOK, WaitingOK, QuietOK
<1> QED BY <1>3, <1>4

\* A worker's step that keeps its turn and its history in agreement.
LEMMA WorkerTruth ==
  ASSUME TypeOK, OwnershipOK, TruthOK, NEW g \in Leases, Live(g),
         NEW e2, NEW w2, NEW posted, WorkerStep(g, e2, w2, posted),
         w2.pc \notin {"unused", "over"}, w2.session = leases[g].session,
         WorkerOK(w2), TurnOK(e2, w2, g, AnsweredTurns)
  PROVE  TruthOK'
<1>0. /\ lease = g /\ leases[g].engine = engine /\ engine \in Loads
      /\ engines \in [Loads -> Engine] /\ leases \in [Leases -> LeaseRecord]
      /\ leases[g].pc \notin {"unused", "over"}
  BY LiveWorker, Types DEF Live
<1>1. /\ engines' = [engines EXCEPT ![engine] = e2] /\ leases' = [leases EXCEPT ![g] = w2]
      /\ UNCHANGED <<engine, lease, session, records>>
  BY <1>0 DEF WorkerStep, loadVars
<1>2. /\ engines'[engine] = e2
      /\ leases'[g] = w2 /\ \A k \in Leases : k # g => leases'[k] = leases[k]
  BY <1>0, <1>1
<1>3. AnsweredTurns' = AnsweredTurns
  BY <1>0, <1>1, <1>2 DEF AnsweredTurns
<1>4. HistoryOK'
  BY <1>0, <1>1, <1>2, <1>3 DEF HistoryOK
<1>5. LeasesOrdered'
  BY <1>0, <1>1, <1>2 DEF TruthOK, LeasesOrdered
<1>6. CountersAgree'
  BY <1>1, <1>3 DEF TruthOK, CountersAgree
<1>7. ASSUME AtomicTracker PROVE RecordsOK'
  <2>1. \A i \in DOMAIN records : records[i].turn \in Leases
    BY RecordTurns
  <2>2. \A i \in DOMAIN records : leases'[records[i].turn] = leases[records[i].turn]
    BY <2>1, <1>0, <1>2, <1>7 DEF TruthOK, RecordsOK
  <2> QED BY <2>2, <1>1, <1>7 DEF TruthOK, RecordsOK
<1> QED BY <1>4, <1>5, <1>6, <1>7 DEF TruthOK, AtomicTracker

LEMMA WorkerTruthStep ==
  ASSUME TypeOK, OwnershipOK, TruthOK, NEW g \in Leases, WorkerKind(g)
  PROVE  TruthOK'
<1> DEFINE w == leases[g]
           e == engines[w.engine]
           A == AnsweredTurns
<1>l. Live(g) /\ w.pc # "posted"
  BY DEF WorkerKind, GivesUp, Appends, Creates, Starts, GetsToken, Completes, Breaks,
         Accepts, Forwards, Closes, Keeps, Undoes, CannotUndo, Live, WorkerPcs
<1>w. w \in LeaseRecord /\ e \in Engine /\ g \in Prompts
  BY <1>l, LiveWorker
<1>t. TurnOK(e, w, g, A) /\ WorkerOK(w)
  BY <1>l, LiveWorker DEF TruthOK, HistoryOK, LeasesOrdered
<1>i. w.stream = "none" => Inactive(e)
  BY <1>l, LiveWorker DEF OwnershipOK, ActiveOK, Inactive, Engine
<1>r. w.pc = "rollback" => w.stream = "none"
  BY DEF OwnershipOK, StreamOK
<1>0. /\ w = leases[g] /\ e = engines[w.engine] /\ A = AnsweredTurns
  BY DEF w, e, A
<1> HIDE DEF w, e, A
<1>1. CASE GivesUp(g)
  <2>1. PICK o \in {"cancelled", "failed"} :
          w.pc \in {"begin", "prompted", "loop", "got"} /\ WorkerStep(g, e, Wind(w, o), <<>>)
    BY <1>1, <1>0, Zenon DEF GivesUp
  <2> DEFINE w2 == Wind(w, o)
  <2>2. /\ w2.pc = "close" /\ w2.outcome = o
        /\ w2.session = w.session /\ w2.appended = w.appended /\ w2.event = w.event
    BY <1>w DEF Wind, LeaseRecord
  <2>3. WorkerStep(g, e, w2, <<>>)
    BY <2>1
  <2> HIDE DEF w2
  <2>4. WorkerOK(w2)
    BY <2>2, <1>t DEF WorkerOK
  <2>5. TurnOK(e, w2, g, A)
    BY <2>2, <1>t, <1>l, SameTurn
  <2> QED BY <2>2, <2>3, <2>4, <2>5, <1>0, <1>l, WorkerTruth
<1>2. CASE Appends(g)
  <2> DEFINE w2 == [w EXCEPT !.pc = "prompted", !.appended = TRUE]
             e2 == AppendUser(e, g)
  <2>1. WorkerStep(g, e2, w2, <<>>) /\ w.pc = "begin" /\ CanAppend(e)
    BY <1>2, <1>0 DEF Appends
  <2>2. /\ w2.pc = "prompted" /\ w2.appended = TRUE
        /\ w2.session = w.session /\ w2.event = w.event
    BY <1>w DEF LeaseRecord
  <2>3. w2.event = "start" /\ ~Waiting(w) /\ ~Committed(w)
    BY <2>1, <2>2, <1>t DEF WorkerOK, Waiting, Committed
  <2> HIDE DEF w2
  <2>4. WorkerOK(w2)
    BY <2>2, <2>3 DEF WorkerOK
  <2>5. TurnOK(e2, w2, g, A)
    <3>1. QuietOK(e, A) /\ Alternates(e.messages)
      BY <2>3, <1>t DEF TurnOK
    <3>2. WaitingOK(e2, g, A) /\ Alternates(e2.messages)
      BY <3>1, <2>1, <1>w, TurnAppended, AppendAlternates
    <3>3. Waiting(w2) /\ ~Committed(w2)
      BY <2>2, <2>3 DEF Waiting, Committed
    <3> QED BY <3>2, <3>3 DEF TurnOK
  <2> HIDE DEF e2
  <2> QED BY <2>1, <2>2, <2>4, <2>5, <1>0, <1>l, WorkerTruth
<1>3. CASE Creates(g)
  <2> DEFINE w2 == [w EXCEPT !.pc = "loop", !.stream = "created"]
  <2>1. WorkerStep(g, e, w2, <<>>) /\ w.pc = "prompted"
    BY <1>3, <1>0 DEF Creates
  <2>2. /\ w2.pc = "loop" /\ w2.appended = w.appended
        /\ w2.session = w.session /\ w2.event = w.event
    BY <1>w DEF LeaseRecord
  <2> HIDE DEF w2
  <2>3. WorkerOK(w2)
    BY <2>1, <2>2, <1>t DEF WorkerOK
  <2>4. TurnOK(e, w2, g, A)
    BY <2>2, <1>t, <1>l, SameTurn
  <2> QED BY <2>1, <2>2, <2>3, <2>4, <1>0, <1>l, WorkerTruth
<1>4. CASE Starts(g)
  <2> DEFINE w2 == [w EXCEPT !.pc = "got", !.event = "start", !.stream = "running"]
             e2 == StartStream(e)
  <2>1. WorkerStep(g, e2, w2, <<>>) /\ w.pc = "loop"
    BY <1>4, <1>0 DEF Starts
  <2>2. /\ w2.pc = "got" /\ w2.appended = w.appended
        /\ w2.session = w.session /\ w2.event = "start"
    BY <1>w DEF LeaseRecord
  <2>3. e2.messages = e.messages /\ e2.pending = e.pending
    BY <1>w DEF Engine, StartStream
  <2> HIDE DEF w2, e2
  <2>4. w.event # "complete" /\ ~Committed(w)
    BY <2>1, <1>t DEF WorkerOK, Committed
  <2>5. WorkerOK(w2)
    BY <2>1, <2>2, <1>t DEF WorkerOK
  <2>6. TurnOK(e2, w2, g, A)
    BY <2>2, <2>3, <2>4, <1>t, <1>l, SameTurn
  <2> QED BY <2>1, <2>2, <2>5, <2>6, <1>0, <1>l, WorkerTruth
<1>5. CASE GetsToken(g)
  <2> DEFINE w2 == [w EXCEPT !.pc = "got", !.event = "token", !.stream = "running",
                             !.tokens = @ + 1]
  <2>1. WorkerStep(g, e, w2, <<>>) /\ w.pc = "loop"
    BY <1>5, <1>0 DEF GetsToken
  <2>2. /\ w2.pc = "got" /\ w2.appended = w.appended
        /\ w2.session = w.session /\ w2.event = "token"
    BY <1>w DEF LeaseRecord
  <2> HIDE DEF w2
  <2>3. w.event # "complete"
    BY <2>1, <1>t DEF WorkerOK
  <2>4. WorkerOK(w2)
    BY <2>1, <2>2, <1>t DEF WorkerOK
  <2>5. TurnOK(e, w2, g, A)
    BY <2>2, <2>3, <1>t, <1>l, SameTurn
  <2> QED BY <2>1, <2>2, <2>4, <2>5, <1>0, <1>l, WorkerTruth
<1>6. CASE Completes(g)
  <2> DEFINE w2 == [w EXCEPT !.pc = "got", !.event = "complete", !.stream = "running"]
             e2 == CompleteStream(e, g)
  <2>1. WorkerStep(g, e2, w2, <<>>) /\ w.pc = "loop" /\ CanComplete(e, g)
    BY <1>6, <1>0 DEF Completes
  <2>2. /\ w2.pc = "got" /\ w2.appended = w.appended
        /\ w2.session = w.session /\ w2.event = "complete"
    BY <1>w DEF LeaseRecord
  <2>3. Alternates(e2.messages)
    BY <2>1, <1>w DEF CanComplete, CompleteStream, Engine
  <2> HIDE DEF w2
  <2>4. Waiting(w) /\ w.appended
    BY <2>1, <1>t DEF WorkerOK, Waiting
  <2>5. WorkerOK(w2)
    BY <2>2, <2>4 DEF WorkerOK
  <2>6. CommittedOK(e2, g, A)
    BY <2>4, <1>t, <1>w, TurnCompleted DEF TurnOK
  <2>7. Committed(w2) /\ ~Waiting(w2)
    BY <2>2, <2>4 DEF Committed, Waiting
  <2> HIDE DEF e2
  <2>8. TurnOK(e2, w2, g, A)
    BY <2>3, <2>6, <2>7 DEF TurnOK
  <2> QED BY <2>1, <2>2, <2>5, <2>8, <1>0, <1>l, WorkerTruth
<1>7. CASE Breaks(g)
  <2> DEFINE w2 == [w EXCEPT !.pc = "close", !.outcome = "failed", !.stream = "none"]
             e2 == FinishInterrupted(e, "failed")
  <2>1. WorkerStep(g, e2, w2, <<>>) /\ w.pc = "loop"
    BY <1>7, <1>0 DEF Breaks
  <2>2. /\ w2.pc = "close" /\ w2.appended = w.appended
        /\ w2.session = w.session /\ w2.event = w.event /\ w2.outcome = "failed"
    BY <1>w DEF LeaseRecord
  <2>3. e2.messages = e.messages /\ e2.pending = e.pending
    BY <1>w DEF Engine, FinishInterrupted
  <2> HIDE DEF w2, e2
  <2>4. ~Committed(w)
    BY <2>1, <1>t DEF WorkerOK, Committed
  <2>5. WorkerOK(w2)
    BY <2>1, <2>2, <1>t DEF WorkerOK
  <2>6. TurnOK(e2, w2, g, A)
    BY <2>2, <2>3, <2>4, <1>t, <1>l, SameTurn
  <2> QED BY <2>1, <2>2, <2>5, <2>6, <1>0, <1>l, WorkerTruth
<1>8. CASE Accepts(g)
  <2> DEFINE w2 == Wind(w, "completed")
  <2>1. WorkerStep(g, e, w2, <<>>) /\ w.event = "complete"
    BY <1>8, <1>0 DEF Accepts
  <2>2. /\ w2.pc = "close" /\ w2.appended = w.appended
        /\ w2.session = w.session /\ w2.event = w.event
    BY <1>w DEF Wind, LeaseRecord
  <2> HIDE DEF w2
  <2>3. WorkerOK(w2)
    BY <2>1, <2>2, <1>t DEF WorkerOK
  <2>4. TurnOK(e, w2, g, A)
    BY <2>2, <1>t, <1>l, SameTurn
  <2> QED BY <2>1, <2>2, <2>3, <2>4, <1>0, <1>l, WorkerTruth
<1>9. CASE Forwards(g)
  <2> DEFINE w2 == [w EXCEPT !.pc = "loop"]
             x == <<[lease |-> g, item |-> w.event]>>
  <2>1. WorkerStep(g, e, w2, x) /\ w.pc = "got" /\ w.event # "complete"
    BY <1>9, <1>0 DEF Forwards
  <2>2. /\ w2.pc = "loop" /\ w2.appended = w.appended
        /\ w2.session = w.session /\ w2.event = w.event
    BY <1>w DEF LeaseRecord
  <2> HIDE DEF w2, x
  <2>3. WorkerOK(w2)
    BY <2>1, <2>2, <1>t DEF WorkerOK
  <2>4. TurnOK(e, w2, g, A)
    BY <2>2, <1>t, <1>l, SameTurn
  <2> QED BY <2>1, <2>2, <2>3, <2>4, <1>0, <1>l, WorkerTruth
<1>10. CASE Closes(g)
  <2> DEFINE e2 == IF w.stream = "running" THEN FinishInterrupted(e, "cancelled") ELSE e
  <2>0. PICK o \in {w.outcome, "failed"} :
          /\ WorkerStep(g, e2, [w EXCEPT !.pc = "rollback", !.stream = "none", !.outcome = o],
                        <<>>)
          /\ w.pc = "close"
    BY <1>10, <1>0, Zenon DEF Closes
  <2> DEFINE w2 == [w EXCEPT !.pc = "rollback", !.stream = "none", !.outcome = o]
  <2>1. WorkerStep(g, e2, w2, <<>>) /\ w.pc = "close"
    BY <2>0
  <2>2. /\ w2.pc = "rollback" /\ w2.appended = w.appended
        /\ w2.session = w.session /\ w2.event = w.event
        /\ w2.outcome \in {w.outcome, "failed"}
    BY <1>w DEF LeaseRecord
  <2>3. /\ e2.messages = e.messages /\ e2.pending = e.pending
        /\ ~e.active => e2 = e
    BY <1>w DEF Engine, FinishInterrupted
  <2> HIDE DEF w2, e2
  <2>4. Committed(w) => e2 = e
    BY <2>3, <1>t DEF TurnOK, CommittedOK
  <2>5. WorkerOK(w2)
    BY <2>1, <2>2, <1>t DEF WorkerOK
  <2>6. TurnOK(e2, w2, g, A)
    BY <2>2, <2>3, <2>4, <1>t, <1>l, SameTurn
  <2> QED BY <2>1, <2>2, <2>5, <2>6, <1>0, <1>l, WorkerTruth
<1>11. CASE Keeps(g)
  <2> DEFINE w2 == [w EXCEPT !.pc = "posted"]
  <2>1. WorkerStep(g, e, w2, Finish(g)) /\ w.pc = "rollback"
        /\ (~w.appended \/ w.outcome = "completed")
    BY <1>11, <1>0 DEF Keeps, Withdrawing
  <2>2. /\ w2.pc = "posted" /\ w2.appended = w.appended
        /\ w2.session = w.session /\ w2.event = w.event /\ w2.outcome = w.outcome
    BY <1>w DEF LeaseRecord
  <2> HIDE DEF w2
  <2>3. WorkerOK(w2)
    BY <2>1, <2>2, <1>t DEF WorkerOK
  <2>4. TurnOK(e, w2, g, A)
    <3>1. CASE w.appended
      <4>1. w.outcome = "completed" /\ w.event = "complete"
        BY <2>1, <3>1, <1>t DEF WorkerOK
      <4> QED BY <4>1, <2>2, <1>t, <1>l, SameTurn
    <3>2. CASE ~w.appended
      <4>1. ~Waiting(w) /\ ~Committed(w) /\ ~Waiting(w2) /\ ~Committed(w2)
        BY <3>2, <2>2 DEF Waiting, Committed
      <4> QED BY <4>1, <1>t DEF TurnOK
    <3> QED BY <3>1, <3>2
  <2> QED BY <2>1, <2>2, <2>3, <2>4, <1>0, <1>l, WorkerTruth
<1>u. ASSUME w.pc = "rollback", Withdrawing(g)
      PROVE  /\ CanRollback(e, TRUE)
             /\ Alternates(RollbackLastTurn(e, TRUE).messages)
             /\ QuietOK(RollbackLastTurn(e, TRUE), A)
  <2>1. Waiting(w) \/ Committed(w)
    BY <1>u, <1>0 DEF Withdrawing, Waiting, Committed
  <2>2. Inactive(e)
    BY <1>u, <1>r, <1>i
  <2> QED BY <2>1, <2>2, <1>t, <1>w, TakenBack DEF TurnOK
<1>12. CASE Undoes(g)
  <2> DEFINE w2 == [w EXCEPT !.pc = "posted"]
             e2 == RollbackLastTurn(e, TRUE)
  <2>1. WorkerStep(g, e2, w2, Finish(g)) /\ w.pc = "rollback" /\ w.outcome # "completed"
        /\ Withdrawing(g)
    BY <1>12, <1>0 DEF Undoes, Withdrawing
  <2>2. /\ w2.pc = "posted" /\ w2.appended = w.appended
        /\ w2.session = w.session /\ w2.event = w.event /\ w2.outcome = w.outcome
    BY <1>w DEF LeaseRecord
  <2> HIDE DEF w2
  <2>3. WorkerOK(w2)
    BY <2>1, <2>2, <1>t DEF WorkerOK
  <2>4. ~Waiting(w2) /\ ~Committed(w2)
    BY <2>1, <2>2 DEF Waiting, Committed
  <2>5. TurnOK(e2, w2, g, A)
    BY <2>1, <2>4, <1>u DEF TurnOK
  <2> HIDE DEF e2
  <2> QED BY <2>1, <2>2, <2>3, <2>5, <1>0, <1>l, WorkerTruth
<1>13. CASE CannotUndo(g)
  <2>1. w.pc = "rollback" /\ Withdrawing(g) /\ ~CanRollback(e, TRUE)
    BY <1>13, <1>0, Zenon DEF CannotUndo
  <2> QED BY <2>1, <1>u, Zenon
<1> QED BY <1>1, <1>2, <1>3, <1>4, <1>5, <1>6, <1>7, <1>8, <1>9, <1>10, <1>11, <1>12, <1>13
     DEF WorkerKind

\* Steps that touch neither the current engine's history nor any turn.
LEMMA QuietTruth ==
  ASSUME TypeOK, OwnershipOK, TruthOK, session' = session, records' = records,
         lease' = lease, engine' = None \/ engine' = engine,
         engine' # None => engines'[engine] = engines[engine],
         \A g \in Leases : /\ leases'[g].pc = leases[g].pc
                           /\ leases'[g].session = leases[g].session
                           /\ leases'[g].appended = leases[g].appended
                           /\ leases'[g].event = leases[g].event
                           /\ leases'[g].outcome = leases[g].outcome
  PROVE  TruthOK'
<1>0. lease \in Leases \cup {None}
  BY Types
<1>1. AnsweredTurns' = AnsweredTurns
  BY DEF AnsweredTurns
<1>2. HistoryOK'
  <2>1. CASE engine' = None
    BY <2>1 DEF HistoryOK
  <2>2. CASE engine' # None /\ lease = None
    BY <2>2, <1>1 DEF TruthOK, HistoryOK
  <2>3. CASE engine' # None /\ lease # None
    BY <2>3, <1>0, <1>1 DEF TruthOK, HistoryOK, TurnOK, Waiting, Committed
  <2> QED BY <2>1, <2>2, <2>3
<1>3. LeasesOrdered'
  <2>1. \A g \in Leases : WorkerOK(leases'[g])
    BY DEF TruthOK, LeasesOrdered, WorkerOK
  <2>2. \A g \in Leases : leases'[g].session <= session.id
    BY DEF TruthOK, LeasesOrdered
  <2>3. ASSUME NEW g \in Leases, leases'[g].pc # "unused", NEW k \in 1 .. g - 1
        PROVE  leases'[k].pc = "over"
    BY <2>3, EarlierLeases DEF TruthOK, LeasesOrdered
  <2> QED BY <2>1, <2>2, <2>3 DEF LeasesOrdered
<1>4. CountersAgree'
  BY <1>1 DEF TruthOK, CountersAgree
<1>5. ASSUME AtomicTracker PROVE RecordsOK'
  <2>1. \A i \in DOMAIN records : records[i].turn \in Leases
    BY RecordTurns
  <2> QED BY <2>1, <1>5 DEF TruthOK, RecordsOK
<1> QED BY <1>2, <1>3, <1>4, <1>5 DEF TruthOK, AtomicTracker

\* A new session starts without turns.
LEMMA NewSessionTruth ==
  ASSUME TypeOK, OwnershipOK, TruthOK, NewSession, UNCHANGED <<leases, lease, records>>,
         lease = None, engines'[engine'].messages = <<>>,
         engines'[engine'].pending = NoPrompt
  PROVE  TruthOK'
<1>0. /\ session.id \in Nat
      /\ leases \in [Leases -> LeaseRecord]
  BY Types
<1>1. session'.id = session.id + 1 /\ session'.turns = 0 /\ session'.tracked = 0
      /\ session'.trackedId = session'.id
  BY DEF NewSession
<1>2. \A g \in Leases : leases[g].session <= session.id /\ leases[g].session \in Nat
  BY <1>0 DEF TruthOK, LeasesOrdered, LeaseRecord
<1>3. \A g \in Leases : leases[g].session # session'.id /\ leases[g].session <= session'.id
  BY <1>0, <1>1, <1>2
<1>4. AnsweredTurns' = {}
  BY <1>3 DEF AnsweredTurns
<1>5. HistoryOK'
  BY <1>4, NoTurns DEF HistoryOK, QuietOK
<1>6. LeasesOrdered'
  BY <1>3 DEF TruthOK, LeasesOrdered
<1>7. CountersAgree'
  BY <1>1, <1>4, FS_EmptySet DEF CountersAgree
<1>8. ASSUME AtomicTracker PROVE RecordsOK'
  <2>1. \A i \in DOMAIN records : records[i].turn \in Leases
    BY RecordTurns
  <2>2. \A i \in DOMAIN records : records[i].session # session'.id
    BY <2>1, <1>3, <1>8 DEF TruthOK, RecordsOK
  <2> QED BY <2>2, <1>8 DEF TruthOK, RecordsOK
<1> QED BY <1>5, <1>6, <1>7, <1>8 DEF TruthOK, AtomicTracker

LEMMA StartTruth ==
  ASSUME TypeOK, OwnershipOK, TruthOK, NEW g \in Leases, StartGeneration(g)
  PROVE  TruthOK'
<1>1. /\ leases[g].pc = "unused" /\ lease = None /\ lease' = g
      /\ \A k \in 1 .. g - 1 : leases[k].pc # "unused"
      /\ leases' = [leases EXCEPT ![g].pc = "begin", ![g].engine = engine,
                                  ![g].session = session.id]
      /\ UNCHANGED <<engine, engines, session, records>>
  BY Zenon DEF StartGeneration
<1>2. /\ leases \in [Leases -> LeaseRecord] /\ leases[g] \in LeaseRecord
      /\ session.id \in Nat
  BY Types
<1>3. /\ leases'[g].pc = "begin" /\ leases'[g].session = session.id
      /\ leases'[g].appended = leases[g].appended /\ leases'[g].event = leases[g].event
      /\ \A k \in Leases : k # g => leases'[k] = leases[k]
  BY <1>1, <1>2 DEF LeaseRecord
<1>4. leases[g].pc = "unused" /\ lease = None /\ lease' = g
      /\ engine' = engine /\ engines' = engines /\ session' = session /\ records' = records
  BY <1>1, Zenon
<1>5. ~leases[g].appended /\ leases[g].event = "start"
  BY <1>4 DEF TruthOK, LeasesOrdered, WorkerOK
<1>6. AnsweredTurns' = AnsweredTurns
  BY <1>3, <1>4 DEF AnsweredTurns
<1>7. HistoryOK'
  <2>1. ~Waiting(leases'[g]) /\ ~Committed(leases'[g])
    BY <1>3, <1>5 DEF Waiting, Committed
  <2> DEFINE w == leases'[g]
  <2> HIDE DEF w
  <2>2. engine # None => TurnOK(engines[engine], w, g, AnsweredTurns)
    BY <2>1, <1>4 DEF TruthOK, HistoryOK, TurnOK, w
  <2>3. g # None
    OBVIOUS
  <2> QED BY <2>2, <2>3, <1>4, <1>6 DEF HistoryOK, w
<1>8. LeasesOrdered'
  <2>1. \A k \in 1 .. g - 1 : leases[k].pc # "unused"
    BY <1>1, Zenon
  <2>2. ASSUME NEW k \in 1 .. g - 1 PROVE leases'[k].pc = "over"
    <3>1. k \in Leases /\ k # g
      BY EarlierLeases
    <3>2. ~Live(k) /\ leases[k] \in LeaseRecord
      BY <3>1, <1>4, <1>2 DEF OwnershipOK, LeaseOK
    <3> QED BY <3>1, <3>2, <2>1, <1>3 DEF Live, LeaseRecord
  <2>3. WorkerOK(leases'[g])
    BY <1>3, <1>5 DEF WorkerOK
  <2>4. ASSUME NEW k \in Leases, k # g
        PROVE  /\ leases'[k].pc # "unused" => \A j \in 1 .. k - 1 : leases'[j].pc = "over"
               /\ leases'[k].session <= session.id
               /\ WorkerOK(leases'[k])
    <3>1. leases'[k].pc # "unused" => \A j \in 1 .. k - 1 : leases[j].pc = "over" /\ j # g
      BY <2>4, <1>3, <1>4 DEF TruthOK, LeasesOrdered
    <3>2. \A j \in 1 .. k - 1 : j \in Leases
      BY EarlierLeases
    <3> QED BY <3>1, <3>2, <2>4, <1>3 DEF TruthOK, LeasesOrdered
  <2>5. session.id <= session.id
    BY <1>2
  <2> QED BY <2>2, <2>3, <2>4, <2>5, <1>3, <1>4 DEF LeasesOrdered
<1>9. CountersAgree'
  BY <1>4, <1>6 DEF TruthOK, CountersAgree
<1>10. ASSUME AtomicTracker PROVE RecordsOK'
  <2>1. \A i \in DOMAIN records : records[i].turn \in Leases
    BY RecordTurns
  <2>2. \A i \in DOMAIN records : leases'[records[i].turn] = leases[records[i].turn]
    BY <2>1, <1>3, <1>4, <1>10 DEF TruthOK, RecordsOK
  <2> QED BY <2>2, <1>4, <1>10 DEF TruthOK, RecordsOK
<1> QED BY <1>7, <1>8, <1>9, <1>10 DEF TruthOK, AtomicTracker

\* The last callback of a lease: its turn is settled as its client is told.
LEMMA FinishTruth == TypeOK /\ OwnershipOK /\ TruthOK /\ FinishGeneration => TruthOK'
<1> SUFFICES ASSUME TypeOK, OwnershipOK, TruthOK, FinishGeneration PROVE TruthOK'
  OBVIOUS
<1> DEFINE A == AnsweredTurns
           e == engines[engine]
           Record == [turn : Leases, session : Nat, count : Nat]
<1>0. PICK g \in Leases : g = lease
  BY HeadOfFifo DEF FinishGeneration
<1>1. /\ Live(g) /\ leases[g].pc = "posted" /\ lease' = None /\ engine' = engine
      /\ Counts(g) \/ TakesBack(g) \/ CountsAlone(g) \/ Reports(g)
  BY <1>0, HeadOfFifo, FinishKinds DEF FinishGeneration
<1>2. /\ leases \in [Leases -> LeaseRecord] /\ leases[g] \in LeaseRecord
      /\ session \in [id : Nat, turns : Nat, tracked : Nat, trackedId : Nat]
      /\ records \in Seq(Record) /\ engines \in [Loads -> Engine]
      /\ engine \in Loads /\ e \in Engine /\ leases[g].session = session.id
      /\ g \in Prompts /\ engine # None
  BY <1>1, LiveWorker, Types
<1>3. Inactive(e)
  BY <1>0, <1>1, LiveWorker DEF OwnershipOK, ActiveOK, StreamOK, Inactive, Engine
<1>4. /\ TurnOK(e, leases[g], g, A) /\ WorkerOK(leases[g])
      /\ LeasesOrdered /\ CountersAgree /\ (AtomicTracker => RecordsOK)
  BY <1>0, <1>2 DEF TruthOK, HistoryOK, LeasesOrdered
<1>5. g \notin A /\ \A a \in A : a < g
  BY <1>1, <1>4, LiveIsNewest
<1>6. IsFiniteSet(A)
  <2>1. IsFiniteSet(Leases)
    BY FS_Interval, ChatSessionAssumption
  <2> QED BY <2>1, FS_Subset DEF AnsweredTurns
\* The lease once its outcome is delivered.
<1>7. ASSUME NEW o \in Outcomes, Delivers(g, o)
      PROVE  /\ leases'[g].pc = "over" /\ leases'[g].outcome = o
             /\ leases'[g].session = leases[g].session
             /\ leases'[g].appended = leases[g].appended
             /\ leases'[g].event = leases[g].event
             /\ \A k \in Leases : k # g => leases'[k] = leases[k]
  <2> DEFINE s == Append(leases[g].items, o)
  <2>1. leases' = [leases EXCEPT ![g].pc = "over", ![g].outcome = o, ![g].items = s]
    BY <1>7 DEF Delivers
  <2> HIDE DEF s
  <2> QED BY <2>1, <1>2 DEF LeaseRecord
<1>8. ASSUME NEW o \in Outcomes, Delivers(g, o), session'.id = session.id
      PROVE  /\ AnsweredTurns' = A \cup {k \in {g} : o = "completed"}
             /\ LeasesOrdered'
  <2>1. /\ leases'[g].pc = "over" /\ leases'[g].outcome = o
        /\ leases'[g].session = leases[g].session
        /\ leases'[g].appended = leases[g].appended
        /\ leases'[g].event = leases[g].event
        /\ \A k \in Leases : k # g => leases'[k] = leases[k]
    BY <1>7, <1>8
  <2>2. AnsweredTurns' = A \cup {k \in {g} : o = "completed"}
    BY <2>1, <1>8, <1>2, <1>5 DEF AnsweredTurns
  <2>3. WorkerOK(leases'[g])
    BY <2>1, <1>4 DEF WorkerOK
  <2>4. ASSUME NEW k \in Leases, leases'[k].pc # "unused", NEW j \in 1 .. k - 1
        PROVE  leases'[j].pc = "over"
    <3>1. j \in Leases /\ leases[k].pc # "unused"
      BY <2>1, <2>4, <1>1, EarlierLeases
    <3> QED BY <3>1, <2>1, <1>4 DEF LeasesOrdered
  <2>5. ASSUME NEW k \in Leases PROVE leases'[k].session <= session'.id /\ WorkerOK(leases'[k])
    BY <2>1, <2>3, <1>4, <1>8 DEF LeasesOrdered
  <2> QED BY <2>2, <2>4, <2>5 DEF LeasesOrdered
\* The records of earlier turns are as they were.
<1>9. ASSUME NEW o \in Outcomes, Delivers(g, o), AtomicTracker
      PROVE  \A i \in DOMAIN records : /\ records[i].turn \in Leases \ {g}
                                       /\ leases'[records[i].turn] = leases[records[i].turn]
  <2>1. \A i \in DOMAIN records : records[i].turn \in Leases \ {g}
    BY RecordTurns, <1>1, <1>4, <1>9 DEF RecordsOK
  <2> QED BY <2>1, <1>7, <1>9
<1>10. CASE Counts(g)
  <2> DEFINE n == session.turns + 1
             m == session.tracked + 1
             r == [turn |-> g, session |-> session.trackedId, count |-> m]
             q == Append(records, r)
  <2>1. /\ leases[g].outcome = "completed" /\ records' = q
        /\ session' = [session EXCEPT !.turns = n, !.tracked = m]
        /\ Delivers(g, "completed") /\ engines' = engines
    BY <1>10 DEF Counts
  <2>2. n \in Nat /\ m \in Nat /\ n = session.turns + 1 /\ m = session.tracked + 1
    BY <1>2
  <2>3. r \in Record /\ r.turn = g /\ r.session = session.trackedId /\ r.count = m
    BY <1>2, <2>2
  <2> HIDE DEF r, n, m
  <2>4. /\ session'.id = session.id /\ session'.turns = n /\ session'.tracked = m
        /\ session'.trackedId = session.trackedId
    BY <2>1, <2>2, <1>2
  <2>5. "completed" \in Outcomes
    BY DEF Outcomes
  <2>6. AnsweredTurns' = A \cup {g} /\ LeasesOrdered'
    BY <2>1, <2>4, <2>5, <1>8
  <2>7. HistoryOK'
    <3>1. Committed(leases[g])
      BY <2>1, <1>1, <1>4 DEF WorkerOK, Committed
    <3>2. CommittedOK(e, g, A) /\ Alternates(e.messages)
      BY <3>1, <1>4 DEF TurnOK
    <3>3. QuietOK(e, A \cup {g})
      <4> DEFINE k == Len(e.messages)
      <4>1. k \in Nat /\ e.messages \in Seq(Message) /\ g \in Nat
        BY <1>2 DEF Engine
      <4> QED BY <4>1, <3>2, <1>5, SettledTurn DEF CommittedOK, QuietOK
    <3> QED BY <3>2, <3>3, <2>1, <2>6, <1>1 DEF HistoryOK
  <2>8. CountersAgree'
    <3>1. Cardinality(A \cup {g}) = Cardinality(A) + 1
      BY <1>5, <1>6, FS_AddElement
    <3> QED BY <3>1, <2>2, <2>4, <2>6, <1>4 DEF CountersAgree
  <2>9. ASSUME AtomicTracker PROVE RecordsOK'
    <3>1. /\ q \in Seq(Record) /\ Len(records) \in Nat /\ DOMAIN records = 1 .. Len(records)
          /\ DOMAIN q = 1 .. Len(records) + 1 /\ q[Len(records) + 1] = r
          /\ \A i \in 1 .. Len(records) : q[i] = records[i]
      BY <2>3, <1>2
    <3> HIDE DEF q, Record
    <3>2. \A i \in 1 .. Len(records) : /\ records[i].turn \in Leases \ {g}
                                       /\ leases'[records[i].turn] = leases[records[i].turn]
      BY <2>1, <2>5, <2>9, <3>1, <1>9
    <3>3. \A i \in 1 .. Len(records) :
            records[i].session = session.id => records[i].count < m
      <4>1. ASSUME NEW i \in 1 .. Len(records), records[i].session = session.id
            PROVE  records[i].count < m
        <5>1. records[i].count \in Nat /\ records[i].count <= session.tracked
          <6>1. records[i] \in Record
            BY <3>1, <1>2, ElementType
          <6> QED BY <6>1, <4>1, <3>1, <2>9, <1>4 DEF RecordsOK, Record
        <5> QED BY <5>1, <2>2, <1>2
      <4> QED BY <4>1
    <3>4. /\ leases'[g].pc = "over" /\ leases'[g].outcome = "completed"
          /\ leases'[g].session = session.id
      BY <2>1, <2>5, <1>2, <1>7
    <3>5. r.session = session.id
      BY <2>3, <1>4 DEF CountersAgree
    <3>6. ASSUME NEW i \in DOMAIN q
          PROVE  /\ leases'[q[i].turn].pc = "over"
                 /\ leases'[q[i].turn].outcome = "completed"
                 /\ q[i].session = leases'[q[i].turn].session
                 /\ q[i].session = session'.id => q[i].count <= session'.tracked
      <4>1. CASE i \in 1 .. Len(records)
        <5>1. q[i].session = session.id => q[i].count <= m
          <6>1. records[i] \in Record
            BY <4>1, <3>1, <1>2, ElementType
          <6>2. records[i].count \in Nat
            BY <6>1 DEF Record
          <6> QED BY <6>2, <4>1, <3>1, <3>3, <2>2
        <5> QED BY <4>1, <5>1, <3>1, <3>2, <2>4, <2>9, <1>4 DEF RecordsOK
      <4>2. CASE i = Len(records) + 1
        <5>1. q[i].session = session.id /\ q[i].turn = g /\ q[i].count = m /\ m <= m
          BY <4>2, <3>1, <3>5, <2>2, <2>3
        <5> QED BY <5>1, <3>4, <2>4
      <4> QED BY <4>1, <4>2, <3>1
    <3>7. ASSUME NEW i \in DOMAIN q, NEW j \in DOMAIN q
          PROVE  /\ q[i].turn = q[j].turn => i = j
                 /\ q[i].session = q[j].session /\ i < j => q[i].count < q[j].count
      <4>1. CASE i \in 1 .. Len(records) /\ j \in 1 .. Len(records)
        BY <4>1, <3>1, <2>9, <1>4 DEF RecordsOK
      <4>2. CASE i \in 1 .. Len(records) /\ j = Len(records) + 1
        BY <4>2, <3>1, <3>2, <3>3, <3>5, <2>3
      <4>3. CASE i = Len(records) + 1 /\ j \in 1 .. Len(records)
        <5>1. ~(i < j)
          BY <4>3, <3>1
        <5> QED BY <5>1, <4>3, <3>1, <3>2, <2>3
      <4>4. CASE i = Len(records) + 1 /\ j = Len(records) + 1
        <5>1. ~(i < j) /\ i = j
          BY <4>4, <3>1
        <5> QED BY <5>1
      <4> QED BY <4>1, <4>2, <4>3, <4>4, <3>1
    <3> QED BY <3>6, <3>7, <2>1 DEF RecordsOK
  <2> QED BY <2>6, <2>7, <2>8, <2>9 DEF TruthOK, AtomicTracker
\* Any other outcome adds neither a turn nor a record.
<1>11. ASSUME NEW o \in Outcomes, o # "completed", Delivers(g, o), session' = session,
              AtomicTracker => records' = records, Alternates(engines'[engine].messages),
              QuietOK(engines'[engine], A)
       PROVE  TruthOK'
  <2>1. AnsweredTurns' = A /\ LeasesOrdered'
    BY <1>8, <1>11
  <2>2. HistoryOK'
    BY <2>1, <1>1, <1>11 DEF HistoryOK
  <2>3. CountersAgree'
    BY <2>1, <1>4, <1>11 DEF CountersAgree
  <2>4. ASSUME AtomicTracker PROVE RecordsOK'
    BY <1>9, <1>11, <1>4, <2>4 DEF RecordsOK
  <2> QED BY <2>1, <2>2, <2>3, <2>4 DEF TruthOK, AtomicTracker
<1>12. CASE TakesBack(g)
  <2>1. /\ leases[g].outcome = "completed" /\ session' = session
        /\ AtomicTracker => records' = records
        /\ engines' = IF CanRollback(e, TRUE)
                      THEN [engines EXCEPT ![engine] = RollbackLastTurn(@, TRUE)] ELSE engines
        /\ Delivers(g, "failed")
    BY <1>12 DEF TakesBack, AtomicTracker
  <2>2. CommittedOK(e, g, A) /\ Alternates(e.messages)
    <3>1. Committed(leases[g])
      BY <2>1, <1>1, <1>4 DEF WorkerOK, Committed
    <3> QED BY <3>1, <1>4 DEF TurnOK
  <2>3. /\ CanRollback(e, TRUE) /\ Alternates(RollbackLastTurn(e, TRUE).messages)
        /\ QuietOK(RollbackLastTurn(e, TRUE), A)
    BY <2>2, <1>2, <1>3, TakenBack
  <2>4. engines'[engine] = RollbackLastTurn(e, TRUE)
    BY <2>1, <2>3, <1>2
  <2>5. "failed" \in Outcomes /\ "failed" # "completed"
    BY DEF Outcomes
  <2> QED BY <2>1, <2>3, <2>4, <2>5, <1>11
<1>13. CASE CountsAlone(g)
  BY <1>13, <1>2 DEF CountsAlone
<1>14. CASE Reports(g)
  <2>1. /\ leases[g].outcome # "completed" /\ records' = records /\ session' = session
        /\ engines' = engines /\ Delivers(g, leases[g].outcome)
    BY <1>14 DEF Reports
  <2>2. QuietOK(e, A) /\ Alternates(e.messages)
    BY <2>1, <1>1, <1>4 DEF TurnOK, Waiting, Committed
  <2>3. leases[g].outcome \in Outcomes
    BY <1>2 DEF LeaseRecord
  <2> QED BY <2>1, <2>2, <2>3, <1>11
<1> QED BY <1>1, <1>10, <1>12, <1>13, <1>14

LEMMA TruthInit == Init => TruthOK
<1> SUFFICES ASSUME Init PROVE TruthOK
  OBVIOUS
<1>1. AnsweredTurns = {} /\ records = <<>> /\ engine = None
  BY DEF Init, AnsweredTurns
<1>2. HistoryOK /\ RecordsOK
  BY <1>1 DEF HistoryOK, RecordsOK
<1>3. LeasesOrdered
  BY DEF Init, LeasesOrdered, WorkerOK
<1>4. CountersAgree
  BY <1>1, FS_EmptySet DEF Init, CountersAgree
<1> QED BY <1>2, <1>3, <1>4 DEF TruthOK

LEMMA LoadTruthStep ==
  ASSUME TypeOK, OwnershipOK, TruthOK, NEW l \in Loads,
         \/ \E c \in Checkpoints : LoadCheckpoint(l, c)
         \/ LoadThread(l) \/ LoadSettles(l) \/ LoadCancelled(l) \/ ReleaseCancelled(l)
  PROVE  TruthOK'
<1>1. LoadOK(l) /\ engines \in [Loads -> Engine]
  BY Types DEF OwnershipOK
<1>2. CASE UNCHANGED <<engine, engines, lease, leases, session, records>>
  BY <1>2, QuietTruth
<1>3. CASE (\E c \in Checkpoints : LoadCheckpoint(l, c)) \/ LoadThread(l) \/ LoadCancelled(l)
  BY <1>2, <1>3, Zenon DEF LoadCheckpoint, LoadThread, LoadCancelled
<1>4. CASE LoadFails(l) \/ ReleaseCancelled(l)
  <2>1. /\ loads[l].pc \in {"waiting", "cancelled"}
        /\ engines' = IF loads[l].thread = "built"
                      THEN [engines EXCEPT ![l] = Released(@)] ELSE engines
        /\ UNCHANGED <<engine, lease, leases, session, records>>
    BY <1>4 DEF LoadFails, ReleaseCancelled
  <2>2. engine # l
    BY <2>1, <1>1 DEF LoadOK
  <2>3. engine # None => engines'[engine] = engines[engine]
    BY <2>1, <2>2, <1>1, Types
  <2> QED BY <2>1, <2>3, QuietTruth
<1>5. CASE LoadSucceeds(l)
  <2>1. /\ loads[l].pc = "waiting" /\ engine' = l /\ engines' = ReleaseCurrent /\ NewSession
        /\ UNCHANGED <<lease, leases, records>>
    BY <1>5 DEF LoadSucceeds
  <2>2. lease = None /\ engine # l /\ engines[l] = NewEngine
    BY <2>1, <1>1 DEF OwnershipOK, LoadOK, HoldersOK
  <2>3. engines'[engine'] = NewEngine
    BY <2>1, <2>2, ReleaseCurrentOK
  <2> QED BY <2>1, <2>2, <2>3, NewSessionTruth DEF NewEngine
<1> QED BY <1>3, <1>4, <1>5 DEF LoadSettles

LEMMA TruthStep == TypeOK /\ OwnershipOK /\ TruthOK /\ [Next]_vars => TruthOK'
<1> SUFFICES ASSUME TypeOK, OwnershipOK, TruthOK, [Next]_vars PROVE TruthOK'
  OBVIOUS
<1>1. ASSUME NEW l \in Loads,
             \/ \E c \in Checkpoints : LoadCheckpoint(l, c)
             \/ LoadThread(l) \/ LoadSettles(l) \/ LoadCancelled(l) \/ ReleaseCancelled(l)
      PROVE TruthOK'
  BY <1>1, LoadTruthStep
<1>2. CASE Reset
  <2>1. /\ ~Busy /\ engine # None /\ engine' = engine /\ NewSession
        /\ engines' = [engines EXCEPT ![engine] = ResetEngine(@)]
        /\ UNCHANGED <<lease, leases, records>>
    BY <1>2 DEF Reset
  <2>2. lease = None /\ engine \in Loads /\ engines \in [Loads -> Engine]
    BY <2>1, StatusMeaning, Types
  <2>3. engines'[engine'] = ResetEngine(engines[engine])
    BY <2>1, <2>2
  <2>4. engines'[engine'].messages = <<>> /\ engines'[engine'].pending = NoPrompt
    BY <2>2, <2>3 DEF ResetEngine, Engine
  <2> QED BY <2>1, <2>2, <2>4, NewSessionTruth
<1>3. ASSUME NEW g \in Leases, StartGeneration(g) PROVE TruthOK'
  BY <1>3, StartTruth
<1>4. ASSUME NEW g \in Leases, Worker(g) PROVE TruthOK'
  BY <1>4, WorkerKinds, WorkerTruthStep
<1>5. CASE ForwardEvent
  <2> DEFINE s == Append(leases[lease].items, Head(callbacks).item)
  <2>1. /\ leases' = [leases EXCEPT ![lease].items = s] /\ lease \in Leases
        /\ UNCHANGED <<engine, engines, lease, session, records>>
    BY <1>5, HeadOfFifo DEF ForwardEvent
  <2>2. leases \in [Leases -> LeaseRecord]
    BY Types
  <2> HIDE DEF s
  <2>3. \A k \in Leases : /\ leases'[k].pc = leases[k].pc
                          /\ leases'[k].session = leases[k].session
                          /\ leases'[k].appended = leases[k].appended
                          /\ leases'[k].event = leases[k].event
                          /\ leases'[k].outcome = leases[k].outcome
    BY <2>1, <2>2 DEF LeaseRecord
  <2> QED BY <2>1, <2>3, QuietTruth
<1>6. CASE FinishGeneration
  BY <1>6, FinishTruth
<1>7. ASSUME NEW g \in Leases, leases' = [leases EXCEPT ![g].cancel = TRUE],
             UNCHANGED <<engine, engines, lease, session, records>>
      PROVE  TruthOK'
  <2>1. \A k \in Leases : /\ leases'[k].pc = leases[k].pc
                          /\ leases'[k].session = leases[k].session
                          /\ leases'[k].appended = leases[k].appended
                          /\ leases'[k].event = leases[k].event
                          /\ leases'[k].outcome = leases[k].outcome
    BY <1>7, CancelFields
  <2> QED BY <1>7, <2>1, QuietTruth
<1>8. ASSUME NEW g \in Leases, Cancel(g) PROVE TruthOK'
  BY <1>7, <1>8 DEF Cancel
<1>9. CASE UNCHANGED <<engine, engines, lease, leases, session, records>>
  BY <1>9, QuietTruth
<1>10. CASE ShutdownBegin
  <2>1. lease \in Leases \cup {None}
    BY Types
  <2>2. \/ lease \in Leases /\ leases' = [leases EXCEPT ![lease].cancel = TRUE]
        \/ UNCHANGED leases
    BY <1>10, <2>1 DEF ShutdownBegin
  <2>3. UNCHANGED <<engine, engines, lease, session, records>>
    BY <1>10 DEF ShutdownBegin
  <2> QED BY <1>7, <1>9, <2>2, <2>3
<1>11. CASE ShutdownRelease
  <2>1. engine' = None /\ UNCHANGED <<lease, leases, session, records>>
    BY <1>11 DEF ShutdownRelease
  <2> QED BY <2>1, QuietTruth
<1>12. CASE ShutdownAwaited \/ UNCHANGED vars
  BY <1>9, <1>12, Zenon DEF ShutdownAwaited, vars
<1> QED BY <1>1, <1>2, <1>3, <1>4, <1>5, <1>6, <1>8, <1>10, <1>11, <1>12 DEF Next

\* The turns a settled history commits are the answered ones, in order.
LEMMA TurnsAreAnswered ==
  ASSUME NEW m \in Seq(Message), NEW A, Alternates(m), Settled(m, Len(m), A)
  PROVE  LET turns == TurnsOf(m) IN
         /\ {turns[i] : i \in DOMAIN turns} = A
         /\ \A i, j \in DOMAIN turns : i < j => turns[i] < turns[j]
<1> DEFINE n == Len(m)
           h == n \div 2
           turns == TurnsOf(m)
<1>1. n \in Nat /\ DOMAIN m = 1 .. n /\ h \in Nat /\ 2 * h <= n
  OBVIOUS
<1>2. DOMAIN turns = 1 .. h /\ \A i \in 1 .. h : turns[i] = m[2 * i].prompt
  BY DEF TurnsOf
<1>3. \A i \in 1 .. h : 2 * i \in 1 .. n /\ (2 * i) % 2 # 1
  BY <1>1
<1>4. \A k \in 1 .. n : k % 2 # 1 => \E i \in 1 .. h : k = 2 * i
  <2>1. ASSUME NEW k \in 1 .. n, k % 2 # 1 PROVE k \div 2 \in 1 .. h /\ k = 2 * (k \div 2)
    BY <2>1, <1>1
  <2> QED BY <2>1
<1>5. \A k \in 1 .. n : m[k].role = "assistant" <=> k % 2 # 1
  BY <1>1 DEF Alternates
<1> HIDE DEF h, turns
<1>6. ASSUME NEW i \in 1 .. h PROVE turns[i] \in A
  BY <1>2, <1>3, <1>5 DEF Settled
<1>7. ASSUME NEW a \in A PROVE \E i \in 1 .. h : turns[i] = a
  <2>1. PICK k \in 1 .. n : m[k].role = "assistant" /\ m[k].prompt = a
    BY DEF Settled
  <2>2. PICK i \in 1 .. h : k = 2 * i
    BY <2>1, <1>4, <1>5
  <2> QED BY <2>1, <2>2, <1>2
<1>8. ASSUME NEW i \in 1 .. h, NEW j \in 1 .. h, i < j PROVE turns[i] < turns[j]
  <2>1. 2 * i \in 1 .. n /\ 2 * j \in 1 .. n /\ 2 * i < 2 * j
    BY <1>3, <1>8, <1>1
  <2>2. m[2 * i].role = "assistant" /\ m[2 * j].role = "assistant"
    BY <2>1, <1>3, <1>5
  <2> DEFINE a == 2 * i
             b == 2 * j
  <2>3. a \in 1 .. n /\ b \in 1 .. n /\ a < b /\ m[a].role = "assistant" /\ m[b].role = "assistant"
        /\ turns[i] = m[a].prompt /\ turns[j] = m[b].prompt
    BY <2>1, <2>2, <1>2
  <2> HIDE DEF a, b
  <2> QED BY <2>3 DEF Settled
<1> QED BY <1>2, <1>6, <1>7, <1>8 DEF turns

LEMMA TruthMeans ==
  TypeOK /\ OwnershipOK /\ TruthOK
    => /\ TranscriptMatchesOutcomes /\ CountersAgree
       /\ AtomicTracker => OnlyCompletedTracked
<1> SUFFICES ASSUME TypeOK, OwnershipOK, TruthOK
             PROVE  /\ TranscriptMatchesOutcomes /\ CountersAgree
                    /\ AtomicTracker => OnlyCompletedTracked
  OBVIOUS
<1>1. TranscriptMatchesOutcomes
  <2>1. ASSUME Idle, engine # None
        PROVE  LET turns == CommittedTurns(engines[engine]) IN
               /\ engines[engine].pending = NoPrompt
               /\ {turns[i] : i \in DOMAIN turns} = AnsweredTurns
               /\ \A i, j \in DOMAIN turns : i < j => turns[i] < turns[j]
    <3>1. engines[engine] \in Engine
      BY <2>1, Types
    <3>2. engines[engine].messages \in Seq(Message)
      BY <3>1 DEF Engine
    <3>3. Alternates(engines[engine].messages) /\ QuietOK(engines[engine], AnsweredTurns)
      BY <2>1 DEF Idle, TruthOK, HistoryOK
    <3>4. /\ Settled(engines[engine].messages, Len(engines[engine].messages), AnsweredTurns)
          /\ engines[engine].pending = NoPrompt
      BY <3>3 DEF QuietOK
    <3> QED BY <3>2, <3>3, <3>4, TurnsAreAnswered DEF CommittedTurns
  <2> QED BY <2>1 DEF TranscriptMatchesOutcomes
<1>2. CountersAgree
  BY DEF TruthOK
<1>3. ASSUME AtomicTracker PROVE OnlyCompletedTracked
  BY <1>3 DEF TruthOK, RecordsOK, OnlyCompletedTracked
<1> QED BY <1>1, <1>2, <1>3

LEMMA TruthAlways == SafeSpec => [](TypeOK /\ OwnershipOK /\ TruthOK)
<1>1. Init => TypeOK /\ OwnershipOK /\ TruthOK
  BY TypeInit, OwnershipInit, TruthInit
<1>2. TypeOK /\ OwnershipOK /\ TruthOK /\ [Next]_vars => (TypeOK /\ OwnershipOK /\ TruthOK)'
  BY TypeStep, OwnershipStep, TruthStep
<1> QED BY <1>1, <1>2, PTL DEF SafeSpec

\* For any loads, generations, tokens and resets, and whatever the tracker does:
\* between operations the history is exactly the turns whose clients were told
\* "completed", in order, with nothing pending, and the session counters count
\* them.  A cancelled, failed, late-cancelled or untracked turn leaves nothing
\* behind (service.py:843-945, 947-1011).
THEOREM HistoryMatchesHolds == SafeSpec => [](TranscriptMatchesOutcomes /\ CountersAgree)
<1>1. TypeOK /\ OwnershipOK /\ TruthOK => TranscriptMatchesOutcomes /\ CountersAgree
  BY TruthMeans
<1> QED BY <1>1, TruthAlways, PTL

\* With a tracker that never writes a record and then raises (CompositeTracker can,
\* which the violation run shows), the tracked records tell of the same turns: those
\* that are reported completed, each once, numbered in order (service.py:947-1011).
THEOREM HistoryIsTruthfulHolds ==
  ASSUME AtomicTracker
  PROVE  SafeSpec => []HistoryIsTruthful
<1>1. TypeOK /\ OwnershipOK /\ TruthOK => HistoryIsTruthful
  BY TruthMeans DEF HistoryIsTruthful
<1> QED BY <1>1, TruthAlways, PTL

-----------------------------------------------------------------------------
(* Refinement: the service implements the transcript of whole turns.       *)

\* The turns among the first n messages.
FirstTurns(m, n) == [i \in 1 .. (n \div 2) |-> m[2 * i].prompt]

\* The turns a history shows while turn g is in flight.
TurnsWithout(m, g) ==
  LET turns == TurnsOf(m) IN
  IF turns # <<>> /\ turns[Len(turns)] = g THEN DropLast(turns, 1) ELSE turns

\* How much of two histories of the same turns is settled is the same, if one
\* history goes on from the other.
LEMMA SettledSame ==
  ASSUME NEW m \in Seq(Message), NEW m2 \in Seq(Message), NEW n \in Nat, NEW n2 \in Nat, NEW A,
         Settled(m, n, A), Settled(m2, n2, A),
         \A i \in Nat \ {0} : i <= n /\ i <= n2 => m2[i] = m[i]
  PROVE  n = n2 /\ FirstTurns(m2, n2) = FirstTurns(m, n)
<1>1. ASSUME NEW x \in Seq(Message), NEW y \in Seq(Message), NEW a \in Nat, NEW b \in Nat,
             Settled(x, a, A), Settled(y, b, A),
             \A i \in Nat \ {0} : i <= a /\ i <= b => x[i] = y[i]
      PROVE  ~(a < b)
  <2>1. SUFFICES ASSUME a < b PROVE FALSE
    OBVIOUS
  <2>2. b \in 1 .. b /\ y[b].role = "assistant"
    BY <2>1, <1>1 DEF Settled
  <2>3. y[b].prompt \in A
    BY <2>2, <1>1 DEF Settled
  <2>4. PICK i \in 1 .. a : x[i].role = "assistant" /\ x[i].prompt = y[b].prompt
    BY <2>3, <1>1 DEF Settled
  <2>5. i \in 1 .. b /\ i < b /\ y[i] = x[i]
    BY <2>1, <1>1
  <2>6. y[i].prompt < y[b].prompt
    BY <2>2, <2>4, <2>5, <1>1 DEF Settled
  <2>7. y[b] \in Message
    BY <2>2, <1>1 DEF Settled
  <2> QED BY <2>4, <2>5, <2>6, <2>7 DEF Message
<1>2. n = n2
  BY <1>1
<1>3. \A i \in 1 .. (n \div 2) : 2 * i \in Nat \ {0} /\ 2 * i <= n
  OBVIOUS
<1>4. \A i \in 1 .. (n \div 2) : m2[2 * i] = m[2 * i]
  BY <1>2, <1>3
<1> QED BY <1>2, <1>4 DEF FirstTurns

\* The settled part of an alternating history ends with a reply.
LEMMA SettledEven ==
  ASSUME NEW m \in Seq(Message), Alternates(m), NEW n \in Nat, NEW A, Settled(m, n, A)
  PROVE  n % 2 = 0
<1>1. CASE n = 0
  BY <1>1
<1>2. CASE n # 0
  <2>1. n \in DOMAIN m /\ m[n].role = "assistant"
    BY <1>2 DEF Settled
  <2>2. n % 2 # 1
    BY <2>1 DEF Alternates
  <2> QED BY <2>2, Parity
<1> QED BY <1>1, <1>2

\* The turns of a history whose settled part may be followed by a user's message.
LEMMA SettledView ==
  ASSUME NEW m \in Seq(Message), Alternates(m), NEW n \in Nat, n = Len(m) \/ n + 1 = Len(m),
         NEW A, Settled(m, n, A)
  PROVE  /\ TurnsOf(m) = FirstTurns(m, n)
         /\ \A g : g \notin A => TurnsWithout(m, g) = FirstTurns(m, n)
<1>1. n % 2 = 0
  BY SettledEven
<1>2. Len(m) \div 2 = n \div 2 /\ 2 * (n \div 2) = n /\ n \div 2 \in Nat
  BY <1>1
<1> DEFINE h == n \div 2
           turns == TurnsOf(m)
<1>3. turns = [i \in 1 .. h |-> m[2 * i].prompt]
  BY <1>2 DEF TurnsOf
<1>4. h \in Nat /\ 2 * h = n
  BY <1>2
<1> HIDE DEF h
<1>5. turns = FirstTurns(m, n)
  BY <1>3 DEF FirstTurns, h
<1>6. Len(turns) = h /\ (turns # <<>> => h # 0)
  BY <1>3, <1>4
<1>7. ASSUME turns # <<>> PROVE turns[Len(turns)] \in A
  <2>1. h \in 1 .. h /\ n \in 1 .. n
    BY <1>4, <1>6, <1>7
  <2>2. turns[h] = m[2 * h].prompt
    BY <2>1, <1>3
  <2>3. turns[h] = m[n].prompt
    BY <2>2, <1>4
  <2> QED BY <2>1, <2>3, <1>6 DEF Settled
<1>8. ASSUME NEW g, g \notin A PROVE TurnsWithout(m, g) = FirstTurns(m, n)
  BY <1>5, <1>7, <1>8 DEF TurnsWithout
<1> QED BY <1>5, <1>8

LEMMA SplitLast ==
  ASSUME NEW S, NEW q \in Seq(S), NEW p \in Seq(S), NEW h \in Nat,
         Len(q) = h + 1, Len(p) = h, \A i \in 1 .. h : q[i] = p[i]
  PROVE  q = Append(p, q[h + 1]) /\ DropLast(q, 1) = p /\ q # <<>>
<1>1. q[h + 1] \in S /\ 1 \in 1 .. Len(q) /\ Len(q) - 1 = h
  OBVIOUS
<1> DEFINE r == Append(p, q[h + 1])
<1>2. r \in Seq(S) /\ Len(r) = h + 1 /\ \A i \in 1 .. h + 1 : r[i] = q[i]
  BY <1>1
<1> HIDE DEF r
<1>3. q = r
  BY <1>2
<1> DEFINE d == DropLast(q, 1)
<1>4. d \in Seq(S) /\ Len(d) = h /\ \A i \in 1 .. h : d[i] = q[i]
  BY <1>1, DropLastPrefix
<1> HIDE DEF d
<1>5. d = p
  BY <1>4
<1> QED BY <1>3, <1>5 DEF r, d

\* The turns of a history that ends with a whole turn after its settled part.
LEMMA CommittedView ==
  ASSUME NEW m \in Seq(Message), Alternates(m), NEW n \in Nat, n + 2 = Len(m),
         NEW A, Settled(m, n, A), NEW g, m[n + 2].prompt = g
  PROVE  /\ TurnsOf(m) = Append(FirstTurns(m, n), g)
         /\ TurnsWithout(m, g) = FirstTurns(m, n)
<1> DEFINE h == n \div 2
           turns == TurnsOf(m)
           first == FirstTurns(m, n)
<1>1. n % 2 = 0
  BY SettledEven
<1>2. Len(m) \div 2 = h + 1 /\ 2 * (h + 1) = n + 2 /\ h \in Nat
  BY <1>1
<1>3. turns = [i \in 1 .. h + 1 |-> m[2 * i].prompt]
  BY <1>2 DEF TurnsOf
<1>4. first = [i \in 1 .. h |-> m[2 * i].prompt]
  BY DEF FirstTurns
<1>5. m[2 * (h + 1)].prompt = g
  BY <1>2
<1>6. \A i \in 1 .. h + 1 : m[2 * i].prompt \in Prompts
  <2>1. ASSUME NEW i \in 1 .. h + 1 PROVE m[2 * i].prompt \in Prompts
    <3>1. 2 * i \in 1 .. Len(m)
      BY <1>2
    <3>2. m[2 * i] \in Message
      BY <3>1
    <3> QED BY <3>2 DEF Message
  <2> QED BY <2>1
<1> HIDE DEF h
<1>7. /\ turns \in Seq(Prompts) /\ Len(turns) = h + 1 /\ turns[h + 1] = g
      /\ \A i \in 1 .. h : turns[i] = m[2 * i].prompt
  <2>1. h + 1 \in 1 .. h + 1 /\ \A i \in 1 .. h : i \in 1 .. h + 1
    BY <1>2
  <2> QED BY <2>1, <1>2, <1>3, <1>5, <1>6
<1>8. /\ first \in Seq(Prompts) /\ Len(first) = h
      /\ \A i \in 1 .. h : first[i] = m[2 * i].prompt
  BY <1>2, <1>4, <1>6
<1> HIDE DEF turns, first
<1>9. turns = Append(first, g) /\ DropLast(turns, 1) = first /\ turns # <<>>
  <2> DEFINE S == Prompts
  <2>1. turns \in Seq(S) /\ first \in Seq(S) /\ h \in Nat
    BY <1>2, <1>7, <1>8 DEF h
  <2>2. Len(turns) = h + 1 /\ Len(first) = h /\ turns[h + 1] = g
    BY <1>7, <1>8
  <2>3. \A i \in 1 .. h : turns[i] = first[i]
    BY <1>7, <1>8
  <2> HIDE DEF S
  <2> QED BY <2>1, <2>2, <2>3, SplitLast
<1> QED BY <1>7, <1>9 DEF TurnsWithout, turns, first


\* History m shows the turns t: those of its part that is settled.
Shows(m, A, t) ==
  m \in Seq(Message) /\ \E n \in Nat : Settled(m, n, A) /\ t = FirstTurns(m, n)
Agree(m, m2) == \A i \in DOMAIN m \cap DOMAIN m2 : m2[i] = m[i]

LEMMA ShowsSame ==
  ASSUME NEW m, NEW m2, NEW A, NEW t, NEW t2, Shows(m, A, t), Shows(m2, A, t2), Agree(m, m2)
  PROVE  t2 = t
<1>1. PICK n \in Nat : Settled(m, n, A) /\ t = FirstTurns(m, n)
  BY DEF Shows
<1>2. PICK n2 \in Nat : Settled(m2, n2, A) /\ t2 = FirstTurns(m2, n2)
  BY DEF Shows
<1>3. m \in Seq(Message) /\ m2 \in Seq(Message) /\ n <= Len(m) /\ n2 <= Len(m2)
  BY <1>1, <1>2 DEF Shows, Settled
<1>4. \A i \in Nat \ {0} : i <= n /\ i <= n2 => i \in DOMAIN m \cap DOMAIN m2
  BY <1>3
<1>5. \A i \in Nat \ {0} : i <= n /\ i <= n2 => m2[i] = m[i]
  BY <1>4 DEF Agree
<1> QED BY <1>1, <1>2, <1>3, <1>5, SettledSame

\* What the clients see is the settled part of the current engine's history.
SettledOK == engine # None => Shows(engines[engine].messages, AnsweredTurns, SettledTurns)

LEMMA SettledTurnsAre ==
  SettledTurns =
    IF engine = None THEN <<>>
    ELSE IF lease = None THEN TurnsOf(engines[engine].messages)
    ELSE TurnsWithout(engines[engine].messages, lease)
BY DEF SettledTurns, TurnsWithout, CommittedTurns

LEMMA TruthIsSettled == TypeOK /\ OwnershipOK /\ TruthOK => SettledOK
<1> SUFFICES ASSUME TypeOK, OwnershipOK, TruthOK, engine # None
             PROVE  Shows(engines[engine].messages, AnsweredTurns, SettledTurns)
  BY DEF SettledOK
<1> DEFINE e == engines[engine]
           m == e.messages
           n == Len(m)
           A == AnsweredTurns
<1>1. e \in Engine
  BY Types
<1>2. m \in Seq(Message) /\ n \in Nat
  BY <1>1 DEF Engine
<1>3. CASE lease = None
  <2>1. Alternates(m) /\ Settled(m, n, A) /\ SettledTurns = TurnsOf(m)
    BY <1>3, SettledTurnsAre DEF TruthOK, HistoryOK, QuietOK
  <2> QED BY <2>1, <1>2, SettledView DEF Shows
<1>4. CASE lease # None
  <2>1. PICK g \in Leases : g = lease
    BY <1>4, Types
  <2>2. Live(g) /\ leases[g].pc \notin {"unused", "over"}
    BY <2>1, <1>4 DEF OwnershipOK, LeaseOK, Live
  <2>3. g \notin A
    BY <2>2, LiveIsNewest DEF TruthOK
  <2>4. TurnOK(e, leases[g], g, A) /\ SettledTurns = TurnsWithout(m, g)
    BY <2>1, <1>4, SettledTurnsAre DEF TruthOK, HistoryOK
  <2>5. CASE Committed(leases[g])
    <3> DEFINE k == n - 2
    <3>1. n > 1 /\ Settled(m, k, A) /\ m[n] = Assistant(g) /\ Alternates(m)
      BY <2>4, <2>5 DEF TurnOK, CommittedOK
    <3>2. k \in Nat /\ k + 2 = n
      BY <3>1, <1>2
    <3>3. m[k + 2].prompt = g
      BY <3>1, <3>2 DEF Assistant
    <3> HIDE DEF k, m
    <3>4. TurnsWithout(m, g) = FirstTurns(m, k)
      BY <3>1, <3>2, <3>3, <1>2, CommittedView DEF m
    <3> QED BY <3>1, <3>2, <3>4, <2>4, <1>2 DEF Shows, m
  <2>6. CASE Waiting(leases[g])
    <3> DEFINE k == n - 1
    <3>1. n > 0 /\ Settled(m, k, A) /\ Alternates(m)
      BY <2>4, <2>6 DEF TurnOK, WaitingOK
    <3>2. k \in Nat /\ k + 1 = n
      BY <3>1, <1>2
    <3> HIDE DEF k, m
    <3>3. TurnsWithout(m, g) = FirstTurns(m, k)
      BY <3>1, <3>2, <2>3, <1>2, SettledView DEF m
    <3> QED BY <3>1, <3>2, <3>3, <2>4, <1>2 DEF Shows, m
  <2>7. CASE ~Committed(leases[g]) /\ ~Waiting(leases[g])
    <3>1. Settled(m, n, A) /\ Alternates(m)
      BY <2>4, <2>7 DEF TurnOK, QuietOK
    <3>2. TurnsWithout(m, g) = FirstTurns(m, n)
      BY <3>1, <2>3, <1>2, SettledView
    <3> QED BY <3>1, <3>2, <2>4, <1>2 DEF Shows
  <2> QED BY <2>5, <2>6, <2>7
<1> QED BY <1>3, <1>4

\* As long as no lease ends, the clients see the same turns.
LEMMA TurnsKept ==
  ASSUME SettledOK, SettledOK', engine' = engine, AnsweredTurns' = AnsweredTurns,
         engine # None => Agree(engines[engine].messages, engines'[engine].messages)
  PROVE  SettledTurns' = SettledTurns
<1>1. CASE engine = None
  BY <1>1 DEF SettledTurns
<1>2. CASE engine # None
  <2>1. Shows(engines[engine].messages, AnsweredTurns, SettledTurns)
    BY <1>2 DEF SettledOK
  <2>2. Shows(engines'[engine].messages, AnsweredTurns, SettledTurns')
    BY <1>2 DEF SettledOK
  <2> QED BY <2>1, <2>2, <1>2, ShowsSame
<1> QED BY <1>1, <1>2

LEMMA WorkerKeeps ==
  ASSUME TypeOK, OwnershipOK, SettledOK, SettledOK', NEW g \in Leases, Live(g),
         NEW e2, NEW w2, NEW posted, WorkerStep(g, e2, w2, posted), w2.pc # "over",
         Agree(engines[engine].messages, e2.messages)
  PROVE  SettledTurns' = SettledTurns /\ lease' = lease
<1>0. /\ leases[g].engine = engine /\ engine \in Loads
      /\ engines \in [Loads -> Engine] /\ leases \in [Leases -> LeaseRecord]
      /\ leases[g].pc \notin {"unused", "over"}
  BY LiveWorker, Types DEF Live
<1>1. /\ engines' = [engines EXCEPT ![engine] = e2] /\ leases' = [leases EXCEPT ![g] = w2]
      /\ UNCHANGED <<engine, lease, session>>
  BY <1>0 DEF WorkerStep, loadVars
<1>2. /\ engines'[engine] = e2
      /\ leases'[g] = w2 /\ \A k \in Leases : k # g => leases'[k] = leases[k]
  BY <1>0, <1>1
<1>3. AnsweredTurns' = AnsweredTurns
  BY <1>0, <1>1, <1>2 DEF AnsweredTurns
<1> QED BY <1>1, <1>2, <1>3, TurnsKept

LEMMA HistoriesAgree ==
  ASSUME NEW e \in Engine, NEW g \in Prompts
  PROVE  /\ Agree(e.messages, e.messages)
         /\ Agree(e.messages, AppendUser(e, g).messages)
         /\ Agree(e.messages, StartStream(e).messages)
         /\ Agree(e.messages, CompleteStream(e, g).messages)
         /\ \A s \in {"failed", "cancelled"} : Agree(e.messages, FinishInterrupted(e, s).messages)
         /\ \A b \in BOOLEAN : CanRollback(e, b) =>
              Agree(e.messages, RollbackLastTurn(e, b).messages)
<1> DEFINE m == e.messages
<1>1. m \in Seq(Message) /\ User(g) \in Message /\ Assistant(g) \in Message
  BY DEF Engine, User, Assistant, Message
<1>2. Agree(m, m)
  BY DEF Agree
<1>3. \A x \in Message : Agree(m, Append(m, x))
  BY <1>1 DEF Agree
<1>4. AppendUser(e, g).messages = Append(m, User(g))
  BY DEF Engine, AppendUser
<1>5. CompleteStream(e, g).messages = Append(m, Assistant(g))
  BY DEF Engine, CompleteStream
<1>6. StartStream(e).messages = m
  BY DEF Engine, StartStream
<1>7. \A s \in {"failed", "cancelled"} : FinishInterrupted(e, s).messages = m
  BY DEF Engine, FinishInterrupted
<1>8. ASSUME NEW b \in BOOLEAN, CanRollback(e, b)
      PROVE  Agree(m, RollbackLastTurn(e, b).messages)
  <2> DEFINE c == RollbackCount(e, b)
             d == DropLast(m, c)
  <2>1. c \in 1 .. Len(m)
    BY <1>1, <1>8, RollbackBound DEF CanRollback
  <2>2. RollbackLastTurn(e, b).messages = d
    BY DEF RollbackLastTurn, Engine
  <2> HIDE DEF c, m
  <2>3. d \in Seq(Message) /\ Len(d) = Len(m) - c /\ \A i \in 1 .. Len(m) - c : d[i] = m[i]
    BY <1>1, <2>1, DropLastPrefix
  <2> HIDE DEF d
  <2>4. DOMAIN d = 1 .. Len(m) - c
    BY <2>3
  <2> QED BY <2>2, <2>3, <2>4 DEF Agree
<1> HIDE DEF m
<1> QED BY <1>1, <1>2, <1>3, <1>4, <1>5, <1>6, <1>7, <1>8 DEF m

\* Whatever the worker does to the engine, the clients see the same turns.
LEMMA WorkerShowsNothing ==
  ASSUME TypeOK, OwnershipOK, SettledOK, SettledOK', NEW g \in Leases, WorkerKind(g)
  PROVE  SettledTurns' = SettledTurns /\ lease' = lease
<1> DEFINE w == leases[g]
           e == engines[w.engine]
<1>1. Live(g)
  BY DEF WorkerKind, GivesUp, Appends, Creates, Starts, GetsToken, Completes, Breaks,
         Accepts, Forwards, Closes, Keeps, Undoes, CannotUndo, Live, WorkerPcs
<1>2. w \in LeaseRecord /\ w.engine = engine /\ e \in Engine /\ g \in Prompts
  BY <1>1, LiveWorker
<1>3. ASSUME NEW e2, NEW w2, NEW posted, WorkerStep(g, e2, w2, posted), w2.pc # "over",
             Agree(e.messages, e2.messages)
      PROVE  SettledTurns' = SettledTurns /\ lease' = lease
  BY <1>1, <1>2, <1>3, WorkerKeeps
<1>4. \A b \in BOOLEAN : CanRollback(e, b) => Agree(e.messages, RollbackLastTurn(e, b).messages)
  BY <1>2, HistoriesAgree
<1>5. /\ Agree(e.messages, e.messages)
      /\ Agree(e.messages, AppendUser(e, g).messages)
      /\ Agree(e.messages, StartStream(e).messages)
      /\ Agree(e.messages, CompleteStream(e, g).messages)
      /\ Agree(e.messages, FinishInterrupted(e, "failed").messages)
      /\ Agree(e.messages, FinishInterrupted(e, "cancelled").messages)
  BY <1>2, HistoriesAgree
<1>6. w = leases[g] /\ e = engines[w.engine]
  OBVIOUS
<1> HIDE DEF w, e
\* The lease in each case.
<1>7. /\ \A o : Wind(w, o).pc # "over"
      /\ [w EXCEPT !.pc = "prompted", !.appended = TRUE].pc # "over"
      /\ [w EXCEPT !.pc = "loop", !.stream = "created"].pc # "over"
      /\ [w EXCEPT !.pc = "got", !.event = "start", !.stream = "running"].pc # "over"
      /\ [w EXCEPT !.pc = "got", !.event = "token", !.stream = "running",
                   !.tokens = @ + 1].pc # "over"
      /\ [w EXCEPT !.pc = "got", !.event = "complete", !.stream = "running"].pc # "over"
      /\ [w EXCEPT !.pc = "close", !.outcome = "failed", !.stream = "none"].pc # "over"
      /\ [w EXCEPT !.pc = "loop"].pc # "over"
      /\ \A o : [w EXCEPT !.pc = "rollback", !.stream = "none", !.outcome = o].pc # "over"
      /\ [w EXCEPT !.pc = "posted"].pc # "over"
      /\ [w EXCEPT !.pc = "posted", !.outcome = "failed"].pc # "over"
  BY <1>2 DEF Wind, LeaseRecord
<1>8. CASE GivesUp(g)
  <2>1. PICK o \in {"cancelled", "failed"} : WorkerStep(g, e, Wind(w, o), <<>>)
    BY <1>8, <1>6, Zenon DEF GivesUp
  <2> QED BY <2>1, <1>3, <1>5, <1>7, Zenon
<1>9. CASE Appends(g)
  BY <1>3, <1>5, <1>6, <1>7, <1>9, Zenon DEF Appends
<1>10. CASE Creates(g)
  BY <1>3, <1>5, <1>6, <1>7, <1>10, Zenon DEF Creates
<1>11. CASE Starts(g)
  BY <1>3, <1>5, <1>6, <1>7, <1>11, Zenon DEF Starts
<1>12. CASE GetsToken(g)
  BY <1>3, <1>5, <1>6, <1>7, <1>12, Zenon DEF GetsToken
<1>13. CASE Completes(g)
  BY <1>3, <1>5, <1>6, <1>7, <1>13, Zenon DEF Completes
<1>14. CASE Breaks(g)
  BY <1>3, <1>5, <1>6, <1>7, <1>14, Zenon DEF Breaks
<1>15. CASE Accepts(g)
  BY <1>3, <1>5, <1>6, <1>7, <1>15, Zenon DEF Accepts
<1>16. CASE Forwards(g)
  BY <1>3, <1>5, <1>6, <1>7, <1>16, Zenon DEF Forwards
<1>17. CASE Closes(g)
  <2> DEFINE e2 == IF w.stream = "running" THEN FinishInterrupted(e, "cancelled") ELSE e
  <2>1. PICK o \in {w.outcome, "failed"} :
          WorkerStep(g, e2, [w EXCEPT !.pc = "rollback", !.stream = "none", !.outcome = o], <<>>)
    BY <1>17, <1>6, Zenon DEF Closes
  <2>2. Agree(e.messages, e2.messages)
    BY <1>5
  <2> HIDE DEF e2
  <2> QED BY <2>1, <2>2, <1>3, <1>7, Zenon
<1>18. CASE Keeps(g)
  BY <1>3, <1>5, <1>6, <1>7, <1>18, Zenon DEF Keeps
<1>19. CASE Undoes(g)
  <2>1. /\ CanRollback(e, TRUE)
        /\ WorkerStep(g, RollbackLastTurn(e, TRUE), [w EXCEPT !.pc = "posted"], Finish(g))
    BY <1>19, <1>6, Zenon DEF Undoes
  <2>2. Agree(e.messages, RollbackLastTurn(e, TRUE).messages)
    BY <2>1, <1>4
  <2> QED BY <2>1, <2>2, <1>3, <1>7, Zenon
<1>20. CASE CannotUndo(g)
  BY <1>3, <1>5, <1>6, <1>7, <1>20, Zenon DEF CannotUndo
<1> QED BY <1>8, <1>9, <1>10, <1>11, <1>12, <1>13, <1>14, <1>15, <1>16, <1>17, <1>18, <1>19,
           <1>20 DEF WorkerKind

LEMMA NoTurnsShown == TurnsOf(<<>>) = <<>>
  BY DEF TurnsOf

\* Only the end of a lease shows its turn, or withdraws it.
LEMMA LeaseEnds ==
  ASSUME TypeOK, OwnershipOK, TruthOK, SettledOK, SettledOK', FinishGeneration
  PROVE  Transcript!Answer \/ Transcript!Withdraw
<1> DEFINE A == AnsweredTurns
           e == engines[engine]
           m == e.messages
<1>0. PICK g \in Leases : g = lease
  BY HeadOfFifo DEF FinishGeneration
<1>1. /\ Live(g) /\ leases[g].pc = "posted" /\ lease' = None /\ engine' = engine
      /\ Counts(g) \/ TakesBack(g) \/ CountsAlone(g) \/ Reports(g)
  BY <1>0, HeadOfFifo, FinishKinds DEF FinishGeneration
<1>2. /\ leases \in [Leases -> LeaseRecord] /\ engines \in [Loads -> Engine]
      /\ engine \in Loads /\ e \in Engine /\ g \in Prompts /\ engine # None
      /\ m \in Seq(Message)
  BY <1>1, LiveWorker, Types DEF Engine
<1>3. g # None
  OBVIOUS
<1>4. CASE Counts(g)
  <2>1. engines' = engines /\ leases[g].outcome = "completed"
    BY <1>4 DEF Counts
  <2>2. CommittedOK(e, g, A) /\ Alternates(m)
    BY <2>1, <1>0, <1>1, <1>2 DEF TruthOK, HistoryOK, LeasesOrdered, WorkerOK, Committed, TurnOK
  <2> DEFINE k == Len(m) - 2
  <2>3. /\ k \in Nat /\ k + 2 = Len(m) /\ Settled(m, k, A) /\ m[Len(m)] = Assistant(g)
    BY <2>2, <1>2 DEF CommittedOK
  <2>4. m[k + 2].prompt = g
    BY <2>3 DEF Assistant
  <2> HIDE DEF k, m
  <2>5. TurnsOf(m) = Append(FirstTurns(m, k), g) /\ TurnsWithout(m, g) = FirstTurns(m, k)
    BY <2>2, <2>3, <2>4, <1>2, CommittedView
  <2>6. SettledTurns = FirstTurns(m, k)
    BY <2>5, <1>0, <1>2, <1>3, SettledTurnsAre DEF m
  <2>7. SettledTurns' = TurnsOf(engines'[engine'].messages)
    BY <1>1, <1>2 DEF SettledTurns, CommittedTurns
  <2>8. SettledTurns' = Append(SettledTurns, g)
    BY <2>1, <2>5, <2>6, <2>7, <1>1 DEF m
  <2> QED BY <2>8, <1>0, <1>1, <1>3 DEF Transcript!Answer
<1>5. ASSUME NEW o \in Outcomes, o # "completed", Delivers(g, o), session' = session,
             Agree(m, engines'[engine].messages)
      PROVE  Transcript!Withdraw
  <2> DEFINE s == Append(leases[g].items, o)
  <2>1. leases' = [leases EXCEPT ![g].pc = "over", ![g].outcome = o, ![g].items = s]
    BY <1>5 DEF Delivers
  <2> HIDE DEF s
  <2>2. leases'[g].outcome # "completed" /\ \A k \in Leases : k # g => leases'[k] = leases[k]
    BY <2>1, <1>2, <1>5 DEF LeaseRecord
  <2>3. A' = A
    BY <2>2, <1>1, <1>5 DEF AnsweredTurns
  <2>4. SettledTurns' = SettledTurns
    BY <2>3, <1>1, <1>5, TurnsKept
  <2> QED BY <2>4, <1>0, <1>1, <1>3 DEF Transcript!Withdraw
<1>6. Agree(m, m) /\ (CanRollback(e, TRUE) => Agree(m, RollbackLastTurn(e, TRUE).messages))
  BY <1>2, HistoriesAgree
<1>7. CASE TakesBack(g)
  <2>1. /\ session' = session /\ Delivers(g, "failed")
        /\ engines' = IF CanRollback(e, TRUE)
                      THEN [engines EXCEPT ![engine] = RollbackLastTurn(@, TRUE)] ELSE engines
    BY <1>7 DEF TakesBack
  <2>2. \/ engines'[engine] = e
        \/ CanRollback(e, TRUE) /\ engines'[engine] = RollbackLastTurn(e, TRUE)
    BY <2>1, <1>2
  <2>3. Agree(m, engines'[engine].messages)
    BY <2>2, <1>6
  <2>4. "failed" \in Outcomes /\ "failed" # "completed"
    BY DEF Outcomes
  <2> QED BY <2>1, <2>3, <2>4, <1>5
<1>8. CASE CountsAlone(g)
  BY <1>8, <1>2 DEF CountsAlone
<1>9. CASE Reports(g)
  <2>1. /\ leases[g].outcome # "completed" /\ session' = session
        /\ engines' = engines /\ Delivers(g, leases[g].outcome)
    BY <1>9 DEF Reports
  <2>2. leases[g].outcome \in Outcomes
    BY <1>2 DEF LeaseRecord
  <2> QED BY <2>1, <2>2, <1>5, <1>6
<1> QED BY <1>1, <1>4, <1>7, <1>8, <1>9

\* A load's steps clear what the clients see, or leave it.
LEMMA LoadShows ==
  ASSUME TypeOK, OwnershipOK, SettledOK, SettledOK', NEW l \in Loads,
         \/ \E c \in Checkpoints : LoadCheckpoint(l, c)
         \/ LoadThread(l) \/ LoadSettles(l) \/ LoadCancelled(l) \/ ReleaseCancelled(l)
  PROVE  UNCHANGED Transcript!tvars \/ Transcript!Clear
<1>1. LoadOK(l) /\ engines \in [Loads -> Engine]
  BY Types DEF OwnershipOK
<1>2. ASSUME UNCHANGED <<engine, lease, leases, session>>,
             engine # None => engines'[engine] = engines[engine]
      PROVE  UNCHANGED Transcript!tvars
  <2>1. engine' = engine /\ lease' = lease
    BY <1>2
  <2>2. AnsweredTurns' = AnsweredTurns
    BY <1>2 DEF AnsweredTurns
  <2>3. engine # None => Agree(engines[engine].messages, engines'[engine].messages)
    BY <1>2 DEF Agree
  <2>4. SettledTurns' = SettledTurns
    BY <2>1, <2>2, <2>3, TurnsKept
  <2> QED BY <2>1, <2>4 DEF Transcript!tvars
<1>3. CASE (\E c \in Checkpoints : LoadCheckpoint(l, c)) \/ LoadThread(l) \/ LoadCancelled(l)
  <2>1. UNCHANGED <<engine, engines, lease, leases, session>>
    BY <1>3, Zenon DEF LoadCheckpoint, LoadThread, LoadCancelled
  <2> QED BY <2>1, <1>2
<1>4. CASE LoadFails(l) \/ ReleaseCancelled(l)
  <2>1. /\ loads[l].pc \in {"waiting", "cancelled"}
        /\ engines' = IF loads[l].thread = "built"
                      THEN [engines EXCEPT ![l] = Released(@)] ELSE engines
        /\ UNCHANGED <<engine, lease, leases, session>>
    BY <1>4 DEF LoadFails, ReleaseCancelled
  <2>2. engine # l
    BY <2>1, <1>1 DEF LoadOK
  <2>3. engine # None => engines'[engine] = engines[engine]
    BY <2>1, <2>2, <1>1, Types
  <2> QED BY <2>1, <2>3, <1>2
<1>5. CASE LoadSucceeds(l)
  <2>1. /\ loads[l].pc = "waiting" /\ engine' = l /\ engines' = ReleaseCurrent /\ lease' = lease
    BY <1>5 DEF LoadSucceeds
  <2>2. lease = None /\ engine # l /\ engines[l] = NewEngine
    BY <2>1, <1>1 DEF OwnershipOK, LoadOK, HoldersOK
  <2>3. engines'[engine'] = NewEngine
    BY <2>1, <2>2, ReleaseCurrentOK
  <2>4. SettledTurns' = TurnsOf(<<>>)
    BY <2>1, <2>2, <2>3 DEF SettledTurns, CommittedTurns, NewEngine
  <2> QED BY <2>1, <2>2, <2>4, NoTurnsShown DEF Transcript!Clear
<1> QED BY <1>3, <1>4, <1>5 DEF LoadSettles

LEMMA TranscriptStep ==
  ASSUME TypeOK, OwnershipOK, TruthOK, SettledOK, SettledOK', [Next]_vars
  PROVE  [Transcript!Next]_(Transcript!tvars)
<1> USE DEF Transcript!Next
<1>1. ASSUME NEW l \in Loads,
             \/ \E c \in Checkpoints : LoadCheckpoint(l, c)
             \/ LoadThread(l) \/ LoadSettles(l) \/ LoadCancelled(l) \/ ReleaseCancelled(l)
      PROVE  [Transcript!Next]_(Transcript!tvars)
  BY <1>1, LoadShows
<1>2. ASSUME engine' = engine, lease' = lease, AnsweredTurns' = AnsweredTurns,
             engine # None => engines'[engine] = engines[engine]
      PROVE  UNCHANGED Transcript!tvars
  <2>1. engine # None => Agree(engines[engine].messages, engines'[engine].messages)
    BY <1>2 DEF Agree
  <2>2. SettledTurns' = SettledTurns
    BY <2>1, <1>2, TurnsKept
  <2> QED BY <2>2, <1>2 DEF Transcript!tvars
<1>3. ASSUME UNCHANGED <<engine, engines, lease, session>>,
             \A g \in Leases : /\ leases'[g].pc = leases[g].pc
                               /\ leases'[g].session = leases[g].session
                               /\ leases'[g].outcome = leases[g].outcome
      PROVE  UNCHANGED Transcript!tvars
  <2>1. AnsweredTurns' = AnsweredTurns
    BY <1>3 DEF AnsweredTurns
  <2> QED BY <2>1, <1>2, <1>3
<1>4. CASE Reset
  <2>1. /\ ~Busy /\ engine # None /\ engine' = engine /\ lease' = lease
        /\ engines' = [engines EXCEPT ![engine] = ResetEngine(@)]
    BY <1>4 DEF Reset
  <2>2. lease = None /\ engine \in Loads /\ engines \in [Loads -> Engine]
    BY <2>1, StatusMeaning, Types
  <2>3. engines'[engine'].messages = <<>>
    BY <2>1, <2>2 DEF ResetEngine, Engine
  <2>4. SettledTurns' = TurnsOf(<<>>)
    BY <2>1, <2>2, <2>3 DEF SettledTurns, CommittedTurns
  <2> QED BY <2>1, <2>2, <2>4, NoTurnsShown DEF Transcript!Clear
<1>5. ASSUME NEW g \in Leases, StartGeneration(g) PROVE [Transcript!Next]_(Transcript!tvars)
  <2>1. /\ leases[g].pc = "unused" /\ lease = None /\ lease' = g
        /\ leases' = [leases EXCEPT ![g].pc = "begin", ![g].engine = engine,
                                    ![g].session = session.id]
        /\ UNCHANGED <<engine, engines, session>>
    BY <1>5, Zenon DEF StartGeneration
  <2>2. leases \in [Leases -> LeaseRecord] /\ leases[g].pc = "unused"
    BY <2>1, Types
  <2>3. leases'[g].pc = "begin" /\ \A k \in Leases : k # g => leases'[k] = leases[k]
    BY <2>1, <2>2 DEF LeaseRecord
  <2>4. /\ lease = None /\ lease' = g
        /\ engine' = engine /\ engines' = engines /\ session' = session
    BY <2>1, Zenon
  <2>5. AnsweredTurns' = AnsweredTurns
    BY <2>2, <2>3, <2>4 DEF AnsweredTurns
  <2>6. engine # None => Agree(engines[engine].messages, engines'[engine].messages)
    BY <2>4 DEF Agree
  <2>7. SettledTurns' = SettledTurns
    BY <2>4, <2>5, <2>6, TurnsKept
  <2> QED BY <2>4, <2>7 DEF Transcript!Ask
<1>6. ASSUME NEW g \in Leases, Worker(g) PROVE [Transcript!Next]_(Transcript!tvars)
  BY <1>6, WorkerKinds, WorkerShowsNothing DEF Transcript!tvars
<1>7. CASE ForwardEvent
  <2> DEFINE s == Append(leases[lease].items, Head(callbacks).item)
  <2>1. /\ leases' = [leases EXCEPT ![lease].items = s] /\ lease \in Leases
        /\ UNCHANGED <<engine, engines, lease, session>>
    BY <1>7, HeadOfFifo DEF ForwardEvent
  <2>2. leases \in [Leases -> LeaseRecord]
    BY Types
  <2> HIDE DEF s
  <2>3. \A k \in Leases : /\ leases'[k].pc = leases[k].pc
                          /\ leases'[k].session = leases[k].session
                          /\ leases'[k].outcome = leases[k].outcome
    BY <2>1, <2>2 DEF LeaseRecord
  <2> QED BY <2>1, <2>3, <1>3
<1>8. CASE FinishGeneration
  BY <1>8, LeaseEnds
<1>9. ASSUME NEW g \in Leases, leases' = [leases EXCEPT ![g].cancel = TRUE],
             UNCHANGED <<engine, engines, lease, session>>
      PROVE  UNCHANGED Transcript!tvars
  <2>1. \A k \in Leases : /\ leases'[k].pc = leases[k].pc
                          /\ leases'[k].session = leases[k].session
                          /\ leases'[k].outcome = leases[k].outcome
    BY <1>9, CancelFields
  <2> QED BY <1>9, <2>1, <1>3
<1>10. ASSUME NEW g \in Leases, Cancel(g) PROVE UNCHANGED Transcript!tvars
  BY <1>9, <1>10 DEF Cancel
<1>11. CASE ShutdownBegin
  <2>1. lease \in Leases \cup {None}
    BY Types
  <2>2. \/ lease \in Leases /\ leases' = [leases EXCEPT ![lease].cancel = TRUE]
        \/ UNCHANGED leases
    BY <1>11, <2>1 DEF ShutdownBegin
  <2>3. UNCHANGED <<engine, engines, lease, session>>
    BY <1>11 DEF ShutdownBegin
  <2> QED BY <1>3, <1>9, <2>2, <2>3
<1>12. CASE ShutdownRelease
  <2>1. engine' = None /\ lease' = lease /\ shutdown = "waitLock"
    BY <1>12 DEF ShutdownRelease
  <2>2. lease = None
    BY <2>1 DEF OwnershipOK, HoldersOK
  <2>3. SettledTurns' = <<>>
    BY <2>1 DEF SettledTurns
  <2> QED BY <2>1, <2>2, <2>3 DEF Transcript!Clear
<1>13. CASE ShutdownAwaited \/ UNCHANGED vars
  <2>1. UNCHANGED <<engine, engines, lease, leases, session>>
    BY <1>13, Zenon DEF ShutdownAwaited, vars
  <2> QED BY <2>1, <1>3
<1> QED BY <1>1, <1>4, <1>5, <1>6, <1>7, <1>8, <1>10, <1>11, <1>12, <1>13 DEF Next

\* The service implements the transcript of whole turns across its threads: with
\* any loads, generations, cancellations, tracker failures and a shutdown in
\* between, what the clients see changes only when a lease ends, by its whole turn
\* or not at all, or is cleared as a whole (service.py:843-945, 947-1011).
THEOREM ServiceIsTransactionalHolds == SafeSpec => ServiceIsTransactional
<1>1. Init => Transcript!Init
  BY DEF Init, Transcript!Init, SettledTurns
<1>2. TypeOK /\ OwnershipOK /\ TruthOK => SettledOK
  BY TruthIsSettled
<1>3. /\ TypeOK /\ OwnershipOK /\ TruthOK /\ SettledOK /\ SettledOK' /\ [Next]_vars
      => [Transcript!Next]_(Transcript!tvars)
  BY TranscriptStep
<1> QED BY <1>1, <1>2, <1>3, TruthAlways, PTL DEF SafeSpec, ServiceIsTransactional, Transcript!Spec
=============================================================================
