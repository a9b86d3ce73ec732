---------------------------- MODULE ChatSession ----------------------------
(***************************************************************************)
(* ChatSessionService of src/scratch_llm/web/service.py: one process, an   *)
(* asyncio loop whose handlers run without interruption between awaits,    *)
(* one worker thread per generation, one thread per checkpoint load.       *)
(* Requests (load, reset, generate, stop) and the shutdown arrive at any   *)
(* time; a request coroutine waiting for a load may be cancelled.          *)
(*                                                                         *)
(* Engines are named by the load that built them, turns by their lease.    *)
(***************************************************************************)
EXTENDS ChatEngineOps, FiniteSets

CONSTANTS
  MaxLoads,       \* bound on checkpoint loads in a behaviour
  MaxLeases,      \* bound on generations in a behaviour
  MaxTokens,      \* bound on token events of one generation (max_new_tokens)
  MaxResets,      \* bound on conversation resets in a behaviour
  Checkpoints,    \* catalog identities
  TrackerResults  \* what tracker.log may do; see RecordTurn

ASSUME ChatSessionAssumption ==
  /\ MaxLoads \in Nat /\ MaxLeases \in Nat /\ MaxTokens \in Nat /\ MaxResets \in Nat
  /\ TrackerResults \subseteq {"logged", "refused", "partial"}
  /\ 0 \notin Checkpoints

None == 0
Loads == 1 .. MaxLoads
Leases == 1 .. MaxLeases

VARIABLES
  status,      \* _status
  engine,      \* _engine: the load that built it, or None
  checkpoint,  \* _active_checkpoint_id
  lock,        \* holder of _mutation_lock: None, a load
  loads,       \* per load: its coroutine, its thread, its checkpoint
  engines,     \* per load: the engine it built
  lease,       \* _generation_lease
  leases,      \* per lease: worker thread, cancel event, outcome, delivered items
  callbacks,   \* the loop's FIFO of call_soon_threadsafe callbacks
  session,     \* identity and counters of the metrics and the tracking session
  records,     \* what reached the tracker's local JSONL file
  shutdown     \* progress of shutdown()

loadVars == <<checkpoint, lock, loads>>
vars == <<status, engine, checkpoint, lock, loads, engines, lease, leases,
          callbacks, session, records, shutdown>>

-----------------------------------------------------------------------------
LoadPcs == {"unused", "waiting", "cancelled", "done"}
ThreadStates == {"none", "running", "built", "raised"}
WorkerPcs == {"unused", "begin", "prompted", "loop", "got", "close", "rollback",
              "posted", "over"}
Outcomes == {"completed", "cancelled", "failed"}
Events == {"start", "token", "complete"}

TypeOK ==
  /\ status \in {"unloaded", "loading", "ready", "generating", "failed"}
  /\ engine \in Loads \cup {None}
  /\ checkpoint \in Checkpoints \cup {None}
  /\ lock \in Loads \cup {None}
  /\ loads \in [Loads -> [pc : LoadPcs, thread : ThreadStates,
                          ckpt : Checkpoints \cup {None}]]
  /\ engines \in [Loads -> Engine]
  /\ lease \in Leases \cup {None}
  /\ leases \in [Leases -> [pc : WorkerPcs, engine : Loads \cup {None},
                            session : Nat, cancel : BOOLEAN, appended : BOOLEAN,
                            stream : {"none", "created", "running"},
                            event : Events, tokens : Nat, outcome : Outcomes,
                            items : Seq(Events \cup Outcomes)]]
  /\ callbacks \in Seq([lease : Leases, item : Events \cup {"finish"}])
  /\ session \in [id : Nat, turns : Nat, tracked : Nat, trackedId : Nat]
  /\ records \in Seq([turn : Leases, session : Nat, count : Nat])
  /\ shutdown \in {"serving", "waitLease", "waitLock", "done"}

Init ==
  /\ status = "unloaded" /\ engine = None /\ checkpoint = None /\ lock = None
  /\ loads = [l \in Loads |-> [pc |-> "unused", thread |-> "none", ckpt |-> None]]
  /\ engines = [l \in Loads |-> NewEngine]
  /\ lease = None
  /\ leases = [g \in Leases |->
       [pc |-> "unused", engine |-> None, session |-> 0, cancel |-> FALSE,
        appended |-> FALSE, stream |-> "none", event |-> "start", tokens |-> 0,
        outcome |-> "failed", items |-> <<>>]]
  /\ callbacks = <<>>
  /\ session = [id |-> 0, turns |-> 0, tracked |-> 0, trackedId |-> 0]
  /\ records = <<>>
  /\ shutdown = "serving"

\* The status property: it asks the engine only when _status does not decide.
Status ==
  CASE status \in {"loading", "generating", "failed"} -> status
    [] status \notin {"loading", "generating", "failed"} /\ engine = None -> "unloaded"
    [] OTHER -> IF engines[engine].closed THEN "failed"
                ELSE IF engines[engine].active THEN "generating" ELSE "ready"

\* Mutant: a running generation is not busy.
Busy_LoadingOnly == Status = "loading"

Busy == Status \in {"loading", "generating"}

\* uvicorn runs the lifespan shutdown once the connections are drained, so no
\* request starts after it; requests already in flight may still be.
Accepting == shutdown = "serving"

\* Mutants: the identity is not rotated; the tracking session is forgotten.
NewSession_SameId == session' = [session EXCEPT !.turns = 0, !.tracked = 0]
NewSession_NoTracking == session' = [session EXCEPT !.id = @ + 1, !.turns = 0]

NewSession ==
  session' = [id |-> session.id + 1, turns |-> 0, tracked |-> 0,
              trackedId |-> session.id + 1]

\* _release_engine: close, and any exception is dropped.
Released(e) == IF CanClose(e) THEN CloseEngine(e) ELSE e

\* Mutant: the replaced engine is dropped without being closed.
ReleaseCurrent_Leaks == engines

\* The engines once the current one is released, if there is one.
ReleaseCurrent ==
  IF engine = None THEN engines ELSE [engines EXCEPT ![engine] = Released(@)]

-----------------------------------------------------------------------------
(* Checkpoint loading.                                                     *)

\* The status check, the lock and "loading" happen without an await: the lock is
\* only ever contended by shutdown, and status is "loading" while a load holds it.
LoadCheckpoint(l, c) ==
  /\ Accepting
  /\ loads[l].pc = "unused" /\ \A k \in 1 .. l - 1 : loads[k].pc # "unused"
  /\ ~Busy
  /\ lock = None
  /\ lock' = l
  /\ status' = "loading"
  /\ loads' = [loads EXCEPT ![l] = [pc |-> "waiting", thread |-> "running", ckpt |-> c]]
  /\ UNCHANGED <<engine, checkpoint, engines, lease, leases, callbacks, session,
                 records, shutdown>>

\* The factory thread returns an engine or raises.
LoadThread(l) ==
  /\ loads[l].thread = "running"
  /\ \E t \in {"built", "raised"} : loads' = [loads EXCEPT ![l].thread = t]
  /\ UNCHANGED <<status, engine, checkpoint, lock, engines, lease, leases,
                 callbacks, session, records, shutdown>>

\* The engine is built and passes _validate_replacement: swap, then release.
LoadSucceeds(l) ==
  /\ loads[l].pc = "waiting" /\ loads[l].thread = "built"
  /\ engine' = l
  /\ checkpoint' = loads[l].ckpt
  /\ status' = "ready"
  /\ NewSession
  /\ engines' = ReleaseCurrent
  /\ lock' = None
  /\ loads' = [loads EXCEPT ![l].pc = "done"]
  /\ UNCHANGED <<lease, leases, callbacks, records, shutdown>>

\* The factory raised, or the built engine is not a valid SFT session.
LoadFails(l) ==
  /\ loads[l].pc = "waiting" /\ loads[l].thread \in {"built", "raised"}
  /\ status' = IF engine # None THEN "ready" ELSE "failed"
  /\ engines' = IF loads[l].thread = "built"
                THEN [engines EXCEPT ![l] = Released(@)] ELSE engines
  /\ lock' = None
  /\ loads' = [loads EXCEPT ![l].pc = "done"]
  /\ UNCHANGED <<engine, checkpoint, lease, leases, callbacks, session, records,
                 shutdown>>

\* Mutant: the prior status is not restored.
LoadCancelled_StaysLoading(l) ==
  /\ loads[l].pc = "waiting"
  /\ lock' = None
  /\ loads' = [loads EXCEPT ![l].pc = "cancelled"]
  /\ UNCHANGED <<status, engine, checkpoint, engines, lease, leases, callbacks,
                 session, records, shutdown>>

\* The request coroutine is cancelled while it waits; the thread goes on.
LoadCancelled(l) ==
  /\ loads[l].pc = "waiting"
  /\ status' = IF engine # None THEN "ready" ELSE "unloaded"
  /\ lock' = None
  /\ loads' = [loads EXCEPT ![l].pc = "cancelled"]
  /\ UNCHANGED <<engine, checkpoint, engines, lease, leases, callbacks, session,
                 records, shutdown>>

\* Mutant: the callback dies of the exception of an abandoned load.
ReleaseCancelled_BuiltOnly(l) ==
  /\ loads[l].pc = "cancelled" /\ loads[l].thread = "built"
  /\ engines' = [engines EXCEPT ![l] = Released(@)]
  /\ loads' = [loads EXCEPT ![l].pc = "done"]
  /\ UNCHANGED <<status, engine, checkpoint, lock, lease, leases, callbacks,
                 session, records, shutdown>>

\* _release_cancelled_result, the done callback of the abandoned task.
ReleaseCancelled(l) ==
  /\ loads[l].pc = "cancelled" /\ loads[l].thread \in {"built", "raised"}
  /\ engines' = IF loads[l].thread = "built"
                THEN [engines EXCEPT ![l] = Released(@)] ELSE engines
  /\ loads' = [loads EXCEPT ![l].pc = "done"]
  /\ UNCHANGED <<status, engine, checkpoint, lock, lease, leases, callbacks,
                 session, records, shutdown>>

Reset ==
  /\ Accepting
  /\ session.id < MaxResets + MaxLoads
  /\ ~Busy /\ engine # None
  /\ Inactive(engines[engine])
  /\ engines' = [engines EXCEPT ![engine] = ResetEngine(@)]
  /\ status' = "ready"
  /\ NewSession
  /\ UNCHANGED <<engine, loadVars, lease, leases, callbacks, records, shutdown>>

-----------------------------------------------------------------------------
(* Generation: the request on the loop, the worker on its thread.          *)

StartGeneration(g) ==
  /\ Accepting
  /\ leases[g].pc = "unused" /\ \A k \in 1 .. g - 1 : leases[k].pc # "unused"
  /\ ~Busy /\ engine # None
  /\ lease = None /\ Status = "ready"
  /\ lease' = g
  /\ status' = "generating"
  /\ leases' = [leases EXCEPT ![g].pc = "begin", ![g].engine = engine,
                              ![g].session = session.id]
  /\ UNCHANGED <<engine, loadVars, engines, callbacks, session, records, shutdown>>

\* A stop request, a lost WebSocket, or shutdown sets the cancel event.
Cancel(g) ==
  /\ g = lease /\ ~leases[g].cancel
  /\ leases' = [leases EXCEPT ![g].cancel = TRUE]
  /\ UNCHANGED <<status, engine, loadVars, engines, lease, callbacks, session,
                 records, shutdown>>

\* Mutant: what the worker posts overtakes what it posted before.
WorkerStep_Overtakes(g, newEngine, newLease, posted) ==
  /\ engines' = [engines EXCEPT ![leases[g].engine] = newEngine]
  /\ leases' = [leases EXCEPT ![g] = newLease]
  /\ callbacks' = posted \o callbacks
  /\ UNCHANGED <<status, engine, loadVars, lease, session, records, shutdown>>

\* What a step of the worker thread may touch: its engine, its lease, the FIFO.
WorkerStep(g, newEngine, newLease, posted) ==
  /\ engines' = [engines EXCEPT ![leases[g].engine] = newEngine]
  /\ leases' = [leases EXCEPT ![g] = newLease]
  /\ callbacks' = callbacks \o posted
  /\ UNCHANGED <<status, engine, loadVars, lease, session, records, shutdown>>

Wind(w, outcome) == [w EXCEPT !.pc = "close", !.outcome = outcome]

\* append_user_message, unless cancelled; it may refuse the message.
WorkerBegin(g) ==
  LET w == leases[g]  e == engines[w.engine] IN
  /\ w.pc = "begin"
  /\ \/ w.cancel /\ WorkerStep(g, e, Wind(w, "cancelled"), <<>>)
     \/ ~w.cancel /\ CanAppend(e)
        /\ WorkerStep(g, AppendUser(e, g), [w EXCEPT !.pc = "prompted", !.appended = TRUE], <<>>)
     \/ ~w.cancel /\ WorkerStep(g, e, Wind(w, "failed"), <<>>)

\* generate_stream, unless cancelled.
WorkerPrompted(g) ==
  LET w == leases[g]  e == engines[w.engine] IN
  /\ w.pc = "prompted"
  /\ \/ w.cancel /\ WorkerStep(g, e, Wind(w, "cancelled"), <<>>)
     \/ ~w.cancel /\ CanGenerate(e)
        /\ WorkerStep(g, e, [w EXCEPT !.pc = "loop", !.stream = "created"], <<>>)
     \/ ~w.cancel /\ WorkerStep(g, e, Wind(w, "failed"), <<>>)

\* next() on the token stream: the start, a token, the completion or an exception.
WorkerNext(g) ==
  LET w == leases[g]  e == engines[w.engine]
      Got(ev) == [w EXCEPT !.pc = "got", !.event = ev, !.stream = "running"]
  IN
  /\ w.pc = "loop"
  /\ \/ w.cancel /\ WorkerStep(g, e, Wind(w, "cancelled"), <<>>)
     \/ ~w.cancel /\ w.stream = "created" /\ CanStart(e, g)
        /\ WorkerStep(g, StartStream(e), Got("start"), <<>>)
     \/ ~w.cancel /\ w.stream = "created" /\ ~CanStart(e, g)
        /\ WorkerStep(g, e, Wind(w, "failed"), <<>>)
     \/ ~w.cancel /\ w.stream = "running" /\ w.tokens < MaxTokens
        /\ WorkerStep(g, e, [Got("token") EXCEPT !.tokens = @ + 1], <<>>)
     \/ ~w.cancel /\ w.stream = "running" /\ CanComplete(e, g)
        /\ WorkerStep(g, CompleteStream(e, g), Got("complete"), <<>>)
     \/ ~w.cancel /\ w.stream = "running"
        /\ WorkerStep(g, FinishInterrupted(e, "failed"),
                      [Wind(w, "failed") EXCEPT !.stream = "none"], <<>>)

\* The cancel event is read again before the event is forwarded or accepted.
WorkerGot(g) ==
  LET w == leases[g]  e == engines[w.engine] IN
  /\ w.pc = "got"
  /\ \/ w.cancel /\ WorkerStep(g, e, Wind(w, "cancelled"), <<>>)
     \/ ~w.cancel /\ w.event = "complete" /\ WorkerStep(g, e, Wind(w, "completed"), <<>>)
     \/ ~w.cancel /\ w.event # "complete"
        /\ WorkerStep(g, e, [w EXCEPT !.pc = "loop"], <<[lease |-> g, item |-> w.event]>>)

\* The finally block: close the stream; a generation that completed has failed
\* when that raises ...
WorkerClose(g) ==
  LET w == leases[g]  e == engines[w.engine]
      closed == IF w.stream = "running" THEN FinishInterrupted(e, "cancelled") ELSE e
  IN
  /\ w.pc = "close"
  /\ \/ WorkerStep(g, closed, [w EXCEPT !.pc = "rollback", !.stream = "none"], <<>>)
     \/ w.outcome = "completed"
        /\ WorkerStep(g, closed, [w EXCEPT !.pc = "rollback", !.stream = "none",
                                          !.outcome = "failed"], <<>>)

\* Mutants: the completed turn of a late cancellation is not taken back; the
\* terminal callback is only posted on the error paths.
WorkerRollback_PendingOnly(g) ==
  LET w == leases[g]  e == engines[w.engine]
      post == <<[lease |-> g, item |-> "finish"]>>
      undo == w.appended /\ w.outcome # "completed" /\ CanRollback(e, FALSE)
  IN
  /\ w.pc = "rollback"
  /\ WorkerStep(g, IF undo THEN RollbackLastTurn(e, FALSE) ELSE e,
                [w EXCEPT !.pc = "posted"], post)

WorkerRollback_NoTerminal(g) ==
  LET w == leases[g]  e == engines[w.engine]
      undo == w.appended /\ w.outcome # "completed"
  IN
  /\ w.pc = "rollback"
  /\ WorkerStep(g, IF undo THEN RollbackLastTurn(e, TRUE) ELSE e,
                [w EXCEPT !.pc = "posted"],
                IF undo THEN <<[lease |-> g, item |-> "finish"]>> ELSE <<>>)

\* ... then take the turn back unless it completed, and post _finish_generation.
WorkerRollback(g) ==
  LET w == leases[g]  e == engines[w.engine]
      post == <<[lease |-> g, item |-> "finish"]>>
      undo == w.appended /\ w.outcome # "completed"
  IN
  /\ w.pc = "rollback"
  /\ \/ ~undo /\ WorkerStep(g, e, [w EXCEPT !.pc = "posted"], post)
     \/ undo /\ CanRollback(e, TRUE)
        /\ WorkerStep(g, RollbackLastTurn(e, TRUE), [w EXCEPT !.pc = "posted"], post)
     \/ undo /\ ~CanRollback(e, TRUE)
        /\ WorkerStep(g, e, [w EXCEPT !.pc = "posted", !.outcome = "failed"], post)

-----------------------------------------------------------------------------
(* Callbacks on the loop.                                                  *)

\* queue.put_nowait(event)
ForwardEvent ==
  /\ callbacks # <<>> /\ Head(callbacks).item # "finish"
  /\ callbacks' = Tail(callbacks)
  /\ leases' = [leases EXCEPT ![Head(callbacks).lease].items =
                  Append(@, Head(callbacks).item)]
  /\ UNCHANGED <<status, engine, loadVars, engines, lease, session, records, shutdown>>

\* Mutant: the record is written before the tracker validates it.
RecordTurn_WriteFirst(g, result) ==
  records' = Append(records, [turn |-> g, session |-> session.trackedId,
                              count |-> session.tracked + 1])

\* tracker.log of the composite tracker: "logged"; "refused": nothing was written;
\* "partial": the local JSONL tracker wrote the record, a later child raised.
RecordTurn(g, result) ==
  records' = IF result = "refused" THEN records
             ELSE Append(records, [turn |-> g, session |-> session.trackedId,
                                   count |-> session.tracked + 1])

\* _finish_generation: free the lease, track a completed turn (and take it back
\* when tracking fails), count it, and deliver the one terminal item.  Its own
\* get_state cannot fail: the worker is gone and the current engine is open.
FinishGeneration ==
  /\ callbacks # <<>> /\ Head(callbacks).item = "finish"
  /\ callbacks' = Tail(callbacks)
  /\ LET g == Head(callbacks).lease
         Deliver(o) == leases' = [leases EXCEPT ![g].pc = "over", ![g].outcome = o,
                                                ![g].items = Append(@, o)]
     IN
     /\ IF lease = g
        THEN lease' = None /\ status' = IF engine # None THEN "ready" ELSE "unloaded"
        ELSE UNCHANGED <<lease, status>>
     /\ \/ /\ leases[g].outcome = "completed" /\ engine # None
           /\ \E result \in TrackerResults :
                /\ RecordTurn(g, result)
                /\ IF result = "logged"
                   THEN /\ session' = [session EXCEPT !.turns = @ + 1, !.tracked = @ + 1]
                        /\ Deliver("completed")
                        /\ UNCHANGED engines
                   ELSE /\ engines' = IF CanRollback(engines[engine], TRUE)
                                      THEN [engines EXCEPT ![engine] = RollbackLastTurn(@, TRUE)]
                                      ELSE engines
                        /\ Deliver("failed")
                        /\ UNCHANGED session
        \/ /\ leases[g].outcome = "completed" /\ engine = None
           /\ session' = [session EXCEPT !.turns = @ + 1]
           /\ Deliver("completed")
           /\ UNCHANGED <<engines, records>>
        \/ /\ leases[g].outcome # "completed"
           /\ Deliver(leases[g].outcome)
           /\ UNCHANGED <<engines, session, records>>
  /\ UNCHANGED <<engine, loadVars, shutdown>>

-----------------------------------------------------------------------------
(* Shutdown: cancel and await the lease, then take the lock and release.   *)

ShutdownBegin ==
  /\ shutdown = "serving"
  /\ IF lease # None
     THEN shutdown' = "waitLease" /\ leases' = [leases EXCEPT ![lease].cancel = TRUE]
     ELSE shutdown' = "waitLock" /\ UNCHANGED leases
  /\ UNCHANGED <<status, engine, loadVars, engines, lease, callbacks, session, records>>

ShutdownAwaited ==
  /\ shutdown = "waitLease" /\ \A g \in Leases : leases[g].pc \in {"unused", "over"}
  /\ shutdown' = "waitLock"
  /\ UNCHANGED <<status, engine, loadVars, engines, lease, leases, callbacks,
                 session, records>>

\* Mutant: the status after shutdown is not a service status.
ShutdownRelease_BadStatus ==
  /\ shutdown = "waitLock" /\ lock = None
  /\ shutdown' = "done"
  /\ engine' = None /\ checkpoint' = None /\ status' = "closed"
  /\ engines' = ReleaseCurrent
  /\ UNCHANGED <<lock, loads, lease, leases, callbacks, session, records>>

ShutdownRelease ==
  /\ shutdown = "waitLock" /\ lock = None
  /\ shutdown' = "done"
  /\ engine' = None /\ checkpoint' = None /\ status' = "unloaded"
  /\ engines' = ReleaseCurrent
  /\ UNCHANGED <<lock, loads, lease, leases, callbacks, session, records>>

-----------------------------------------------------------------------------
Worker(g) ==
  \/ WorkerBegin(g) \/ WorkerPrompted(g) \/ WorkerNext(g) \/ WorkerGot(g)
  \/ WorkerClose(g) \/ WorkerRollback(g)

LoadSettles(l) == LoadSucceeds(l) \/ LoadFails(l)

Next ==
  \/ \E l \in Loads :
       \/ \E c \in Checkpoints : LoadCheckpoint(l, c)
       \/ LoadThread(l) \/ LoadSettles(l) \/ LoadCancelled(l) \/ ReleaseCancelled(l)
  \/ Reset
  \/ \E g \in Leases : StartGeneration(g) \/ Cancel(g) \/ Worker(g)
  \/ ForwardEvent \/ FinishGeneration
  \/ ShutdownBegin \/ ShutdownAwaited \/ ShutdownRelease

\* The scheduler runs started threads and the loop runs its ready callbacks and
\* resumable coroutines; no request, stop, reset or shutdown need ever come.
Fairness ==
  /\ \A l \in Loads : WF_vars(LoadThread(l)) /\ WF_vars(LoadSettles(l))
                      /\ WF_vars(ReleaseCancelled(l))
  /\ \A g \in Leases : WF_vars(Worker(g))
  /\ WF_vars(ForwardEvent) /\ WF_vars(FinishGeneration)
  /\ WF_vars(ShutdownAwaited) /\ WF_vars(ShutdownRelease)

SafeSpec == Init /\ [][Next]_vars
Spec == SafeSpec /\ Fairness

-----------------------------------------------------------------------------
Live(g) == leases[g].pc \in WorkerPcs \ {"unused", "over"}
Idle == lease = None /\ lock = None

\* The turns of the current session whose clients were told "completed".
AnsweredTurns ==
  {g \in Leases : /\ leases[g].pc = "over" /\ leases[g].outcome = "completed"
                  /\ leases[g].session = session.id}

\* A worker thread has its engine to itself: while it lives, its lease is the
\* service's only one, the service says "generating", its engine is the current
\* one and is not closed under it; so no load, reset, close or second worker
\* can interleave with it (service.py:485-490, 540, 664-676, 435-445).
EngineExclusive ==
  \A g \in Leases : Live(g) =>
    /\ lease = g /\ status = "generating"
    /\ leases[g].engine = engine /\ engine # None /\ ~engines[engine].closed
    /\ leases[g].session = session.id

\* The public status tells the truth: "generating" exactly while a lease is held,
\* "loading" exactly while a load holds the lock, and "ready" only with an open,
\* inactive engine whose checkpoint is the advertised one.
StatusTruthful ==
  /\ Status = "generating" <=> lease # None
  /\ Status = "loading" <=> lock # None
  /\ Status = "ready" => engine # None /\ Inactive(engines[engine])
  /\ checkpoint = IF engine = None THEN None ELSE loads[engine].ckpt

\* What the clients were told is what the conversation holds: between operations
\* the history consists of exactly the turns reported completed in this session,
\* in order, with no pending message left behind by a cancelled or failed one.
TranscriptMatchesOutcomes ==
  Idle /\ engine # None =>
    LET turns == CommittedTurns(engines[engine]) IN
    /\ engines[engine].pending = NoPrompt
    /\ {turns[i] : i \in DOMAIN turns} = AnsweredTurns
    /\ \A i, j \in DOMAIN turns : i < j => turns[i] < turns[j]

\* The session counters and the tracking session agree with the history, and a
\* load or a reset rotates all of them together.
CountersAgree ==
  /\ session.turns = session.tracked /\ session.trackedId = session.id
  /\ session.turns = Cardinality(AnsweredTurns)

\* No engine is lost: a built engine that is still open is the current one, is
\* about to be swapped in, or belongs to a cancelled load that will release it.
NoEngineLeak ==
  \A l \in Loads : loads[l].thread = "built" /\ ~engines[l].closed =>
    l = engine \/ loads[l].pc \in {"waiting", "cancelled"}

\* Every open engine is accounted for: a worker owns the current one, and
\* whatever else is open is on its way to be swapped in or released.
EnginesAccounted == EngineExclusive /\ NoEngineLeak

\* A consumer sees the start event first, then tokens, and exactly one terminal
\* item, last; every event of the lease is delivered before its terminal.
StreamWellFormed ==
  \A g \in Leases :
    LET s == leases[g].items IN
    /\ \A i \in DOMAIN s :
         /\ s[i] = "start" <=> (i = 1 /\ s[i] \in Events)
         /\ s[i] \in Outcomes <=> (i = Len(s) /\ leases[g].pc = "over")
    /\ leases[g].pc = "over" => \A i \in DOMAIN callbacks : callbacks[i].lease # g

\* Only completed turns are tracked: every record is of a turn that is reported
\* completed, is the only record of that turn, and carries its place in the session.
OnlyCompletedTracked ==
  \A i, j \in DOMAIN records :
    /\ leases[records[i].turn].outcome = "completed"
    /\ records[i].session = leases[records[i].turn].session
    /\ records[i].turn = records[j].turn => i = j
    /\ records[i].session = records[j].session /\ i < j => records[i].count < records[j].count

\* The history, the counters and the tracked records tell of the same turns:
\* those whose clients were told "completed".
HistoryIsTruthful == TranscriptMatchesOutcomes /\ CountersAgree /\ OnlyCompletedTracked

\* README.md:123-124: "cancelled, failed, and partial turns emit no content".
FailedTurnsEmitNothing ==
  \A i \in DOMAIN records :
    leases[records[i].turn].pc = "over" => leases[records[i].turn].outcome = "completed"

\* A load that fails or is cancelled leaves the session as it was: the current
\* engine changes only when a load succeeds (to that load's open engine, with a
\* new session) or at shutdown.
SwapIsAtomic ==
  [][engine' # engine =>
       \/ /\ engine' # None /\ engine' = lock /\ loads[engine'].thread = "built"
          /\ ~engines'[engine'].closed /\ session'.id # session.id
          /\ engine # None => engines'[engine].closed
       \/ shutdown' = "done"]_vars

\* The history as the clients may rely on it: without the turn in flight, which is
\* the last one if the worker has completed it.
SettledTurns ==
  LET turns == CommittedTurns(engines[engine])
      inFlight == lease # None /\ turns # <<>> /\ turns[Len(turns)] = lease
  IN  IF engine = None THEN <<>> ELSE IF inFlight THEN DropLast(turns, 1) ELSE turns

Transcript ==
  INSTANCE ChatTranscript WITH
    Turns <- Leases, NoTurn <- None, transcript <- SettledTurns, open <- lease

\* The service keeps the promise of its engine across threads: whatever the
\* worker does to the engine, the conversation changes only when a lease ends,
\* by its whole turn or not at all, or is cleared by a load, reset or shutdown.
ServiceIsTransactional == Transcript!Spec

\* Every accepted generation ends: its client gets a terminal item.
EveryLeaseEnds == \A g \in Leases : leases[g].pc = "begin" ~> leases[g].pc = "over"

\* A load never wedges the service, and an abandoned load's engine is released.
LoadsSettle ==
  \A l \in Loads : loads[l].pc \in {"waiting", "cancelled"} ~> loads[l].pc = "done"

\* Whatever the service has accepted comes to an end.
OperationsSettle == EveryLeaseEnds /\ LoadsSettle

\* shutdown() terminates, whatever is in flight, and leaves no engine open.
ShutdownReleases ==
  shutdown # "serving" ~> shutdown = "done" /\ \A l \in Loads :
    loads[l].thread = "built" => engines[l].closed
=============================================================================
