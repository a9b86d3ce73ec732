--------------------------- MODULE BaseEvaluation ----------------------------
(***************************************************************************)
(* The standalone evaluation of a base checkpoint (eval_base): the modes   *)
(* asked for run in their order against one checkpoint; the samples, the   *)
(* CORE comparison and the report are published one after the other, the   *)
(* report last; then each becomes an event of the tracker's journal and is *)
(* sent to Weights & Biases.  A command fails or is killed anywhere, and   *)
(* is repeated in the same run directory.                                  *)
(***************************************************************************)
EXTENDS Integers, Sequences, SequencesExt

CONSTANTS BaseRequests,     \* [checkpoint, modes, limit]; limit 0 is None
          MaxBaseCommands   \* bound on the commands explored

ASSUME BaseEvaluationAssumption ==
  \A r \in BaseRequests :
    /\ r.modes \in Seq({"bpb", "sample", "core"}) /\ r.modes # <<>> /\ IsInjective(r.modes)
    /\ r.limit \in Nat /\ (r.limit > 0 => "core" \in ToSet(r.modes))

VARIABLES base,         \* the running command
          baseFiles,    \* metrics/: base_samples.md, core_comparison.md,
                        \*   base_eval.json, and the journal
          board,        \* the events that Weights & Biases received
          baseCommands  \* number of commands so far

baseVars == <<base, baseFiles, board, baseCommands>>

Nothing == <<>>
NoBase  == [at |-> "idle", checkpoint |-> 0, modes |-> <<>>, limit |-> 0,
            results |-> <<>>, wrote |-> FALSE, events |-> <<>>]
NoFiles == [samples |-> Nothing, core |-> Nothing, report |-> Nothing,
            journal |-> <<>>, killed |-> FALSE]

Asks(mode) == \E n \in DOMAIN base.modes : base.modes[n] = mode

EndBase(files) ==
  /\ base' = NoBase /\ baseFiles' = files
  /\ UNCHANGED <<board, baseCommands>>
Proceed(next, files) ==
  /\ base' = next /\ baseFiles' = files
  /\ UNCHANGED <<board, baseCommands>>

RunBase(request) ==
  /\ base.at = "idle" /\ baseCommands < MaxBaseCommands
  /\ base' = [NoBase EXCEPT !.at = "mode", !.checkpoint = request.checkpoint,
                            !.modes = request.modes, !.limit = request.limit]
  /\ baseCommands' = baseCommands + 1
  /\ UNCHANGED <<baseFiles, board>>

\* execute_base_evaluation_modes.  Bits per byte and CORE scores are those of
\* the checkpoint; samples carry the seconds they took, new in every command.
RunMode ==
  /\ base.at = "mode" /\ Len(base.results) < Len(base.modes)
  /\ LET mode == base.modes[Len(base.results) + 1]
         result == CASE mode = "bpb"    -> <<base.checkpoint>>
                     [] mode = "sample" -> <<base.checkpoint, baseCommands>>
                     [] mode = "core"   -> <<base.checkpoint, base.limit>>
     IN  Proceed([base EXCEPT !.results = Append(@, [mode |-> mode, value |-> result])],
                 baseFiles)

BasePayload == [checkpoint |-> base.checkpoint, limit |-> base.limit, results |-> base.results]
ResultOf(payload, mode) ==
  payload.results[CHOOSE n \in DOMAIN payload.results : payload.results[n].mode = mode].value

(***************************************************************************)
(* report_completed_base_evaluation                                        *)
(***************************************************************************)
\* Mutant: a report that is there is taken to be this one.
CompatibleReport_Any == TRUE

CompatibleReport == baseFiles.report \in {Nothing, BasePayload}

CheckReport ==
  /\ base.at = "mode" /\ Len(base.results) = Len(base.modes)
  /\ IF CompatibleReport THEN Proceed([base EXCEPT !.at = "samples"], baseFiles)
     ELSE EndBase(baseFiles)

WriteBaseSamples ==
  /\ base.at = "samples"
  /\ Proceed([base EXCEPT !.at = "comparison"],
             IF Asks("sample")
             THEN [baseFiles EXCEPT !.samples = ResultOf(BasePayload, "sample")] ELSE baseFiles)

\* A comparison that is there must be the same one.
WriteComparison ==
  /\ base.at = "comparison"
  /\ IF ~Asks("core") THEN Proceed([base EXCEPT !.at = "report"], baseFiles)
     ELSE IF baseFiles.core \notin {Nothing, ResultOf(BasePayload, "core")} THEN EndBase(baseFiles)
     ELSE Proceed([base EXCEPT !.at = "report", !.wrote = baseFiles.core = Nothing],
                  [baseFiles EXCEPT !.core = ResultOf(BasePayload, "core")])

EventsOf(payload) ==
  LET modes == {payload.results[n].mode : n \in DOMAIN payload.results}
      Event(kind) == <<[kind |-> kind, payload |-> payload]>>
  IN  Event("metrics") \o Event("base_eval.json")
        \o (IF "sample" \in modes THEN Event("base_samples.md") ELSE <<>>)
        \o (IF "core" \in modes THEN Event("core_comparison.md") ELSE <<>>)

PublishBase ==
  /\ base.at = "report"
  /\ Proceed([base EXCEPT !.at = "journal", !.events = EventsOf(BasePayload)],
             IF baseFiles.report = Nothing
             THEN [baseFiles EXCEPT !.report = BasePayload] ELSE baseFiles)

\* The report cannot be written: a comparison of this command goes, too.
FailPublish ==
  /\ base.at = "report" /\ baseFiles.report = Nothing
  /\ EndBase(IF base.wrote THEN [baseFiles EXCEPT !.core = Nothing] ELSE baseFiles)

(***************************************************************************)
(* RunTracker.log_once and log_artifact_once: the local journal first, and *)
(* nothing more for an event that it has.                                  *)
(***************************************************************************)
JournalBase ==
  /\ base.at = "journal" /\ base.events # <<>>
  /\ LET event == Head(base.events) IN
     IF event \in ToSet(baseFiles.journal)
     THEN Proceed([base EXCEPT !.events = Tail(@)], baseFiles)
     ELSE Proceed([base EXCEPT !.at = "send"], [baseFiles EXCEPT !.journal = Append(@, event)])

SendBase ==
  /\ base.at = "send"
  /\ board' = Append(board, Head(base.events))
  /\ base' = [base EXCEPT !.at = "journal", !.events = Tail(@)]
  /\ UNCHANGED <<baseFiles, baseCommands>>

FinishBase == base.at = "journal" /\ base.events = <<>> /\ EndBase(baseFiles)

\* An error where nothing is written or removed, and a kill.
FailBase == base.at \in {"mode", "samples", "comparison", "journal", "send"} /\ EndBase(baseFiles)
KillBase == base.at # "idle" /\ EndBase([baseFiles EXCEPT !.killed = TRUE])

BaseInit ==
  /\ base = NoBase /\ baseFiles = NoFiles /\ board = <<>> /\ baseCommands = 0

BaseNext ==
  \/ \E request \in BaseRequests : RunBase(request)
  \/ RunMode \/ CheckReport \/ WriteBaseSamples \/ WriteComparison
  \/ PublishBase \/ FailPublish \/ JournalBase \/ SendBase
  \/ FinishBase \/ FailBase \/ KillBase

BaseSpec == BaseInit /\ [][BaseNext]_baseVars

(***************************************************************************)
(* Properties.                                                             *)
(***************************************************************************)
\* Over any number of commands, failures and kills: the samples and the
\* comparison on disk are those of the report; a comparison without one has
\* seen a kill or belongs to the running command; the journal has the events
\* of that one report, in their order and each once; and Weights & Biases
\* has no others and none twice, though it may lack some.
BaseReportIsWhole ==
  LET report == baseFiles.report
      Has(mode) == \E n \in DOMAIN report.results : report.results[n].mode = mode
  IN  /\ report # Nothing =>
           /\ Has("sample") => baseFiles.samples = ResultOf(report, "sample")
           /\ Has("core") => baseFiles.core = ResultOf(report, "core")
           /\ IsPrefix(baseFiles.journal, EventsOf(report))
      /\ report = Nothing => baseFiles.journal = <<>>
      /\ baseFiles.core # Nothing /\ ~baseFiles.killed /\ report = Nothing => base.wrote
      /\ ToSet(board) \subseteq ToSet(baseFiles.journal) /\ IsInjective(board)
=============================================================================
