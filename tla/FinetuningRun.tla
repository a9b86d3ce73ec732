--------------------------- MODULE FinetuningRun ---------------------------
(***************************************************************************)
(* Supervised finetuning (training/sft.py, evaluation/sft_tracking.py): a  *)
(* process starts from a base checkpoint or resumes one of its own, trains *)
(* to the configured step, validates it, saves last.pt for good and only   *)
(* then generates samples and publishes the evaluation.  Unlike            *)
(* pretraining a failed validation ends the run.  The process can raise or *)
(* be killed between any two durable writes.                               *)
(*                                                                         *)
(* A model is the base it came from and the batches applied to it, by      *)
(* position; how it validates is an unknown function of the step.  The     *)
(* attempts that a gradient scaler skips are those of TrainingRun, whose   *)
(* loop this is.                                                           *)
(***************************************************************************)
EXTENDS Integers, Sequences, FiniteSets, FiniteSetsExt

CONSTANTS SftConfigs,     \* configurations, up to run.name and output_dir
          SftBases,       \* contents of base checkpoints
          SftScores,      \* assistant BPB by step, lower is better
          MaxSftCommands  \* bound on the commands explored

ASSUME FinetuningAssumption ==
  /\ SftConfigs \subseteq [target : Nat \ {0}, log : Nat \ {0}, eval : Nat \ {0},
                           save : Nat \ {0}]
  /\ \A c \in SftConfigs, s \in SftScores :
       1 .. c.target \subseteq DOMAIN s /\ \A i \in DOMAIN s : s[i] \in Nat
  /\ MaxSftCommands \in Nat

VARIABLES score,     \* the score of each step
          folder,    \* the run directory
          shelf,     \* checkpoints in directories of earlier runs
          tuning,    \* the running process
          sftCalls   \* number of commands so far

finetuningVars == <<score, folder, shelf, tuning, sftCalls>>

(***************************************************************************)
(* Checkpoints and directories.                                            *)
(***************************************************************************)
Unscored   == [step |-> 0, current |-> 0, minimum |-> 0]
Untuned(b) == [base |-> b, step |-> 0, fed |-> <<>>, val |-> Unscored]
NoSource   == [config |-> [target |-> 0, log |-> 0, eval |-> 0, save |-> 0],
               state |-> Untuned(0)]

EmptyFolder ==
  [config     |-> NoSource.config,  \* config.yaml
   metric     |-> 0,           \* the last step in metrics.jsonl,
   torn       |-> FALSE,       \*   whether its last line is incomplete,
   registered |-> {},          \*   and its artifact records
   periodic   |-> {},          \* checkpoints/step_*.pt
   best       |-> NoSource,    \* checkpoints/best.pt
   last       |-> NoSource,    \* checkpoints/last.pt
   samples    |-> NoSource,    \* the checkpoint sft_samples.md is of,
   report     |-> NoSource,    \*   and sft_eval.json,
   reported   |-> Unscored,    \*   with the validation it reports
   foreign    |-> FALSE]       \* history: resumed a checkpoint of another run, or
                               \*   one whose validation metrics.jsonl has not

Saved(f) == (f.periodic \cup {f.best, f.last}) \ {NoSource}

Parked == [at |-> "idle", config |-> NoSource.config, source |-> NoSource,
           state |-> Untuned(0), final |-> FALSE]

Due(n)    == tuning.state.step % n = 0
AtTarget  == tuning.state.step = tuning.config.target
Snap(s)   == [config |-> tuning.config, state |-> s]

Put(f, next) ==
  /\ folder' = f
  /\ tuning' = [tuning EXCEPT !.at = next]
  /\ UNCHANGED <<score, shelf, sftCalls>>

\* The tracker appends a record and the process goes on.
Registering(role, next) ==
  Put([folder EXCEPT !.registered = @ \cup {<<role, tuning.state.step>>}], next)

Leave(f) ==
  /\ folder' = f /\ tuning' = Parked
  /\ UNCHANGED <<score, shelf, sftCalls>>

(***************************************************************************)
(* The command: in the directory of the earlier ones or, when that has     *)
(* another configuration or is left behind, in a new one.                  *)
(***************************************************************************)
Finetune(config, source, anew) ==
  /\ tuning.at = "idle" /\ sftCalls < MaxSftCommands
  /\ ~anew => folder.config \in {NoSource.config, config} /\ ~folder.torn
  /\ tuning' = [Parked EXCEPT !.at = "check", !.config = config, !.source = source]
  /\ shelf' = IF anew THEN shelf \cup Saved(folder) ELSE shelf
  /\ folder' = [IF anew THEN EmptyFolder ELSE folder EXCEPT !.config = config]
  /\ sftCalls' = sftCalls + 1
  /\ UNCHANGED score

\* _validate_existing_outputs, for a fresh run and for a resumption.
NoSftOutputs ==
  /\ Saved(folder) = {} /\ folder.metric = 0
  /\ {folder.samples, folder.report} = {NoSource}
NothingNewer(step) == folder.metric <= step /\ folder.last.state.step <= step

\* _initialize_runtime and _restore_exact_continuation of a checkpoint of
\* stage "sft"; a continuation that cannot be restored ends the run.
ResumeSft ==
  /\ tuning.at = "check" /\ tuning.source # NoSource
  /\ tuning.source.config = tuning.config
  /\ tuning.source.state.step < tuning.config.target
  /\ NothingNewer(tuning.source.state.step)
  /\ folder' = [folder EXCEPT !.foreign =
                  \/ @ \/ tuning.source \notin Saved(folder)
                  \/ tuning.source.state.val.step > folder.metric]
  /\ tuning' = [tuning EXCEPT !.at = "train", !.state = tuning.source.state]
  /\ UNCHANGED <<score, shelf, sftCalls>>

StartSft(base) ==
  /\ tuning.at = "check" /\ tuning.source = NoSource
  /\ NoSftOutputs
  /\ tuning' = [tuning EXCEPT !.at = "train", !.state = Untuned(base)]
  /\ UNCHANGED <<score, folder, shelf, sftCalls>>

(***************************************************************************)
(* run_training_steps with _SFTCheckpointLifecycle.on_step.                *)
(***************************************************************************)
AfterStep == IF Due(tuning.config.eval) THEN "validate" ELSE "save?"

TrainStep ==
  /\ tuning.at = "train" /\ ~AtTarget
  /\ tuning' = [tuning EXCEPT !.at = "log?", !.state.step = @ + 1,
                              !.state.fed = Append(@, Len(@) + 1)]
  /\ UNCHANGED <<score, folder, shelf, sftCalls>>

LogStep ==
  /\ tuning.at = "log?"
  /\ Put(IF Due(tuning.config.log) THEN [folder EXCEPT !.metric = tuning.state.step]
         ELSE folder, AfterStep)

\* advance_sft_validation_state
Advanced ==
  LET current == score[tuning.state.step]  old == tuning.state.val
  IN  [step |-> tuning.state.step, current |-> current,
       minimum |-> IF old = Unscored \/ current < old.minimum THEN current
                   ELSE old.minimum]
Better == tuning.state.val = Unscored \/ Advanced.current < tuning.state.val.minimum

Validate ==
  /\ tuning.at = "validate"
  /\ IF Better THEN Put(folder, "best")
     ELSE /\ tuning' = [tuning EXCEPT !.at = "track", !.state.val = Advanced]
          /\ UNCHANGED <<score, folder, shelf, sftCalls>>

SaveSftBest ==
  /\ tuning.at = "best"
  /\ Put([folder EXCEPT !.best = Snap([tuning.state EXCEPT !.val = Advanced])], "best!")

\* The validation state advances when best.pt has been registered.
RegisterSftBest ==
  /\ tuning.at = "best!"
  /\ folder' = [folder EXCEPT !.registered = @ \cup {<<"best", tuning.state.step>>}]
  /\ tuning' = [tuning EXCEPT !.at = "track", !.state.val = Advanced]
  /\ UNCHANGED <<score, shelf, sftCalls>>

TrackSftValidation ==
  /\ tuning.at = "track"
  /\ Put([folder EXCEPT !.metric = tuning.state.step],
         IF tuning.final THEN "last" ELSE "save?")

SaveSftPeriodic ==
  /\ tuning.at = "save?"
  /\ IF Due(tuning.config.save)
     THEN Put([folder EXCEPT !.periodic =
                 {c \in @ : c.state.step # tuning.state.step} \cup {Snap(tuning.state)}],
              "periodic!")
     ELSE Put(folder, "train")

RegisterSftPeriodic == tuning.at = "periodic!" /\ Registering("periodic", "last")

SaveSftLatest ==
  /\ tuning.at = "last"
  /\ Put([folder EXCEPT !.last = Snap(tuning.state)], "last!")

\* Registered once for a step, although a run that saves its final step
\* saves it again.
RegisterSftLatest ==
  /\ tuning.at = "last!"
  /\ Registering("latest", IF tuning.final THEN "sample" ELSE "train")

\* Mutant: the final step counts as validated when any step has been.
FinalizeSft_AnyValidation ==
  /\ tuning.at = "train" /\ AtTarget
  /\ tuning' = [tuning EXCEPT !.final = TRUE,
       !.at = IF tuning.state.val = Unscored THEN "validate" ELSE "last"]
  /\ UNCHANGED <<score, folder, shelf, sftCalls>>

\* finalize: validate the final step unless that has been done.
FinalizeSft ==
  /\ tuning.at = "train" /\ AtTarget
  /\ tuning' = [tuning EXCEPT !.final = TRUE,
       !.at = IF tuning.state.val.step # tuning.state.step THEN "validate" ELSE "last"]
  /\ UNCHANGED <<score, folder, shelf, sftCalls>>

(***************************************************************************)
(* report_completed_sft_evaluation: samples of last.pt, then the report,   *)
(* then both artifact records.                                             *)
(***************************************************************************)
WriteSamples ==
  /\ tuning.at = "sample"
  /\ Put([folder EXCEPT !.samples = folder.last], "report")
WriteReport ==
  /\ tuning.at = "report"
  /\ Put([folder EXCEPT !.report = folder.last, !.reported = tuning.state.val], "report!")
RegisterReport  == tuning.at = "report!"  /\ Registering("report", "samples!")
RegisterSamples == tuning.at = "samples!" /\ Registering("samples", "done")

FinishSft == tuning.at = "done" /\ Leave(folder)

\* The guards of `check`, a validation, a sample or a write fails, or the
\* process is killed; an append may leave an incomplete line behind.
AppendingAt == {"log?", "track", "best!", "periodic!", "last!", "report!", "samples!"}
StopSft ==
  /\ tuning.at # "idle"
  /\ \E torn \in {FALSE, tuning.at \in AppendingAt} :
       Leave([folder EXCEPT !.torn = torn])

FinetuningInit ==
  /\ score \in SftScores
  /\ folder = EmptyFolder /\ shelf = {} /\ tuning = Parked /\ sftCalls = 0

FinetuningNext ==
  \/ \E config \in SftConfigs, source \in {NoSource} \cup Saved(folder) \cup shelf,
        anew \in BOOLEAN : Finetune(config, source, anew)
  \/ ResumeSft \/ \E base \in SftBases : StartSft(base)
  \/ TrainStep \/ LogStep \/ Validate \/ SaveSftBest \/ RegisterSftBest
  \/ TrackSftValidation \/ SaveSftPeriodic \/ RegisterSftPeriodic
  \/ SaveSftLatest \/ RegisterSftLatest \/ FinalizeSft
  \/ WriteSamples \/ WriteReport \/ RegisterReport \/ RegisterSamples
  \/ FinishSft \/ StopSft

FinetuningSpec == FinetuningInit /\ [][FinetuningNext]_finetuningVars

(***************************************************************************)
(* Properties.                                                             *)
(***************************************************************************)
\* What an uninterrupted run has validated when it reaches a step, the last
\* step being validated in any case.
ValidatedBy(config, step) ==
  {s \in 1 .. step : s % config.eval = 0 \/ s = config.target}
ValidationOf(steps) ==
  IF steps = {} THEN Unscored
  ELSE [step |-> Max(steps), current |-> score[Max(steps)],
        minimum |-> Min({score[s] : s \in steps})]

\* However often the run stops and is resumed, here or in a new directory,
\* a checkpoint holds what an uninterrupted run has at that step: batches,
\* validation minimum and all.
CheckpointsAreExact ==
  \A c \in Saved(folder) \cup shelf :
    LET full == ValidatedBy(c.config, c.state.step) IN
    /\ c.state.fed = [i \in 1 .. c.state.step |-> i]
    /\ \/ c.state.val = ValidationOf(full)
       \/ /\ c.state.step % c.config.eval # 0
          /\ c.state.val = ValidationOf(full \ {c.state.step})

\* A published evaluation is of the last.pt beside it, which is final, has
\* been validated itself and is never replaced; best.pt is the first of the
\* steps that scored best, with the same exception as in ListedIsSaved.
ReportIsFinal ==
  folder.report # NoSource =>
    LET steps == ValidatedBy(folder.config, folder.config.target) IN
    /\ folder.report = folder.last /\ folder.samples = folder.last
    /\ folder.last.state.step = folder.config.target
    /\ folder.reported = ValidationOf(steps)
    /\ folder.metric = folder.config.target
    /\ ~folder.foreign =>
         folder.best.state.step = Min({s \in steps : \A r \in steps : score[s] <= score[r]})

\* What the tracker lists is in the directory, at that step or a later one.  A
\* best.pt that was resumed before metrics.jsonl had its validation is the
\* exception: metrics.jsonl lets an older checkpoint resume after it, and that
\* run installs an earlier best.pt.
ListedIsSaved ==
  \A e \in folder.registered :
    CASE e[1] = "periodic" -> \E c \in folder.periodic : c.state.step = e[2]
      [] e[1] = "best"     -> folder.foreign \/ folder.best.state.step >= e[2]
      [] e[1] = "latest"   -> folder.last.state.step >= e[2]
      [] OTHER             -> folder.report.state.step = e[2]

\* The properties of a finetuning run and its evaluation together.
FinetuningIsExact == CheckpointsAreExact /\ ReportIsFinal /\ ListedIsSaved
=============================================================================
