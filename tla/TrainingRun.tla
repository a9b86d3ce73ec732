---------------------------- MODULE TrainingRun ----------------------------
(***************************************************************************)
(* Pretraining into run directories (training/pretraining.py, loop.py,     *)
(* checkpoint.py, best_checkpoint.py, tracking.py): one process at a time  *)
(* opens the tracker of a run directory, starts or resumes, and trains to  *)
(* the configured step, leaving metrics, a summary and checkpoints behind. *)
(* It can raise or be killed between any two durable writes, and the next  *)
(* command finds whatever it left.                                         *)
(*                                                                         *)
(* A batch is its position in the loader's stream; a model is the sequence *)
(* of positions the optimizer applied to it, which is all that exact       *)
(* resumption is about.  Whether the GradScaler skips a position and how   *)
(* well a step validates are fixed, unknown functions of the run's seed.   *)
(***************************************************************************)
EXTENDS Integers, Sequences, FiniteSets

CONSTANTS Runs,         \* run directories (run.output_dir / run.name)
          NoRun,        \* none of them
          Configs,      \* configurations, up to run.name and run.output_dir
          Overflows,    \* sets of positions whose optimizer attempt is skipped
          ScoreCurves,  \* validation scores (BPB, lower is better) by step
          SkipLimit,    \* consecutive skipped attempts that fail a run (100)
          MaxPosition,  \* bound on the loader positions explored
          MaxCommands   \* bound on the commands explored; one more may evaluate
                        \* a directory that has been evaluated before

ASSUME RunsAssumption == NoRun \notin Runs
ASSUME ConfigsAssumption ==
  Configs \subseteq [target : Nat \ {0}, log : Nat \ {0}, eval : Nat \ {0},
                     save : Nat \ {0}]
ASSUME OracleAssumption ==
  /\ Overflows \subseteq SUBSET (1 .. MaxPosition)
  /\ ScoreCurves \subseteq [1 .. MaxPosition -> Nat]
ASSUME BoundsAssumption ==
  SkipLimit \in Nat \ {0} /\ MaxPosition \in Nat \ {0} /\ MaxCommands \in Nat

VARIABLES overflow,   \* the positions this seed's scaler skips
          bpb,        \* the score of each step, if it is validated
          dirs,       \* the durable contents of each run directory
          pc,         \* where the running process is, "idle" without one
          job,        \* its request
          live,       \* its model, loader position and validation state
          skipped,    \* consecutive skipped attempts
          reply,      \* how the last command ended
          commands    \* number of commands so far

vars == <<overflow, bpb, dirs, pc, job, live, skipped, reply, commands>>
oracles == <<overflow, bpb>>

(***************************************************************************)
(* Checkpoints.  Step 0 stands for "no validation yet" and "no file".      *)
(***************************************************************************)
NoValidation == [step |-> 0, current |-> 0, minimum |-> 0]
NoConfig     == [target |-> 0, log |-> 0, eval |-> 0, save |-> 0]
Untrained    == [step |-> 0, pos |-> 0, applied |-> <<>>, val |-> NoValidation]

\* A checkpoint names the run and configuration it was saved under; `exact`
\* says that it carries continuation and precision state (formats 3 and later).
Checkpoint(state, config, run) ==
  [state |-> state, config |-> config, run |-> run, exact |-> TRUE]
NoCheckpoint == Checkpoint(Untrained, NoConfig, NoRun)

\* A format-1 or -2 file of an earlier release: one step and no continuation.
Legacy(config) ==
  [state |-> [step |-> 1, pos |-> 0, applied |-> <<1>>, val |-> NoValidation],
   config |-> config, run |-> NoRun, exact |-> FALSE]

(***************************************************************************)
(* Run directories.                                                        *)
(***************************************************************************)
NewDirectory ==
  [config    |-> NoConfig,      \* config.yaml, and metrics.jsonl's first line
   metrics   |-> <<>>,          \* metrics.jsonl: the metrics records,
   events    |-> {},            \*   the checkpoint registrations,
   torn      |-> FALSE,         \*   and whether the last line is incomplete
   summary   |-> 0,             \* metrics/summary.json: latest step
   status    |-> "none",        \*   and lifecycle status
   periodic  |-> {},            \* checkpoints/step_*.pt
   best      |-> NoCheckpoint,  \* checkpoints/best.pt
   last      |-> NoCheckpoint,  \* checkpoints/last.pt
   evaluated |-> 0,             \* the step reported by metrics/base_eval.json
   foreign   |-> FALSE]         \* history: resumed another run's checkpoint

Installed(d) == (d.periodic \cup {d.best, d.last}) \ {NoCheckpoint}

Stepless == 0  \* metrics of a finished evaluation are logged without a step
Record(kind, step) == [kind |-> kind, step |-> step]
Event(role, step)  == [role |-> role, step |-> step]

(***************************************************************************)
(* Requests.                                                               *)
(***************************************************************************)
Job(kind, run, config, source, nonExact) ==
  [kind |-> kind, run |-> run, config |-> config, source |-> source,
   nonExact |-> nonExact]
NoJob == Job("none", NoRun, NoConfig, NoCheckpoint, FALSE)

Jobs(r, c) ==
  {Job(kind, r, c, NoCheckpoint, FALSE) : kind \in {"dry", "fresh"}}
  \cup {Job("resume", r, c, s, FALSE) : s \in UNION {Installed(dirs[q]) : q \in Runs}}
  \cup {Job("resume", r, c, Legacy(c), nonExact) : nonExact \in BOOLEAN}
  \cup {Job("eval", r, c, s, FALSE) : s \in Installed(dirs[r])}

Directory == dirs[job.run]
AtEvery(n) == live.step % n = 0

\* The running process writes `d` to its run directory and goes to `next`.
Write(d, next) ==
  /\ dirs' = [dirs EXCEPT ![job.run] = d]
  /\ pc' = next
  /\ UNCHANGED <<oracles, job, reply, commands>>

\* The process ends, leaving `d`.
End(d, verdict) ==
  /\ dirs' = [dirs EXCEPT ![job.run] = d]
  /\ pc' = "idle" /\ job' = NoJob /\ live' = Untrained /\ skipped' = 0
  /\ reply' = verdict
  /\ UNCHANGED <<oracles, commands>>

(***************************************************************************)
(* Opening a run: prepare_run installs config.yaml and build_tracker opens *)
(* metrics.jsonl and the summary.  A conflict ends the command before the  *)
(* tracker owns the summary; a dry run closes the tracker again.           *)
(***************************************************************************)
Within(request) ==
  \/ commands < MaxCommands
  \/ /\ commands = MaxCommands /\ request.kind = "eval"
     /\ dirs[request.run].evaluated # 0

Command(request) ==
  /\ pc = "idle" /\ Within(request)
  /\ pc' = "open" /\ job' = request /\ reply' = "none"
  /\ commands' = commands + 1
  /\ UNCHANGED <<oracles, dirs, live, skipped>>

CanOpen(d) == d.config \in {NoConfig, job.config} /\ ~d.torn

OpenTracker ==
  /\ pc = "open" /\ CanOpen(Directory)
  /\ Write([Directory EXCEPT !.config = job.config, !.status = "running"],
           CASE job.kind = "dry"  -> "finish"
             [] job.kind = "eval" -> "report"
             [] OTHER             -> "check")
  /\ UNCHANGED <<live, skipped>>

RefuseToOpen ==
  /\ pc = "open" /\ ~CanOpen(Directory)
  /\ End(Directory, "refused")

(***************************************************************************)
(* _initialize_training_runtime: whether training may start here, and from *)
(* what state.                                                             *)
(***************************************************************************)
NoOutputs(d) == Installed(d) = {} /\ d.metrics = <<>>

\* Mutants: only the first record is compared; last.pt is not looked at; a run
\* of another name has another configuration.
MetricsNotNewer_First(d, step) ==
  \A i \in DOMAIN d.metrics : i = 1 => d.metrics[i].step \in 1 .. step
LastNotNewer_Unchecked(d, step) == TRUE
ConfigMatches_SameRun(checkpoint) ==
  checkpoint.config = job.config /\ checkpoint.run = job.run

\* _validate_existing_outputs: nothing here is newer than the checkpoint.  A
\* stepless record makes the metrics file invalid.
MetricsNotNewer(d, step) ==
  \A i \in DOMAIN d.metrics : d.metrics[i].step \in 1 .. step
LastNotNewer(d, step) == d.last.state.step <= step

PrecisionMatches(checkpoint) == checkpoint.exact
ContinuationAccepted(checkpoint) == checkpoint.exact \/ job.nonExact
ConfigMatches(checkpoint) == checkpoint.config = job.config

MayResume(d, checkpoint) ==
  /\ PrecisionMatches(checkpoint)
  /\ ContinuationAccepted(checkpoint)
  /\ ConfigMatches(checkpoint)
  /\ checkpoint.state.step < job.config.target
  /\ MetricsNotNewer(d, checkpoint.state.step)
  /\ LastNotNewer(d, checkpoint.state.step)

MayTrain(d) == IF job.kind = "fresh" THEN NoOutputs(d) ELSE MayResume(d, job.source)

\* Mutant: the loader starts over.
Restored_FreshLoader(checkpoint) == [checkpoint.state EXCEPT !.pos = 0]

\* The model, optimizer, scheduler and validation state come back with the
\* checkpoint, the loader and RNG position only with an exact one.
Restored(checkpoint) ==
  [checkpoint.state EXCEPT !.pos = IF checkpoint.exact THEN @ ELSE 0]

StartTraining ==
  /\ pc = "check" /\ MayTrain(Directory)
  /\ live' = Restored(job.source)
  /\ Write([Directory EXCEPT
              !.foreign = @ \/ (job.kind = "resume" /\ job.source.run # job.run)],
           "train")
  /\ UNCHANGED skipped

RefuseToTrain ==
  /\ pc = "check" /\ ~MayTrain(Directory)
  /\ End([Directory EXCEPT !.status = "failed"], "refused")

(***************************************************************************)
(* run_training_steps: one optimizer attempt consumes the next batches.  A *)
(* skipped attempt leaves model and scheduler alone, and too many in a row *)
(* fail the run.                                                           *)
(***************************************************************************)
NextPosition == live.pos + 1
Attempting == pc = "train" /\ live.step < job.config.target
                           /\ live.pos < MaxPosition

ApplyStep ==
  /\ Attempting /\ NextPosition \notin overflow
  /\ live' = [live EXCEPT !.step = @ + 1, !.pos = NextPosition,
                          !.applied = Append(@, NextPosition)]
  /\ skipped' = 0
  /\ Write(Directory, IF live'.step % job.config.log = 0 THEN "log" ELSE "validate")

\* Mutants: one attempt too many; the skipped attempts are not counted.
SkipStep_OffByOne ==
  /\ Attempting /\ NextPosition \in overflow /\ skipped < SkipLimit
  /\ live' = [live EXCEPT !.pos = NextPosition]
  /\ skipped' = skipped + 1
  /\ Write(Directory, "train")
SkipStep_Uncounted ==
  /\ Attempting /\ NextPosition \in overflow /\ skipped + 1 < SkipLimit
  /\ live' = [live EXCEPT !.pos = NextPosition]
  /\ Write(Directory, "train") /\ UNCHANGED skipped

SkipStep ==
  /\ Attempting /\ NextPosition \in overflow /\ skipped + 1 < SkipLimit
  /\ live' = [live EXCEPT !.pos = NextPosition]
  /\ skipped' = skipped + 1
  /\ Write(Directory, "train")

GiveUp ==
  /\ Attempting /\ NextPosition \in overflow /\ skipped + 1 >= SkipLimit
  /\ End([Directory EXCEPT !.status = "failed"], "failed")

(***************************************************************************)
(* Tracker.log: a flushed line of metrics.jsonl, then the summary, whose   *)
(* step may not move backwards.                                            *)
(***************************************************************************)
AppendMetrics(at, kind, next) ==
  /\ pc = at
  /\ Write([Directory EXCEPT !.metrics = Append(@, Record(kind, live.step))], next)
  /\ UNCHANGED <<live, skipped>>

UpdateSummary(at, next) ==
  /\ pc = at /\ Directory.summary <= live.step
  /\ Write([Directory EXCEPT !.summary = live.step], next)
  /\ UNCHANGED <<live, skipped>>

LogStep        == AppendMetrics("log", "train", "logSummary")
LogStepSummary == UpdateSummary("logSummary", "validate")

(***************************************************************************)
(* _CheckpointLifecycle.  Every save installs the file atomically and then *)
(* registers it in metrics.jsonl, once per role and step.                  *)
(***************************************************************************)
Snapshot(state) == Checkpoint(state, job.config, job.run)

Register(at, role, next) ==
  /\ pc = at
  /\ Write([Directory EXCEPT !.events = @ \cup {Event(role, live.step)}], next)

\* advance_validation_state
Candidate ==
  LET score == bpb[live.step]
  IN  [step |-> live.step, current |-> score,
       minimum |-> IF live.val = NoValidation \/ score < live.val.minimum
                   THEN score ELSE live.val.minimum]
\* Mutant: a score is compared with the last one instead of the minimum.
Improved_OverCurrent ==
  live.val = NoValidation \/ bpb[live.step] < live.val.current

Improved == live.val = NoValidation \/ bpb[live.step] < live.val.minimum

AfterValidation == IF AtEvery(job.config.save) THEN "periodic" ELSE "train"

\* Not due, or due and failed or incomplete: nothing is recorded.
PassValidation ==
  /\ pc = "validate"
  /\ Write(Directory, AfterValidation)
  /\ UNCHANGED <<live, skipped>>

AcceptValidation ==
  /\ pc = "validate" /\ AtEvery(job.config.eval)
  /\ IF Improved THEN live' = live ELSE live' = [live EXCEPT !.val = Candidate]
  /\ Write(Directory, IF Improved THEN "best" ELSE "track")
  /\ UNCHANGED skipped

\* Mutant: best.pt carries the validation state it is about to replace.
SaveBest_OldState ==
  /\ pc = "best"
  /\ Write([Directory EXCEPT !.best = Snapshot(live)], "bestEvent")
  /\ UNCHANGED <<live, skipped>>

SaveBest ==
  /\ pc = "best"
  /\ Write([Directory EXCEPT !.best = Snapshot([live EXCEPT !.val = Candidate])],
           "bestEvent")
  /\ UNCHANGED <<live, skipped>>

\* The validation state advances only once best.pt is registered.
RegisterBest ==
  /\ Register("bestEvent", "best", "track")
  /\ live' = [live EXCEPT !.val = Candidate]
  /\ UNCHANGED skipped

TrackValidation        == AppendMetrics("track", "validation", "trackSummary")
TrackValidationSummary == UpdateSummary("trackSummary", AfterValidation)

\* Mutant: only the newest periodic checkpoint is kept.
SavePeriodic_Rotated ==
  /\ pc = "periodic"
  /\ Write([Directory EXCEPT !.periodic = {Snapshot(live)}], "periodicEvent")
  /\ UNCHANGED <<live, skipped>>

SavePeriodic ==
  /\ pc = "periodic"
  /\ Write([Directory EXCEPT
              !.periodic = {c \in @ : c.state.step # live.step} \cup {Snapshot(live)}],
           "periodicEvent")
  /\ UNCHANGED <<live, skipped>>

RegisterPeriodic ==
  /\ Register("periodicEvent", "periodic", "latest")
  /\ UNCHANGED <<live, skipped>>

\* Mutant: the run ends without finalizing last.pt.
SaveLatest_NotFinal ==
  /\ \/ /\ pc = "latest"
        /\ Write([Directory EXCEPT !.last = Snapshot(live)], "latestEvent")
     \/ /\ pc = "train" /\ live.step = job.config.target
        /\ Write(Directory, "finish")
  /\ UNCHANGED <<live, skipped>>

\* last.pt follows every periodic checkpoint, and finalize writes it once more.
SaveLatest ==
  /\ \/ pc = "latest"
     \/ pc = "train" /\ live.step = job.config.target
  /\ Write([Directory EXCEPT !.last = Snapshot(live)],
           IF pc = "latest" THEN "latestEvent" ELSE "finalEvent")
  /\ UNCHANGED <<live, skipped>>

RegisterLatest ==
  /\ \/ Register("latestEvent", "latest", "train")
     \/ Register("finalEvent", "latest", "finish")
  /\ UNCHANGED <<live, skipped>>

(***************************************************************************)
(* Another stage in the same directory: report_completed_base_evaluation.  *)
(***************************************************************************)
PublishReport ==
  /\ pc = "report" /\ Directory.evaluated \in {0, job.source.state.step}
  /\ Write([Directory EXCEPT !.evaluated = job.source.state.step], "reportEvent")
  /\ UNCHANGED <<live, skipped>>

RefuseReport ==
  /\ pc = "report" /\ Directory.evaluated \notin {0, job.source.state.step}
  /\ End([Directory EXCEPT !.status = "failed"], "refused")

\* The metrics event of one report is logged once.
LogReport ==
  LET record == Record("evaluation", Stepless) IN
  /\ pc = "reportEvent"
  /\ Write([Directory EXCEPT
              !.metrics = IF \E i \in DOMAIN @ : @[i] = record THEN @
                          ELSE Append(@, record)],
           "finish")
  /\ UNCHANGED <<live, skipped>>

(***************************************************************************)
(* Ends: RunTracker.finish, RunTracker.fail on an exception, and a process *)
(* that dies.  An append may leave an incomplete line behind.              *)
(***************************************************************************)
Finish ==
  /\ pc = "finish"
  /\ End([Directory EXCEPT !.status = "completed"], "completed")

Appending == {"log", "track", "bestEvent", "periodicEvent", "latestEvent",
              "finalEvent", "reportEvent"}
Interrupted == {Directory} \cup
  IF pc \in Appending THEN {[Directory EXCEPT !.torn = TRUE]} ELSE {}

\* A directory of which config.yaml is installed and the summary is not: the
\* line with the configuration, the first, may be incomplete.
Opening ==
  IF pc = "open" /\ CanOpen(Directory)
  THEN {[Directory EXCEPT !.config = job.config, !.torn = torn] :
          torn \in {FALSE, Directory.status = "none"}}
  ELSE {}

Fail == /\ pc \notin {"idle", "open"}
        /\ \E d \in Interrupted : End([d EXCEPT !.status = "failed"], "failed")

Kill == /\ pc # "idle"
        /\ \E d \in Interrupted \cup Opening : End(d, "killed")

(***************************************************************************)
(* The specification.                                                      *)
(***************************************************************************)
Init ==
  /\ overflow \in Overflows /\ bpb \in ScoreCurves
  /\ dirs = [r \in Runs |-> NewDirectory]
  /\ pc = "idle" /\ job = NoJob /\ live = Untrained /\ skipped = 0
  /\ reply = "none" /\ commands = 0

Step ==
  \/ OpenTracker \/ RefuseToOpen \/ StartTraining \/ RefuseToTrain
  \/ ApplyStep \/ SkipStep \/ GiveUp \/ LogStep \/ LogStepSummary
  \/ PassValidation \/ AcceptValidation \/ SaveBest \/ RegisterBest
  \/ TrackValidation \/ TrackValidationSummary
  \/ SavePeriodic \/ RegisterPeriodic \/ SaveLatest \/ RegisterLatest
  \/ PublishReport \/ RefuseReport \/ LogReport \/ Finish

Next ==
  \/ Step \/ Fail \/ Kill
  \/ \E r \in Runs, c \in Configs : \E request \in Jobs(r, c) : Command(request)

Spec == Init /\ [][Next]_vars

\* A process that is neither killed nor stuck in a call keeps running.
FairSpec == Spec /\ WF_vars(Step)

(***************************************************************************)
(* Properties.                                                             *)
(***************************************************************************)
Steps == 0 .. MaxPosition
States ==
  [step : Steps, pos : Steps, applied : Seq(1 .. MaxPosition),
   val : [step : Steps, current : Nat, minimum : Nat]]
Checkpoints ==
  [state : States, config : Configs \cup {NoConfig}, run : Runs \cup {NoRun},
   exact : BOOLEAN]

IsDirectory(d) ==
  /\ d.config \in Configs \cup {NoConfig}
  /\ d.metrics \in
       Seq([kind : {"train", "validation", "evaluation"}, step : Steps])
  /\ d.events \subseteq [role : {"best", "periodic", "latest"}, step : Steps]
  /\ d.torn \in BOOLEAN /\ d.foreign \in BOOLEAN
  /\ d.summary \in Steps /\ d.evaluated \in Steps
  /\ d.status \in {"none", "running", "completed", "failed"}
  /\ d.periodic \subseteq Checkpoints /\ {d.best, d.last} \subseteq Checkpoints

\* The types of the durable and volatile state.
TypeOK ==
  /\ overflow \in Overflows /\ bpb \in ScoreCurves
  /\ \A r \in Runs : IsDirectory(dirs[r])
  /\ job.run \in Runs \cup {NoRun} /\ job.source \in Checkpoints
  /\ live \in States /\ skipped \in 0 .. SkipLimit - 1
  /\ reply \in {"none", "refused", "failed", "killed", "completed"}
  /\ commands \in 0 .. MaxCommands + 1

\* The state is one that an uninterrupted run from scratch passes through: it
\* applied, in order, every position up to its own that the scaler does not skip.
OnLineage(state) ==
  /\ state.step = Len(state.applied)
  /\ {state.applied[i] : i \in DOMAIN state.applied} = (1 .. state.pos) \ overflow
  /\ \A i, j \in DOMAIN state.applied : i < j => state.applied[i] < state.applied[j]

\* However often a run is killed, failed and resumed, in place or into another
\* directory, every checkpoint holds the model an uninterrupted run has at that
\* step: no batch is trained on twice or left out (_restore_exact_continuation),
\* and it was saved at the batch it stopped at.
ExactLineage ==
  /\ pc # "idle" => OnLineage(live)
  /\ \A r \in Runs : \A c \in Installed(dirs[r]) :
       OnLineage(c.state) /\ c.state.applied[c.state.step] = c.state.pos

\* In one directory no step is logged twice: the steps of the metrics of either
\* kind increase through all resumptions (_validate_existing_outputs).
MetricsIncrease ==
  \A r \in Runs : LET m == dirs[r].metrics IN
    \A i, j \in DOMAIN m :
      i < j /\ m[i].kind = m[j].kind => m[i].step < m[j].step

\* No resumption replaces last.pt by an earlier state of training.
LastNeverRegresses ==
  [][\A r \in Runs : dirs'[r].last.state.step >= dirs[r].last.state.step]_vars

\* Every validated step is logged first, and the directory has only its own
\* checkpoints: what the properties of best.pt need.
SelfContained(d) ==
  d.config # NoConfig /\ ~d.foreign /\ d.config.eval % d.config.log = 0

\* best.pt is replaced only by a strictly better one, across resumptions
\* (README "Equal or worse values, evaluation failures, and partial protocol
\* results leave best.pt untouched").
BestOnlyImproves ==
  [][\A r \in Runs : LET old == dirs[r].best  new == dirs'[r].best IN
       SelfContained(dirs'[r]) /\ new # old /\ old # NoCheckpoint
         => bpb[new.state.step] < bpb[old.state.step]]_vars

\* Resumption never takes a directory's checkpoints back.
CheckpointsOnlyAdvance == LastNeverRegresses /\ BestOnlyImproves

\* The minimum any checkpoint remembers is attained by the best.pt beside it:
\* best.pt is installed before the validation state it justifies is saved.
MinimumIsBacked ==
  \A r \in Runs : LET best == dirs[r].best IN
    SelfContained(dirs[r]) =>
      \A c \in Installed(dirs[r]) : c.state.val # NoValidation =>
        /\ best # NoCheckpoint
        /\ bpb[best.state.step] = best.state.val.minimum
        /\ best.state.val.minimum <= c.state.val.minimum

\* A registered checkpoint was installed before, and the file still holds that
\* step or a later one (_save, _register_checkpoint).
RegisteredIsInstalled ==
  \A r \in Runs : LET d == dirs[r] IN \A e \in d.events :
    CASE e.role = "periodic" -> \E c \in d.periodic : c.state.step = e.step
      [] e.role = "latest"   -> d.last.state.step >= e.step
      [] e.role = "best"     -> SelfContained(d) => d.best.state.step >= e.step

\* What a directory's files and events say of best.pt and last.pt is backed by
\* the files themselves.
FilesAreBacked == MinimumIsBacked /\ RegisteredIsInstalled

\* A training command that reports success leaves last.pt at the configured
\* step, registered, and, where that step is logged, a summary that agrees with
\* the metrics.  (Where it is not, a resumption may end behind a record whose
\* command died before it wrote the summary.)
Training == {"fresh", "resume"}
CompletedIsComplete ==
  pc = "finish" /\ job.kind \in Training =>
    /\ Directory.last.state.step = job.config.target
    /\ Event("latest", job.config.target) \in Directory.events
    /\ job.config.target % job.config.log = 0 =>
         \A i \in DOMAIN Directory.metrics :
           Directory.metrics[i].step <= Directory.summary

Refused == pc \in {"open", "check"} /\ reply' = "refused"
Unfinished == /\ job.kind = "resume" /\ job.source.config = job.config
              /\ job.source.state.step < job.config.target
Untouched(d) == NoOutputs(d) /\ CanOpen(d)

\* Every exact, unfinished checkpoint can be continued in a new run directory
\* under its own configuration, whatever became of the run that saved it
\* (README "New local directory").
ForkIsNeverRefused ==
  [][Refused /\ Untouched(Directory) /\ Unfinished => ~job.source.exact]_vars

\* Every command ends, even one whose every attempt overflows.
EveryCommandEnds == (pc # "idle") ~> (pc = "idle")

(***************************************************************************)
(* Claims of the documentation that the code does not keep.                *)
(***************************************************************************)
\* README, checkpoint migration: a format-1 or -2 checkpoint resumes in a new
\* run under --allow-non-exact-resume.
LegacyMigrationAccepted ==
  [][Refused /\ Untouched(Directory) /\ Unfinished
       => job.source.exact \/ ~job.nonExact]_vars

\* README, small-scale runs: an interrupted run resumes from its newest
\* periodic checkpoint under the same run identity.
InterruptedRunResumes ==
  [][Refused /\ Unfinished
       => ~(job.source \in Directory.periodic /\ job.source = Directory.last)]_vars
=============================================================================
