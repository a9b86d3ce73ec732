--------------------------- MODULE ChatEvaluation ---------------------------
(***************************************************************************)
(* Evaluation of an SFT checkpoint on chat tasks (evaluation/chat): a      *)
(* categorical task scored from padded batches of prompts, a generative    *)
(* one whose completions are run as programs, one report for all of them,  *)
(* and its tracking.  A command fails or is killed anywhere; what lasts is *)
(* the report and the tracker's journal in the run directory.              *)
(*                                                                         *)
(* A prompt is its cells, <<problem, position>>.  The model is causal:     *)
(* what it answers at a position depends on the cells up to there, and is  *)
(* right when these are a whole prompt that it can answer.                 *)
(***************************************************************************)
EXTENDS Integers, Sequences, FiniteSets, SequencesExt, FiniteSetsExt

CONSTANTS CategoricalTasks,  \* tasks: sequences of [length, group]
          ProgramCount,      \* problems of the generative task
          ProgramSamples,    \* generation.num_samples
          ProgramRuns,       \* how a program ends: [ended, code, stderr]
          ChatMaxSeqLen,     \* model.max_seq_len
          ChatBatch,         \* batch_size
          ChatSettings,      \* [tasks, limit]; limit 0 is max_problems None
          MaxEvaluations     \* bound on the commands explored

ASSUME ChatEvaluationAssumption ==
  /\ {ProgramCount, ProgramSamples, ChatMaxSeqLen, ChatBatch} \subseteq Nat \ {0}
  /\ CategoricalTasks \subseteq Seq([length : Nat \ {0}, group : STRING])
  /\ ChatSettings \subseteq [tasks : Seq({"categorical", "program"}) \ {<<>>}, limit : Nat]

VARIABLES problems,    \* the categorical problems
          able,        \* those the model answers right
          evaluation,  \* the running command
          runFiles,    \* metrics/chat_eval.json, the tracker's journal, and
                       \*   whether the checkpoint is older than summary.json
          evaluations  \* number of commands so far

chatEvaluationVars == <<problems, able, evaluation, runFiles, evaluations>>

TaskOrder == <<"categorical", "program">>
NoReport  == <<>>
Resting   == [at |-> "idle", settings |-> [tasks |-> <<>>, limit |-> 0], left |-> <<>>,
              queue |-> <<>>, excluded |-> {}, scored |-> <<>>, counts |-> <<>>,
              samples |-> <<>>, results |-> <<>>]

EvaluationFails ==
  /\ evaluation' = Resting
  /\ UNCHANGED <<problems, able, runFiles, evaluations>>

Continue(e) ==
  /\ evaluation' = e
  /\ UNCHANGED <<problems, able, runFiles, evaluations>>

EvaluateChat(settings) ==
  /\ evaluation.at = "idle" /\ evaluations < MaxEvaluations
  /\ evaluation' = [Resting EXCEPT !.at = "task", !.settings = settings,
                                   !.left = settings.tasks]
  /\ evaluations' = evaluations + 1
  /\ UNCHANGED <<problems, able, runFiles>>

At(task) == evaluation.at = "task" /\ evaluation.left # <<>> /\ Head(evaluation.left) = task
Limit    == evaluation.settings.limit
Fits(i)  == problems[i].length <= ChatMaxSeqLen

(***************************************************************************)
(* evaluate_categorical_task                                               *)
(***************************************************************************)
FittingUpTo(n) == {i \in 1 .. n : Fits(i)}

\* Problems are looked at in order until enough of them fit.
Examined ==
  IF Limit = 0 \/ Cardinality(FittingUpTo(Len(problems))) < Limit THEN Len(problems)
  ELSE CHOOSE n \in DOMAIN problems : Fits(n) /\ Cardinality(FittingUpTo(n)) = Limit

InOrder(S) == CHOOSE s \in [1 .. Cardinality(S) -> S] :
                \A i, j \in 1 .. Cardinality(S) : i < j => s[i] < s[j]

SelectProblems ==
  /\ At("categorical")
  /\ IF FittingUpTo(Examined) = {} THEN EvaluationFails
     ELSE Continue([evaluation EXCEPT !.at = "score",
            !.queue = InOrder(FittingUpTo(Examined)),
            !.excluded = (1 .. Examined) \ FittingUpTo(Examined),
            !.scored = <<>>, !.counts = <<>>])

Prompt(i) == [k \in 1 .. problems[i].length |-> <<i, k>>]
Widest(batch) == Max({problems[batch[r]].length : r \in DOMAIN batch})
PaddedRow(i, width) ==
  [k \in 1 .. width |-> IF k <= problems[i].length THEN <<i, k>> ELSE <<0, 0>>]

\* Mutant: the answer is read in the last column of the batch.
AnswerView_LastColumn(i, width) == SubSeq(PaddedRow(i, width), 1, width)

\* The answer is read at the last cell of the row's own prompt.
AnswerView(i, width) == SubSeq(PaddedRow(i, width), 1, problems[i].length)

Score(i, width) ==
  [problem |-> i, view |-> AnswerView(i, width),
   passed |-> AnswerView(i, width) = Prompt(i) /\ i \in able]

InGroup(scores, g) == {r \in DOMAIN scores : problems[scores[r].problem].group = g}
Groups(scores)     == {problems[scores[r].problem].group : r \in DOMAIN scores}

\* Per group, how many have passed and how many were evaluated.
Counted(counts, scores) ==
  LET Old(g) == IF g \in DOMAIN counts THEN counts[g] ELSE <<0, 0>>
      New(g) == InGroup(scores, g)
  IN  [g \in DOMAIN counts \cup Groups(scores) |->
        <<Old(g)[1] + Cardinality({r \in New(g) : scores[r].passed}),
          Old(g)[2] + Cardinality(New(g))>>]

ScoreBatch ==
  /\ evaluation.at = "score" /\ evaluation.queue # <<>>
  /\ LET size  == Min({ChatBatch, Len(evaluation.queue)})
         batch == SubSeq(evaluation.queue, 1, size)
         scores == [r \in 1 .. size |-> Score(batch[r], Widest(batch))]
     IN  Continue([evaluation EXCEPT
           !.queue  = SubSeq(@, size + 1, Len(@)),
           !.scored = @ \o scores,
           !.counts = Counted(@, scores)])

Passed(scored)  == Cardinality({r \in DOMAIN scored : scored[r].passed})
GroupTotal(counts, k) == FoldSet(LAMBDA g, n : counts[g][k] + n, 0, DOMAIN counts)

\* CategoricalTaskResult.__post_init__
ValidCategorical(scored, excluded, counts, limit) ==
  LET chosen == Len(scored) + Cardinality(excluded) IN
  /\ Len(scored) \in 1 .. Len(problems)
  /\ \A i \in excluded : ~Fits(i)
  /\ IF limit = 0 THEN chosen = Len(problems)
     ELSE /\ Len(scored) <= limit /\ chosen <= Len(problems)
          /\ Len(scored) < limit => chosen = Len(problems)
  /\ GroupTotal(counts, 1) = Passed(scored) /\ GroupTotal(counts, 2) = Len(scored)

FinishTask(result) ==
  Continue([evaluation EXCEPT !.at = "task", !.left = Tail(@), !.samples = <<>>,
    !.queue = <<>>, !.scored = <<>>, !.excluded = {}, !.counts = <<>>,
    !.results = Append(@, result)])

FinishCategorical ==
  /\ evaluation.at = "score" /\ evaluation.queue = <<>>
  /\ FinishTask([task |-> "categorical", limit |-> Limit, scored |-> evaluation.scored,
       excluded |-> evaluation.excluded, counts |-> evaluation.counts,
       valid |-> ValidCategorical(evaluation.scored, evaluation.excluded,
                                  evaluation.counts, Limit)])

(***************************************************************************)
(* evaluate_generative_task with score_humaneval_completion.  What a       *)
(* completion is follows from its seed, how its program ends does not.     *)
(***************************************************************************)
Asked == IF Limit = 0 THEN ProgramCount ELSE Min({Limit, ProgramCount})

FileSizeSignal == -25   \* the return code of a process ended by SIGXFSZ

\* _classify_status; a program that is not waited for has no return code.
Status(run) ==
  CASE run.ended = "timeout"            -> "timeout"
    [] run.ended = "os_error"           -> "infrastructure_error"
    [] run.stderr = "File too large" \/ run.code = FileSizeSignal -> "output_limit"
    [] run.stderr = "sentinel"          -> "infrastructure_error"
    [] run.code = 0                     -> "passed"
    [] run.stderr = "AssertionError"    -> "test_failure"
    [] OTHER                            -> "runtime_error"

\* CodeExecutionResult refuses a return code of 0 with any other status.
Normalized(run) == run.ended = "exit" /\ run.code = 0 => Status(run) = "passed"

\* derive_generative_sample_seed: of the problem and the sample alone.
SeedOf(n) == <<((n - 1) \div ProgramSamples) + 1, ((n - 1) % ProgramSamples) + 1>>

RunSample(run) ==
  /\ At("program") /\ Len(evaluation.samples) < Asked * ProgramSamples
  /\ IF Normalized(run)
     THEN Continue([evaluation EXCEPT !.samples =
            Append(@, [seed |-> SeedOf(Len(@) + 1), outcome |-> Status(run)])])
     ELSE EvaluationFails

\* Pass-any over the samples of a problem.
FinishProgram ==
  /\ At("program") /\ Len(evaluation.samples) = Asked * ProgramSamples
  /\ FinishTask([task |-> "program", limit |-> Limit, samples |-> evaluation.samples,
       passed |-> {p \in 1 .. Asked : \E n \in DOMAIN evaluation.samples :
                     /\ evaluation.samples[n].seed[1] = p
                     /\ evaluation.samples[n].outcome = "passed"},
       count |-> Asked])

(***************************************************************************)
(* CompletedChatEvaluation, its report and its tracking.                   *)
(***************************************************************************)
Full(settings) == settings.tasks = TaskOrder /\ settings.limit = 0

\* The ChatCORE aggregates are there for the canonical full scope only.
Completed == [settings |-> evaluation.settings, results |-> evaluation.results,
              aggregate |-> Full(evaluation.settings)]

\* The fixed-prompt diagnostics, then the completion marker.
DiagnoseSamples ==
  /\ evaluation.at = "task" /\ evaluation.left = <<>>
  /\ [i \in DOMAIN evaluation.results |-> evaluation.results[i].task]
       = evaluation.settings.tasks
  /\ Continue([evaluation EXCEPT !.at = "publish"])

\* Mutant: a report of other settings or outcomes gives way.
PublishReport_Replaces ==
  /\ evaluation.at = "publish"
  /\ runFiles' = [runFiles EXCEPT !.report = Completed]
  /\ evaluation' = [evaluation EXCEPT !.at = "track"]
  /\ UNCHANGED <<problems, able, evaluations>>

\* write_chat_evaluation_report: the first stays; an equal one is accepted.
PublishReport ==
  /\ evaluation.at = "publish"
  /\ runFiles.report \in {NoReport, Completed}
  /\ runFiles' = [runFiles EXCEPT !.report = Completed]
  /\ evaluation' = [evaluation EXCEPT !.at = "track"]
  /\ UNCHANGED <<problems, able, evaluations>>

RefuseReport ==
  /\ evaluation.at = "publish"
  /\ runFiles.report \notin {NoReport, Completed}
  /\ EvaluationFails

\* log_once and log_artifact_once, under an event id made of the result.
JournalOnce(kind, next) ==
  LET event == [kind |-> kind, result |-> Completed] IN
  /\ runFiles' = [runFiles EXCEPT !.journal =
       IF event \in ToSet(@) THEN @ ELSE Append(@, event)]
  /\ evaluation' = next
  /\ UNCHANGED <<problems, able, evaluations>>

\* A report that is not the result at hand is not tracked.  The metrics have
\* the checkpoint's step: if the summary is at a later one it refuses them,
\* when the journal has them already.
TrackMetrics ==
  /\ evaluation.at = "track" /\ runFiles.report = Completed
  /\ LET fresh == [kind |-> "metrics", result |-> Completed] \notin ToSet(runFiles.journal)
     IN  JournalOnce("metrics", IF fresh /\ runFiles.behind THEN Resting
                                ELSE [evaluation EXCEPT !.at = "artifact"])
TrackArtifact == evaluation.at = "artifact" /\ JournalOnce("artifact", Resting)

\* An error in a task, a sample or a write, or a kill.
StopEvaluation == evaluation.at # "idle" /\ EvaluationFails

ChatEvaluationInit ==
  /\ problems \in CategoricalTasks
  /\ able \in {DOMAIN problems, {i \in DOMAIN problems : i % 2 = 1}}
  /\ evaluation = Resting /\ evaluations = 0
  /\ \E behind \in BOOLEAN :
       runFiles = [report |-> NoReport, journal |-> <<>>, behind |-> behind]

ChatEvaluationNext ==
  \/ \E settings \in ChatSettings : EvaluateChat(settings)
  \/ SelectProblems \/ ScoreBatch \/ FinishCategorical
  \/ \E run \in ProgramRuns : RunSample(run)
  \/ FinishProgram \/ DiagnoseSamples \/ PublishReport \/ RefuseReport
  \/ TrackMetrics \/ TrackArtifact \/ StopEvaluation

ChatEvaluationSpec == ChatEvaluationInit /\ [][ChatEvaluationNext]_chatEvaluationVars

(***************************************************************************)
(* Properties.                                                             *)
(***************************************************************************)
\* The first problems whose prompts fit, in order, up to the limit, each
\* scored once after its whole prompt and nothing more; the ones left out on
\* the way are the overlength ones before the last one scored, and the
\* result passes its own validation.
CategoricalExact(r) ==
  LET fitting == InOrder(FittingUpTo(Len(problems)))
      count == IF r.limit = 0 THEN Len(fitting) ELSE Min({r.limit, Len(fitting)})
      last == IF count = r.limit THEN fitting[count] ELSE Len(problems)
  IN  /\ r.valid
      /\ [n \in DOMAIN r.scored |-> r.scored[n].problem] = SubSeq(fitting, 1, count)
      /\ \A n \in DOMAIN r.scored :
           /\ r.scored[n].view = Prompt(r.scored[n].problem)
           /\ r.scored[n].passed = (r.scored[n].problem \in able)
      /\ r.excluded = {i \in 1 .. last : ~Fits(i)}

\* Every sample of every problem asked has one outcome under its own seed, in
\* whatever scope, and a problem passes when one of its own samples did.
ProgramExact(r) ==
  /\ \A p \in 1 .. r.count, s \in 1 .. ProgramSamples :
       \E n \in DOMAIN r.samples : r.samples[n].seed = <<p, s>>
  /\ Len(r.samples) = r.count * ProgramSamples
  /\ \A p \in 1 .. r.count :
       p \in r.passed <=> \E s \in 1 .. ProgramSamples :
         r.samples[(p - 1) * ProgramSamples + s].outcome = "passed"

\* Scores are exact; an aggregate is published of all the tasks without a
\* limit only; and however often the command is repeated in a run directory,
\* the journal has the metrics and the artifact of its one report at most
\* once, the metrics first.
ChatEvaluationIsExact ==
  /\ \A r \in ToSet(evaluation.results) :
       IF r.task = "categorical" THEN CategoricalExact(r) ELSE ProgramExact(r)
  /\ runFiles.journal \in
       {SubSeq(<<[kind |-> "metrics", result |-> runFiles.report],
                 [kind |-> "artifact", result |-> runFiles.report]>>, 1, n) : n \in 0 .. 2}
  /\ runFiles.report # NoReport /\ runFiles.report.aggregate =>
       \A i \in DOMAIN TaskOrder :
         LET r == runFiles.report.results[i] IN
         /\ r.task = TaskOrder[i] /\ r.limit = 0
         /\ r.task = "categorical" =>
              Len(r.scored) + Cardinality(r.excluded) = Len(problems)
=============================================================================
