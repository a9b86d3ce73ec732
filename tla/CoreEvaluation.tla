--------------------------- MODULE CoreEvaluation ---------------------------
(***************************************************************************)
(* One CORE task (evaluation/core): its examples are shuffled and limited, *)
(* each gets few-shot examples, its prompts become token rows with the     *)
(* span that is scored, long rows are cut on the left, short ones padded   *)
(* on the right, and a row's span decides what the model answers.          *)
(*                                                                         *)
(* A multiple-choice example is a context and its options, a schema one    *)
(* its contexts and a continuation, a language-modeling one a context and  *)
(* a continuation, which is right or not: 1 is its gold.  The shots in     *)
(* front of a prompt are a token each.  Loss and prediction are some       *)
(* function of the tokens seen before.                                     *)
(***************************************************************************)
EXTENDS Integers, Sequences, FiniteSets, SequencesExt, FiniteSetsExt

CONSTANTS CoreTasks,    \* [type, fewshot, examples]
          CoreMaxSeqLen,\* model.max_seq_len
          CoreLimits    \* max_per_task; 0 is None

ASSUME CoreAssumption ==
  /\ CoreMaxSeqLen \in Nat \ {0} /\ CoreLimits \subseteq Nat
  /\ \A t \in CoreTasks :
       /\ t.type \in {"multiple_choice", "schema", "language_modeling"}
       /\ t.fewshot \in Nat /\ t.examples # <<>>
       /\ t.examples \in Seq([context : Seq(Nat), options : Seq(Seq(Nat)), gold : Nat])
       /\ \A e \in DOMAIN t.examples :
            /\ t.examples[e].options # <<>>
            /\ t.type = "language_modeling" => t.examples[e].gold = 1

VARIABLES coreTask,  \* the task and the examples of its pool
          core       \* the evaluation

coreVars == <<coreTask, core>>

CoreBOS  == 0
Examples == DOMAIN coreTask.examples
Example(e) == coreTask.examples[e]
Type == coreTask.type

(***************************************************************************)
(* prepare_core_evaluation_cases.  The generators are seeded, but what     *)
(* they draw is as good as any choice.                                     *)
(***************************************************************************)
RefuseCore == core.at = "open" /\ core' = [core EXCEPT !.at = "error"] /\ UNCHANGED coreTask

\* Mutant: an example may be a shot of its own prompt.
Others_All(pool, n) == DOMAIN pool

\* Everything in the pool except the example itself.
Others(pool, n) == DOMAIN pool \ {n}

\* Samples of them without replacement.
Samples(pool, n) ==
  {s \in [1 .. coreTask.fewshot -> Others(pool, n)] : IsInjective(s)}

Shuffles == {order \in [Examples -> Examples] : IsInjective(order)}

PrepareCases ==
  /\ core.at = "open"
  /\ \E all \in Shuffles :
       LET size == IF core.limit = 0 THEN Len(all) ELSE Min({core.limit, Len(all)})
           pool == SubSeq(all, 1, size)
       IN  /\ size >= coreTask.fewshot + 1
           /\ \E drawn \in [DOMAIN pool -> UNION {Samples(pool, n) : n \in DOMAIN pool}] :
                /\ \A n \in DOMAIN pool : drawn[n] \in Samples(pool, n)
                /\ core' = [core EXCEPT !.at = "cases",
                     !.cases = [n \in DOMAIN pool |->
                       [example |-> pool[n],
                        shots |-> [k \in DOMAIN drawn[n] |-> pool[drawn[n][k]]]]]]
  /\ UNCHANGED coreTask

(***************************************************************************)
(* render_core_prompts and build_core_token_batch.                         *)
(***************************************************************************)
ShotCell(e) == 10 + e
Prefix(shots) == <<CoreBOS>> \o [i \in DOMAIN shots |-> ShotCell(shots[i])]
Rendered(shots, context, continuation) == Prefix(shots) \o context \o continuation

\* Of a language-modeling example the prompt without its continuation, too.
CorePrompts(type, x, shots) ==
  CASE type = "multiple_choice" ->
         [k \in DOMAIN x.options |-> Rendered(shots, x.context, x.options[k])]
    [] type = "schema" ->
         [k \in DOMAIN x.options |-> Rendered(shots, x.options[k], x.context)]
    [] type = "language_modeling" ->
         <<Rendered(shots, x.context, <<>>), Rendered(shots, x.context, x.options[1])>>

ShortestLen(rows) == Min({Len(rows[k]) : k \in DOMAIN rows})
\* _common_length from the left; from the right it is that of the mirrored rows.
CommonLength(rows) ==
  Max({n \in 0 .. ShortestLen(rows) : \A k \in DOMAIN rows : IsPrefix(SubSeq(rows[1], 1, n), rows[k])})
Mirrored(rows) == [k \in DOMAIN rows |-> Reverse(rows[k])]

\* _scoring_spans: [row, first scored, last scored + 1], zero-based as there.
Spans(type, rows) ==
  CASE type = "multiple_choice" ->
         [k \in DOMAIN rows |-> [row |-> rows[k], start |-> CommonLength(rows),
                                 end |-> Len(rows[k])]]
    [] type = "schema" ->
         [k \in DOMAIN rows |-> [row |-> rows[k], end |-> Len(rows[k]),
                                 start |-> Len(rows[k]) - CommonLength(Mirrored(rows))]]
    [] type = "language_modeling" ->
         <<[row |-> rows[2], start |-> Len(rows[1]), end |-> Len(rows[2])]>>

\* _left_truncate
Truncated(span) ==
  LET crop == Max({0, Len(span.row) - CoreMaxSeqLen}) IN
  [row |-> SubSeq(span.row, crop + 1, Len(span.row)),
   start |-> span.start - crop, end |-> span.end - crop]

\* A span that begins with the first token of a row cannot be scored, and
\* that of a language-modeling example has at least a token.
BatchOf(type, rows) == [k \in DOMAIN Spans(type, rows) |-> Truncated(Spans(type, rows)[k])]
Scorable(type, batch) ==
  \A k \in DOMAIN batch :
    /\ 1 <= batch[k].start
    /\ IF type = "language_modeling" THEN batch[k].start < batch[k].end
       ELSE batch[k].start <= batch[k].end

(***************************************************************************)
(* score_core_token_batch                                                  *)
(***************************************************************************)
LossAfter(before, token)   == (2 * Len(before) + before[Len(before)] + token) % 5
PredictedAfter(before)     == (Len(before) + before[Len(before)]) % 3

\* Mutant: rows are padded on the left, where their spans do not expect it.
Stacked_Left(batch) ==
  LET width == Max({Len(batch[k].row) : k \in DOMAIN batch}) IN
  [k \in DOMAIN batch |->
    [i \in 1 .. width - Len(batch[k].row) |-> CoreBOS] \o batch[k].row]

\* _stack_token_rows
Stacked(batch) ==
  LET width == Max({Len(batch[k].row) : k \in DOMAIN batch}) IN
  [k \in DOMAIN batch |->
    [i \in 1 .. width |-> IF i <= Len(batch[k].row) THEN batch[k].row[i] ELSE CoreBOS]]

\* The losses of a span as <<sum, count>>, and the first of the smallest
\* means.  The mean of an empty span is NaN: Python's min keeps it when it
\* is the first and passes over it otherwise.
SpanLoss(row, span) ==
  LET at == [i \in 1 .. span.end - span.start |-> span.start + i] IN
  <<FoldLeft(LAMBDA sum, i : sum + LossAfter(SubSeq(row, 1, i - 1), row[i]), 0, at),
    Len(at)>>
Below(p, q) == p[2] > 0 /\ q[2] > 0 /\ p[1] * q[2] < q[1] * p[2]
FirstLeast(losses) ==
  FoldLeft(LAMBDA best, k : IF Below(losses[k], losses[best]) THEN k ELSE best,
           1, [k \in DOMAIN losses |-> k])

Answer(type, batch) ==
  LET rows == Stacked(batch) IN
  IF type = "language_modeling"
  THEN IF \A i \in batch[1].start + 1 .. batch[1].end :
            PredictedAfter(SubSeq(rows[1], 1, i - 1)) = rows[1][i] THEN 1 ELSE 0
  ELSE FirstLeast([k \in DOMAIN batch |-> SpanLoss(rows[k], batch[k])])

PromptsOf(case) == CorePrompts(Type, Example(case.example), case.shots)

ScoreCase ==
  /\ core.at = "cases" /\ Len(core.answers) < Len(core.cases)
  /\ LET case == core.cases[Len(core.answers) + 1]
         batch == BatchOf(Type, PromptsOf(case))
     IN  core' = IF Scorable(Type, batch)
                 THEN [core EXCEPT !.answers = Append(@, Answer(Type, batch)),
                        !.correct = @ + (IF Answer(Type, batch) = Example(case.example).gold
                                         THEN 1 ELSE 0)]
                 ELSE [core EXCEPT !.at = "error"]
  /\ UNCHANGED coreTask

\* CoreTaskResult
FinishCore ==
  /\ core.at = "cases" /\ Len(core.answers) = Len(core.cases)
  /\ core' = [core EXCEPT !.at = "result"]
  /\ UNCHANGED coreTask

\* _validate_evaluation_scope refuses a limit that leaves too few shots.
CoreInit ==
  /\ coreTask \in CoreTasks
  /\ \E limit \in {l \in CoreLimits : l = 0 \/ l >= coreTask.fewshot + 1} :
       core = [at |-> "open", limit |-> limit, cases |-> <<>>, answers |-> <<>>,
               correct |-> 0]

CoreNext == PrepareCases \/ RefuseCore \/ ScoreCase \/ FinishCore

CoreSpec == CoreInit /\ [][CoreNext]_coreVars

(***************************************************************************)
(* Properties.                                                             *)
(***************************************************************************)
\* What an answer should be, without rows, batches and spans: the scored
\* tokens of each option are what remains of it after what all options begin
\* with; its context is as much as fits before it.
Visible(prompt, i) == SubSeq(prompt, Max({0, Len(prompt) - CoreMaxSeqLen}) + 1, i - 1)
ShareFirst(rows, n) ==
  \A j \in DOMAIN rows : Len(rows[j]) >= n /\ SubSeq(rows[j], 1, n) = SubSeq(rows[1], 1, n)
ScoredOf(type, rows, k) ==
  CASE type = "multiple_choice" -> {i \in DOMAIN rows[k] : ~ShareFirst(rows, i)}
    [] type = "schema" ->
         {i \in DOMAIN rows[k] :
            \A j \in DOMAIN rows : IsSuffix(SubSeq(rows[k], i, Len(rows[k])), rows[j])}
    [] OTHER -> DOMAIN rows[2] \ DOMAIN rows[1]
MeanOf(row, scored) ==
  <<FoldSet(LAMBDA i, sum : sum + LossAfter(Visible(row, i), row[i]), 0, scored),
    Cardinality(scored)>>
ReferenceAnswers(type, rows) ==
  IF type = "language_modeling"
  THEN {IF \A i \in ScoredOf(type, rows, 2) : PredictedAfter(Visible(rows[2], i)) = rows[2][i]
        THEN 1 ELSE 0}
  ELSE LET scored == [k \in DOMAIN rows |-> ScoredOf(type, rows, k)]
           full   == {k \in DOMAIN rows : scored[k] # {}}
       IN  IF 1 \notin full THEN {1}
           ELSE {k \in full : \A j \in full :
                   ~Below(MeanOf(rows[j], scored[j]), MeanOf(rows[k], scored[k]))}

\* Every case of a result is a different example of the pool, never has
\* itself as a shot, and is answered as if each of its options had been
\* scored alone, whole and unpadded, with what follows the part that all have
\* in common.
CoreIsExact ==
  core.at = "result" =>
    /\ \A m, n \in DOMAIN core.cases :
         core.cases[m].example = core.cases[n].example => m = n
    /\ Len(core.cases) = IF core.limit = 0 THEN Cardinality(Examples)
                         ELSE Min({core.limit, Cardinality(Examples)})
    /\ \A n \in DOMAIN core.cases :
         /\ core.cases[n].example \notin ToSet(core.cases[n].shots)
         /\ Len(core.cases[n].shots) = coreTask.fewshot
         /\ core.answers[n] \in ReferenceAnswers(Type, PromptsOf(core.cases[n]))
    /\ core.correct = Cardinality({n \in DOMAIN core.cases :
         core.answers[n] = Example(core.cases[n].example).gold})
=============================================================================
