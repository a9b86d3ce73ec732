# TLA+ models of gpt-training-sandbox

This directory models `scratch_llm` from download to comparison: shards and
tokenized datasets, the tokenizer, the loaders, pretraining and finetuning into
run directories with crashes and resumption, generation over the key/value
cache, the evaluations and their reports, the chat engine and its web service.
Source paths below are relative to `src/scratch_llm/`.

    tlc -config MCTrainingRun.cfg MCTrainingRun     # one run
    tlapm ChatEngineProofs.tla                      # the proofs of one component

`PROJECT.json` lists components, runs, mutants, the map from definitions to
source lines, findings, hazards and theorems.

## The system

| Part | State it keeps | Operations | What is hard | What makes it correct | Modelled |
|---|---|---|---|---|---|
| Chat engine (`chat/engine.py`, `chat/conversation.py`) | messages, pending prompt, active flag, status | append, generate stream, roll back, reset, close | a stream is a lazy generator: it may start late, be one of several, or be finalised after the conversation moved on | one running stream; replies pair with prompts; only whole turns | `ChatEngine` |
| Web service (`web/service.py`, `web/app.py`, `chat/tracking.py`) | status, current engine, lease, session counters, tracker file | load, reset, start, stop, shutdown | event loop against worker and loader threads; cancelled requests; failing trackers | exclusive engines, truthful status, transcript = reported outcomes, no leak, everything ends | `ChatSession` |
| Pretraining (`training/pretraining.py`, `loop.py`, `checkpoint.py`, `best_checkpoint.py`) | model, optimizer, loader and RNG position, validation state, checkpoint files | start, resume, step, log, validate, save | death between any two writes; resumption in place or elsewhere; skipped attempts; failed validations | exact resumption, nothing regresses or is logged twice, files back what they claim | `TrainingRun` |
| Run directories and tracking (`run.py`, `tracking.py`, `tracking_state.py`) | `config.yaml`, `metrics.jsonl`, `summary.json`, W&B identity | open, log, log once, finish, fail | torn lines, events retried after a crash, partial fan-out | conflicting configurations refused, identified events once | in `TrainingRun`, `DataPreparation`, `BaseEvaluation` |
| Base evaluation (`evaluation/base.py`, `base_pipeline.py`, `base_tracking.py`) | `base_eval.json`, samples, CORE comparison, journal, remote run | evaluate modes, check, publish, journal, send | three files and three events, failure or kill between any two, repeated commands | files and events are of one report, each event once | `BaseEvaluation`; as a stage also in `TrainingRun` |
| Run comparison (`comparison/`) | `comparison.md`, `comparison.json` | read, refuse, rank, write | reads directories that are still written; partial and incompatible runs | a ranking is of runs trained to the end and evaluated under one protocol; runs that were are compared | `RunComparison` |
| SFT (`training/sft.py`, `evaluation/sft_tracking.py`) | as pretraining, plus the base checkpoint and the report | start, resume, step, validate, save, sample, report | as pretraining; a failed validation ends the run; samples and report follow the final checkpoint | exact resumption, best is the minimum, the report is of the final checkpoint | `FinetuningRun` |
| ClimbMix download (`data/climbmix.py`) | `.part` files, published shards | plan, download, resume, retry, publish | range answers that do not match, truncated bodies, death before publication | a published shard is the remote one; every command ends | `ShardDownload` |
| Published artifacts (`data/hub.py`, `tokenization/artifacts.py`) | staging directories, one destination | stage, publish, load | several processes, failures, kills | written once, as a whole | `ArtifactCache` |
| Tokenized datasets (`data/tokenized.py`, `preparation.py`, `statistics.py`) | staged and replaced directory, descriptions, completion state, events | count, write, replace, reuse, record | death between publication, descriptions, completion state and events; a download at the same time | never no dataset, one coherent record | `DataPreparation` |
| Pretraining loaders (`data/loaders.py`) | epoch order, plan, cursor, generator | next batch, save, restore | best-fit packing over epochs; restoring into a fresh loader | the plan's definition, every token once, restore continues | `TokenLoader` |
| SFT feed (`chat/loader.py`) | mixture position, buffer, epoch | next batch, pass, save, restore | cycles of unequal sources, a buffer across batches and saves | fixed stream, nothing lost or repeated | `ConversationLoader` |
| Chat template (`chat/rendering.py`) | - | render, bound a prompt | what is dropped, what is supervised | prompts are what training renders | `ChatRendering` |
| Tokenization (`tokenization/`) | merge table, incremental index, heaps | train, encode, publish | stale heap entries, overlaps, ties | the reference algorithms | `BytePair`, `ArtifactCache` |
| KV cache, generation (`kv_cache.py`, `generation.py`, `model.py`) | cached positions, transaction, rows | begin, write, commit, roll back, reset; sample, stop, close | a failed forward between layers; rows that stop earlier; windows | a log of whole blocks; as without a cache | `KVCache`, `Generation` |
| Bits per byte (`evaluation/bpb.py`, ...) | totals, plan, model mode | plan rows, accumulate, finish | cropping, BOS, prefixes, failures | which tokens count, after which context | `BitsPerByte` |
| CORE (`evaluation/core/`) | cases, rows, spans | prompt, truncate, pad, score | common prefixes, truncation, padding | the answer of each option alone | `CoreEvaluation` |
| Chat evaluation (`evaluation/chat/`) | scores, program samples, report, journal | select, score, run, report, track | limits, padding, how programs end, repeated commands | exact counts, aggregate only of full evaluations | `ChatEvaluation` |
| Optimizer, precision, RNG, attention backends, diagnostics, configuration | tensors and tables | pure functions | numeric | tested numerically | not modelled |

How they interact: scripts resolve a configuration, open the tracker of a run
directory and call one stage. A stage talks to the others only through files: a
checkpoint read by a resume, an evaluation or the chat loader, a metrics file
read by the next resume and by the comparison. The web service calls one chat
engine from a worker thread and hands its events to the event loop through
`call_soon_threadsafe`.

## Modules

| Module | Models |
|---|---|
| `ChatEngineOps` | the attributes of one engine and its operations as guards (`Can...`) and functions |
| `ChatEngine` | one engine with any number of generator objects |
| `ChatTranscript` | the abstract promise: turns are opened, answered, withdrawn, undone, cleared |
| `ChatEngineProofs` | theorems about `ChatEngine` |
| `ChatSession` | the web service: loop, worker and loader threads, built on `ChatEngineOps` |
| `ChatSessionProofs` | theorems about `ChatSession` |
| `TrainingRun` | commands on run directories, one process at a time |
| `TrainingRunProofs` | theorems about `TrainingRun`: types, order, exact resumption, and the files of its directories |
| `ShardDownload` | the downloader against a server that answers anything true of the shard |
| `DataPreparation` | tracked preparation commands beside `ShardDownload` |
| `TokenLoader` | packed and flat loaders of pretraining |
| `DataPreparationProofs` | theorems about these three |
| `BytePair` | optimized trainer, reference trainer, encoder |
| `WriteOnce`, `ArtifactCache` | what a shared directory of artifacts promises, and its publication |
| `CacheLog`, `KVCache` | what the cache promises its model, and its transactions |
| `Generation` | batched and cached generation, on `KVCache` |
| `GenerationProofs` | theorems about these, and about `ChatRendering` and `CoreEvaluation` |
| `ConversationLoader`, `ChatRendering` | the SFT feed; the chat template |
| `FinetuningRun` | SFT commands in one run directory |
| `BitsPerByte`, `CoreEvaluation`, `ChatEvaluation` | the evaluations |
| `BaseEvaluation` | the `eval_base` command and what it publishes |
| `StageProofs` | theorems about `BaseEvaluation`, `FinetuningRun` and `ConversationLoader` |
| `RunComparison` | comparing directories that are still written |
| `PublicationProofs` | theorems about `ArtifactCache`, `RunComparison` and `ChatEvaluation` |
| `FiniteOrders` | lemmas that several proofs use: induction over naturals, listings and extremes of finite sets, joined sequences, sums and folds |
| `MCChatEngine`, `MCChatSession`, `MCTrainingRun`, `MCDataPipeline`, `MCRunComparison`, `MCComponents` | instances for TLC |

### ChatEngine

An action is one uninterrupted stretch of Python. `GenerateStream` makes the
generator and checks the conversation; `StreamStart` is its first `next()`,
which checks again, because anything may have happened in between.
`StreamComplete` commits the reply and suspends at the completion event.
`StreamClose` is `close()`, garbage collection, or the `next()` after that event:
all three run the same `finally` block. Sampling, packing and trimming are
abstracted to how a stream ends. A prompt is identified by the number of user
messages before it.

The `finally` block interrupts whatever stream is active, not its own. The code
is correct only for clients that close a finished stream before they go on, as
`scripts/chat.py` and the web worker do. `CloseBeforeReuse` states this
assumption; the run `engine_reuse` shows what happens without it.

### ChatSession

Handlers between two awaits are one action of the loop; a worker is a program
counter that takes one step per interaction with the engine, the cancel event or
the loop. `callbacks` is the loop's FIFO. A load is a coroutine and a thread of
which the coroutine may be cancelled alone. Engines carry the full state of
`ChatEngineOps`, so a rollback is the engine's own rollback. `RecordTurn` lets the
tracker write, refuse, or (with `"partial"`) write locally and raise. `WorkerClose` closes
the token stream: if that raises, a completed turn is reported failed, every other outcome
stays. The engine's own `finally` is taken to have run by then.

The service is checked against the same `ChatTranscript` (`ServiceIsTransactional`):
its conversation without the turn in flight (`SettledTurns`) changes only by whole turns. An HTTP
server that drains its connections at shutdown is assumed: no request arrives
after `ShutdownBegin`.

### TrainingRun

The process is a program counter between durable writes: `metrics.jsonl` line,
summary, validation, `best.pt` and its registration, validation metrics,
`step_N.pt`, `last.pt`, finalization. `Fail` (an exception; the tracker writes
`failed`) and `Kill` (nothing more is written) are possible at each, and either
may leave an incomplete line. Opening a run writes three files, and a process killed in
between (`Opening`) leaves `config.yaml` without the summary, with its first line in
`metrics.jsonl` whole, missing or incomplete. The next command finds the directory as it is. A
dry run and a base evaluation in the same directory are commands too, since they
open the same tracker.

A model is the sequence of batch positions applied to it, a loader is a position,
a configuration is what the resume check compares (target and cadences). The
scaler's overflows and the score of a step are functions of the seed chosen in
`Init`: deterministic training given the same state, which is what the saved RNG
state gives. `foreign` is a history variable that only properties read.
Checkpoint files are installed by `os.replace` after `fsync` and so are atomic;
losing unsynced data to a power failure is not modelled, death of the process is.

### ShardDownload and DataPreparation

A file is the sequence of the remote bytes in it. A request is answered with any
status, range, declared total and body the server may give without lying about
the shard's bytes; `CompatibleRange` and the checks of the response are the
code's. The `.part` file outlives attempts, commands and kills. `DataPreparation`
EXTENDS it and adds a preparation whose three views of the raw directory (the
listing, the counts, the tokenized documents) are read at different times, the
replacement of the dataset by two renames, the two descriptions, the completion
state and three identified events, with `Fail` and `Kill` between any two. A payload
stands for its shard, counts are functions of shards and tokenizer.

### Loaders and tokenizer

`TokenLoader` has a token as its document and position, and a generator as the
number of its draws; the order an epoch's seed gives is an unknown function
(`orders`). The plan is built document by document as `_plan` does, with its index of
capacities, and compared with the reference planner, which looks at every row
(`PlanIsBestFit`). `ConversationLoader` keeps
positions of sources, shuffles per cycle (`schedules`), the buffer, the rows and
the saved state; a conversation is its size and first supervised position.
`BytePair` keeps the node array, the links, the index of occurrences and the heap;
one action merges one occurrence. Its heaps are sets, as a second equal entry is
stale by then. `ChatRendering` renders messages to controls and positions of
text; `PromptIsFaithful` compares the bounded prompt with the whole one and with the
training template.

### KVCache and Generation

`KVCache` is implemented as it is written: preallocated storage that is never
cleared, a committed position, one transaction. `Generation` drives it layer by
layer: what a layer writes at a position is a term made of all it attended to, so
equal terms mean equal activations, and a sample is an unknown function of the row's
seed, draw number and final term. Rows that stop are dropped from the batch and
mapped back by `ActiveIndices`. In the run the entries are these terms; in the
proof they are any set.

### FinetuningRun

As `TrainingRun`, with what differs: a base checkpoint as origin, a failed
validation ends the command, the last step is always validated, `last.pt` is saved
before samples and report, and the report's events follow. Skipped attempts are
left to `TrainingRun`, whose loop this is. The history variable `foreign` marks a
directory in which a checkpoint of another run was resumed, or a `best.pt` whose validation
`metrics.jsonl` does not have yet; in such a directory nothing is claimed of `best.pt` (see
"Seen while modelling").

### Evaluations

Numbers are abstracted to what they were computed from. `BitsPerByte` has every
counted target with the cell it was predicted after; `CoreEvaluation` has rows of
tokens, and loss and prediction as functions of the tokens seen before;
`ChatEvaluation` has the prefix a categorical answer was read after, and the way
a program ended; how a subprocess is isolated is not modelled. Each is compared with
a definition that knows no batch, padding, row or truncation.

`ChatEvaluation` and `BaseEvaluation` also publish. In both a report, once there,
must be matched by every later command; events go to a journal and from there, once
and perhaps never, to a remote run. `RunComparison` reads three files of each run in
separate steps while `AppendStep`, `WriteSummary`, `PublishEvaluation` and
`EndCommand` of that run go on.

A report has a format version. `ReadEvaluation` refuses all but version 2,
`PublishEvaluation` writes version 3; so every run that is evaluated now is refused, and
what can be ranked are directories of an earlier release, which `ComparisonInit` has beside
new ones (`EarlierRuns`). `ComparisonIsFair` is about these, and says that a ranking has no
other reports; `comparison_published` states what the README promises of the others. The
remaining checks of `_load_base_evaluation` (status, modes, protocols, identities) are met
by whatever `_base_evaluation_payload` writes; that a report without bpb is accepted and
blocks the ranking is modelled.

### ArtifactCache

A process stages files in a directory of its own and renames it. The `family`
chooses the code: a parquet cache that is there is loaded, by a process that wanted to
publish its own only if it is equal; a tokenizer is never saved over files. Checked
against `WriteOnce`.

## Runs

| Run | Instance | Shows |
|---|---|---|
| `engine` | 3 streams, 3 prompts | ownership, pairing, pending prompt, refinement of `ChatTranscript` |
| `engine_reuse` | the same, undisciplined client | *violated*: two streams inside the loop |
| `session` | 2 loads, 2 generations, 1 reset, 1 token, shutdown | the service's safety properties and its refinement |
| `session_live` | 2 loads, 1 generation | leases end, loads settle, shutdown releases everything |
| `session_partial` | composite tracker | *violated*: a failed turn whose record was written |
| `training` | 2 directories, 2 configurations, 2 commands | the properties below |
| `training_legacy` | 1 directory | *violated*: the documented legacy migration |
| `training_resume` | 1 directory | *violated*: in-place resumption after an interruption |
| `data` | 3 shards of 2 bytes, 2 attempts, 2 downloads, 3 preparations | one coherent record, a dataset is never lost, every command ends |
| `data_retry` | shards of a byte, 1 attempt, 1 download | *violated*: a retry with a remote tracker |
| `comparison_published` | 2 runs, 4 evaluations | *violated*: trained and evaluated runs can be compared |
| `components` | 13 parts, see below | each part against its definition |

Bounds. Three streams are the least with one running, one stale and one
duplicate; three prompts allow a rollback of two messages between a live and a
stale one. Two loads race each other and a generation; two generations show a
late item of the first meeting the second. Two training commands make every pair
of an interruption and what follows it; a checkpoint saved after a resumption
satisfies the same invariants as one before, so further commands repeat the
second. `Dense` (logs and validates every step, saves every second of 3) puts
logs ahead of checkpoints; `Sparse` (saves every step, logs at step 4) puts
checkpoints ahead of logs: one guard of the resume check is needed for each. The
scores go down and up so that one beats the last but not the minimum.
`SkipLimit` is 2 for the code's 100, with overflows below and at the limit;
`MaxPosition` is the number of positions the longest run consumes, so it never
cuts a run short. A third command may only evaluate a directory once more. The
constraint `FirstCommandInFirstRun` uses that the directories are
interchangeable. Deadlock is not checked: users may stop
asking, and the bounds end behaviours.

`training` checks `ExactLineage` (every checkpoint is a state of the
uninterrupted run), `MetricsIncrease`, `FilesAreBacked` (a remembered minimum has its
`best.pt`, a registered file is installed), `CheckpointsOnlyAdvance` (no file is
replaced by an older or worse one), `CompletedIsComplete` (success means `last.pt` at the
target and, where the target is a logged step, a summary that agrees with the metrics), `ForkIsNeverRefused` and
`EveryCommandEnds`. The parts about `best.pt` hold for directories with only
their own checkpoints where every validated step is logged (`SelfContained`);
otherwise a transient validation failure after a resume can replace `best.pt` by
a worse one.

`data`. Three preparations are the least for an interrupted one, its retry and one with
another configuration in the same run directory. With shards of two bytes a body can be
empty, cut, whole or overrun at each of the positions a `.part` file can end, and with two
attempts a failed one is retried on the file it leaves: `EveryPipelineCommandEnds` is about
commands that retry. What a published shard contains is checked apart, in `components`,
where the downloads run without the preparations.

`components` checks parts that share no state: `part` is chosen at the start and only
that part moves, so that the states are the sum of theirs and not the product. Its
instances, in the order of `Parts`:

| Part | Instance | Property |
|---|---|---|
| download | 2 shards of 2 bytes, 2 attempts, 2 commands | `PublishedIsWhole` |
| tokens | corpora of 2 to 4 documents of 0 to 4 tokens, rows of 4, batches of 2, 2 epochs, documents in order or reversed | `LoaderIsExact` |
| generation | 2 layers, window 3, prompts to 2, 3 new tokens, 2 tokens of which 1 stops | `GenerationIsExact`, `CacheIsLog` |
| bpe | one chunk of up to 6 bytes or two of 3, 3 merges, inputs to 5 bytes | `TokenizerIsReference` |
| sft | 2 sources of 2, repeated once and twice, 2 epochs, buffer 2, rows of 3 | `ConversationsAreExact` |
| prompt | 2 turns, system message, parts of 3 kinds, 8 limits | `PromptIsFaithful` |
| artifacts | 2 processes, 2 versions, 3 calls, 2 files | `PublishesOnce` |
| finetuning | 3 steps, log ahead of checkpoints or `best.pt` ahead of log, 3 score sequences, 2 bases, 3 commands | `FinetuningIsExact` |
| bpb | documents of 0 to 5 tokens in rows of 3, 3 protocols | `BpbIsExact` |
| chat_eval | 1 to 4 problems against a context of 3, batches of 2, 3 settings, 2 commands | `ChatEvaluationIsExact` |
| core | 3 task types, 0 or 1 shots, options of 1 to 4 tokens, context of 4 | `CoreIsExact` |
| comparison | 2 runs, each new or of an earlier release, 4 evaluations, target 1 | `ComparisonIsFair` |
| base_eval | 6 requests, 3 commands | `BaseReportIsWhole` |

Bounds of these. Rows, contexts and buffers are one less than, equal to and one more than
what they are filled with; batches of 2 leave an incomplete last batch; a pair of chunks
or runs gives ties; repeated commands come to three where something can be half done by the
second (`base_eval`, `artifacts`, `finetuning`) and to two elsewhere.

Fairness. `ChatSession`: started threads and ready callbacks run (weak fairness of
each); no request need come. `TrainingRun`: a process that is neither killed nor
failing goes on (`WF(Step)`); commands, failures and kills are not fair.
`DataPreparation`: the same for the preparation and, separately, the download. These
are what an operating system's scheduler gives; a model call or a server that never
returns is excluded (requests have a timeout). `components` has safety properties and
refinements only.

## Findings

1. `training/checkpoint.py:1021`: `--allow-non-exact-resume` cannot migrate a
   format-1 or -2 checkpoint, as the precision check before it always refuses.
2. `training/pretraining.py:661`: an interrupted run whose log is ahead of its
   newest checkpoint (or torn, or followed by an evaluation) does not resume under
   its own identity, as README 1426 says. It does in a new directory
   (`ForkIsNeverRefused`).
3. `comparison/loading.py:297`: the comparison reads `base_eval.json` of version 2 only
   (`loading.py:32`), `eval_base` writes version 3 (`evaluation/base_tracking.py:53`): runs
   trained and evaluated by this code can not be compared, as README 1619 says. The tests of
   the comparison make reports of version 2.
4. `tracking.py:647`: a failed turn's record can be in the local file.
5. `chat/engine.py:651`: a finished generator finalised late deactivates the stream
   that runs by then.

6. `tracking.py:903`: with a remote tracker, `prepare_data` in a run directory that
   has been prepared before is refused, so a retry cannot complete the events.

Seen while modelling and not stated as a run:

- `comparison/reporting.py:185`: the ranking looks at no checkpoint. A run that logged its
  last step, died before the final checkpoint and was evaluated at an older one has the
  status completed, and only finding 3 keeps it from being ranked.
- `tracking.py:358`: an evaluation of a checkpoint older than `summary.json` is appended to
  the journal and then refused by the summary; a retry passes over it, it never reaches the
  remote run, and the comparison refuses the directory from then on
  (`comparison/loading.py:255`).
- `evaluation/base_tracking.py:206`: after a kill between the CORE comparison and the
  report, only the same evaluation is accepted; samples carry their elapsed time
  (`evaluation/sampling.py:181`), so an evaluation with samples can not be repeated over
  its own report.
- `training/sft.py:459`: samples or a report that fail after the final checkpoint can not be
  made up for in that directory.
- `training/sft.py:776`: the resume check compares `metrics.jsonl` and `last.pt` with the
  checkpoint, not `best.pt`. After a death between installing `best.pt` and appending its
  validation, a resume of `best.pt` that ends before it logs and then one of an older
  checkpoint are both accepted, and the latter installs an earlier `best.pt`. The attempt to
  prove `FinetuningIsExact` showed this: two commands never do it, three do (target 3, no log,
  validate and save every step, scores 3, 2, 1), and only a fifth can leave a wrong
  `best.pt` beside a report.
- `tracking.py:358`: a pretraining run that dies between appending a step's record and
  writing the summary, and is then resumed to a target that is no logged step, ends
  `completed` with a summary behind its metrics: reopening a directory does not rebuild the
  summary, and the comparison refuses it (`comparison/loading.py:255`). It takes a target
  that `log_every` does not divide, which `CompletedIsComplete` therefore asks for.
- `chat/loader.py:586`: with a packing buffer of 1 `iter_epoch` may end with a batch of the
  next epoch; training does not call it.
- `evaluation/chat/execution.py:272`: a program that exits with 0 and whose stderr mentions
  "file too large" is neither passed nor failed but ends the whole evaluation.

## Proofs

Eight modules hold them. The only assumptions are the named ones of the modules about their
constants: that targets, cadences and limits are positive, scores are defined for every
step, sentinels differ from proper values, bounds on commands are numbers. TLC evaluates
them on every run. A premise a theorem has besides is named with it. No
theorem bounds the number of directories, steps, shards, threads or commands.

Induction over data. The library's induction theorems take a predicate as a parameter,
which no prover here can instantiate. Where a proof needs induction it is stated of sets
(`NaturalsAreInductive`: a set with 0 that is closed under successor has every natural) and
applied to the set of the numbers with the property; that theorem itself follows from the
least element of a set, hence from cardinality. A recursively defined value is handled by its
graph: `TotalIsSum`, `PlansExist` and `JoinsExist` show that the function the definition
chooses exists and satisfies its equations.

`ChatEngineProofs` proves, for any set of generators and any number of prompts:
`TypeCorrect` unconditionally, and under `CloseBeforeReuse` `OwnershipHolds`, `RepliesHold`,
`PendingHolds` and `TranscriptHolds`, that is, the invariants of `engine` and the refinement
of `ChatTranscript`. They rest on the assumption `ChatEngineAssumption` and nothing else.

The invariant `IInv` adds two facts the properties lack. `LivePrompts`: a generator that can
still run has the prompt it was made for, so `CanStart` and `CanComplete` compare against a
real prompt. `FinishedIsSettled`: while a completed generator waits to be closed nothing is
pending, so nothing can be running when its `finally` block clears the active flag; without
it `StreamClose` would not preserve `ActiveOwnership`. The alternation of roles is what
makes a rollback of two messages remove exactly one turn (`RollbackLeavesTurns`). The
refinement maps `transcript` to the answered turns of the history and `open` to the pending
prompt; `TranscriptStep` shows that each action is an abstract step or a stutter.

`GenerationProofs` proves of the cache, for any layers, capacity and entries and from
`CacheAssumption` alone, `KVTypesHold` and `CacheIsLogHolds`, that every behaviour of the
cache is one of `CacheLog`. The invariant `KVInv` adds to the types that an active
transaction has a token. `LogStep` has one step per action: beginning changes nothing
visible, a write is an offer (its positions lie behind the committed one, so the log is
untouched, and the layers written before keep their entries), a commit appends the block,
which `ConcatProperties` shows position by position, and whatever empties the set of written
layers drops what was offered. `NothingPending` and `CommittedIsSeq` turn the two mapped
functions into the sequences the log speaks of.

`GenerationIsExactHolds` says the same of batched generation, for any batch, prompts, limits
and number of layers: each row is what its request alone would give. `GenInv` relates the
batch to the steps taken: a row that goes on has drawn one token per step, one that stopped
has drawn fewer and keeps what it had (`RowsOK`), and the cache holds at each position of a
live row the entries that its tokens up to there determine (`LayersAreCausal`). Without the
last part the property is not inductive, since a sample is drawn from the cache.

`PromptIsFaithfulHolds` is about the prompt that generation continues, for any texts,
replies, number of turns and limit, from `RenderingAssumption` (sizes are naturals, a reply
is a sequence of parts, at most one system message leads). It has two halves. What is left
out: `RenderingInv` says that the messages left are a suffix of those received by whole
turns, that the prompt of a call under way is theirs, and that every shorter bound was tried
and was too long. `LaterTurnsAre` shows that dropping one turn of a suffix gives the next,
and that when one message is left it is the last user's; `SinglePromptIs` counts its four
controls, which is what `TruncateUser` subtracts from the limit, and `TruncatedIs` that what
it keeps is the end of the text. What is supervised: rendering joins what each message is
rendered to (`MessagesAre`, `FlattenAppend`), so a reply appends to the rendering
(`ReplyFollows`): the last user message is rendered the same way by the branch that treats
it apart and by the one that does not. `ReplyContinuesPrompt` then compares the two
position by position, and `CellOfPart` the flag of each with who wrote it.

`CoreIsExactHolds` is about a CORE task, for any examples, shots, limit and context. The
reference scores each option alone and whole: the tokens behind what all options begin with
(or in what they all end with), each after as much as the context holds. `CommonLengthIs` shows
that the greatest common length bounds just those tokens, from the right by mirroring
(`MirroredIs`, `SuffixIs`); `CutIs` that a scored token keeps its place in a row that is cut
on the left and padded on the right, so that `SeenIs` gives it the same context and
`LossIsMean` the option the same sum over the same count. `FirstLeastIs` is about the fold
over the options: it keeps one below which there is none, since "below" passes on
(`BelowPasses`, by cross-multiplied fractions) unless the mean of the first is undefined.
Losses and folds are the recursively chosen functions of `FoldsExist` and `SumsExist`.
`CoreInv` then says of a running task that every case so far has its expected answer.

`PublicationProofs` proves `PublishesOnceHolds` from `ArtifactAssumption`, for any
processes, versions and number of files. The invariant `CacheInv` says of every call how
much it has staged and from whom (`CallOK`): at the rename the list is full and, for a
process with a content of its own, is that content; a process that is to return what it
saved finds it in the directory. `StepOK` has one step per action; renaming is the delicate
one, as it changes what all other calls may conclude: it succeeds only when nothing is
written, and then nobody is about to return. `OnceStep` maps a successful rename to `Write`,
a start to `Ask`, a return to `Answer`, everything else to a stutter.

`ComparisonIsFairHolds` is about rankings, for any evaluations and any number of runs and
comparisons. `ComparisonInv` says of what was read of a run in separate steps that it still
agrees with what the run has written since: metrics only grow, and a report that is there
is never replaced by another. What was read has a version that is read, so what is ranked
has. That a ranking is ordered follows from `ListingExists`: a
finite set has one sequence that lists it in a strict total order.

Its third part is `ChatEvaluationIsExactHolds`. The problems examined (`ExaminedIs`) are the
fewest of which as many fit as the limit asks for, or all; so what is chosen from them is
what would be chosen from all (`OrderBeginsWith`: in an ordered list the elements up to a
bound come first). `ScoringOK` says of a task under way which problems have been scored, in
that order and each after its whole prompt (`ScoreIsRight`: a batch is as wide as its longest
prompt, so a row holds its own), which ones queue, and that the counts are those of a single
count (`CountedIs`). What is counted per group adds up to what was scored (`GroupTotalIs`),
so a finished task passes `ValidCategorical` and is never lost to its own check. The rest
relates the command to what lasts: results carry the command's limit, the report is of the
command's tasks before it is written (`TasksDone`), and a command journals only a report it
wrote or found equal, the artifact only after the metrics (`JournalGrows`).

`TrainingRunProofs` proves five theorems, in layers. `MetricsIncreaseHolds` and
`LastNeverRegressesHolds` use no assumption. The properties are not inductive: that the next
append is newer than what a directory holds has to come from the process. `RunInv` adds
`NotNewer`: while a process trains, neither `last.pt` nor any record of its directory is
newer than its model, and until a step's own record is appended, the records of that kind
are older. The resume check (`MayResume`) establishes it, whatever earlier commands left
behind; `ApplyStep` moves the model ahead; `AppendOK`, `QuietOK` and `SavesOK` show that
each later write keeps it, and `EndsOK` that a command that ends at any of them leaves
nothing out of order. The lemmas named `...Does` sum up each action once (`Moves`: to which
place, changing which fields of the directory), and the later layers reason from those.
`TypesHold` needs that a model is never ahead of its loader (`Placed`), `ExactLineageHolds`
that every model in memory or on disk is one an uninterrupted run passes through
(`OnLineage`) and that one that may be saved now stopped at the batch it applied last
(`AtBatch`); the batches of such a model are the unskipped positions in order, so appending
the next unskipped one keeps the lineage. `ForkIsNeverRefusedHolds` goes through the guards
of every refusal (`ForkRefusal`).

The module continues with the files: `FilesAreBackedHolds`,
`CheckpointsOnlyAdvanceHolds`, `CompletedIsCompleteHolds`. The heart is `ResumableKnow`:
whichever checkpoint of a self-contained directory the resume check lets a process continue
from, it knows the best score any checkpoint there knows. The newest record bounds what can
be resumed, and `LoggedUpTo` says every logged step up to a checkpoint's is in the metrics,
so a checkpoint that lacks a validation is older than its record. `LiveBacked` is the same
of the model in memory; `best.pt` is then replaced only by a strictly better one. `OwnInv`
says whose the checkpoints are, `EventsInv` that the event of a save names a file that is
there, and `CompletedInv` follows the last step through log, summary, saves and
registrations.

`DataPreparationProofs` proves `PublishedIsWholeHolds` (and again for the pipeline,
`PreparedIsWholeHolds`), `PipelineTypesHold`, `DatasetNeverLostHolds` and
`OneCoherentRecordHolds`. A `.part` file is always a beginning of its shard (`Beginning`),
whatever the server answers; `FetchOK` ties the request's range to that file, so appending
keeps it and a full size means the whole shard. `PlanIsSound` shows that whatever response
is accepted, it is appended only where it begins at the file's end, and declares the true
size. For the record, `PrepInv` says of every directory (`RunOK`) that its log is a
beginning of the events its completion state lists, and of the running command
(`ProgressOK`) that it writes the event at its place, or finds there the one it would write:
the log is at most one ahead of the saved progress, and a retry can only repeat that one.

Of the token loaders it proves `ResumesExactlyHolds`, `PlanIsBestFitHolds` and
`BatchesAreExactHolds`, together `LoaderIsExactHolds`, for any corpus, row length, batch size, shards and epochs, with
documents in order or reversed (the lemmas about epochs use only that an order is a
permutation of the documents, `AreDocuments`). `LoaderInv` says of the loader and of the
state saved from it that draws, epoch and rows are functions of the position, and that rows
are delivered in whole batches, so that an epoch ends where the next one is built: without
the second, a restored loader could step over the end of an epoch. `PlanOK` is the planner's
invariant: the index has each row that is not full at exactly its residual capacity, and no
capacity without a row is open. With it `PlaceKeeps` shows that the row found through the
index is the one that a look at all rows finds (`SameRowIsBest`), and `IndexIsBestFit`
that so are whole plans. `OnePlaceEach` is the other invariant of planning, that the rows
hold each piece so far at one place; with `WindowIs` (where the pieces of a row lie in its
window) and `TokenHasOnePiece` it gives that a token is predicted once. Flat windows are
counted as the disjoint union of those of the two shards.

`ChatSessionProofs` proves every safety property of `session` for any numbers of loads,
generations, tokens and resets: `SessionTypesHold`, `EnginesAccountedHolds`,
`StatusTruthfulHolds`, `SwapIsAtomicHolds`, `StreamWellFormedHolds`, `HistoryMatchesHolds`,
`HistoryIsTruthfulHolds` and the refinement `ServiceIsTransactionalHolds`. The worker's many
paths are first classified by what they do to engine, lease, queue and records
(`WorkerKind`), so that each layer treats a dozen kinds instead. `OwnershipOK`: the status,
the lock and the lease exclude each other, a live lease holds the current engine and
session, an engine whose load is done is the current one or closed, and all that waits in
the queue is of the current lease, the terminal last. `StreamsOK`: what was delivered,
followed by what waits in the queue, begins with the one start event. `TruthOK`: an engine's
history is the settled turns, followed by what the turn in flight has added (`QuietOK`,
`WaitingOK`, `CommittedOK`), and counters and records agree with the outcomes.
`HistoryIsTruthfulHolds` supposes `AtomicTracker`, that the tracker does not write a record
and then raise: a composite tracker may, and `session_partial` shows what follows, so the
premise can not be dropped. `session` satisfies it. The refinement: no step of a worker
changes the settled turns while it is in flight; accepting its outcome is `Answer` or
`Withdraw`, a start is `Ask`, and load, reset and shutdown are `Clear`.

`StageProofs` proves `BaseReportIsWholeHolds`, `FinetuningIsExactHolds` and
`ConversationsAreExactHolds`. For the first,
`BaseInv` follows a command through its stages: the modes are done in order, each file is
the report's once it is there, the journal is the first so many of the report's events and
the remote run has no others; a command that finds a report goes on only if it is equal. For
the second, `SftInv` says of every checkpoint on the shelf and in the directory that it is
exact (`IsExact`): fed what an uninterrupted run was fed, and with the validation that the
steps before it give. `OfSteps` describes that validation without choosing extremes (the
minimum is attained, and bounds the others); `ValidationIs` recovers the property's form.
`Covered` is what a resumption needs: `best.pt` is at a step that scored as well as anything
validated so far, or later. `OwnOK`, `ListedOK` and `ReportOK` are about the checkpoints of
the directory, the registered ones and the published report; `ModelOK`, `StageOK` and
`WrittenOK` about the command between two writes. The attempt showed the model's property
false with one more command; see "Seen while modelling".

`ConversationsAreExactHolds` is about the finetuning loader, for any sources, repetitions,
schedules, row, batch and buffer sizes, and however often it is saved, opened anew and
restored, also in the middle of an epoch. `ConversationInv` has three parts. *One orbit*: what the
loader does next while it makes batches is determined (`Advance`; of the conversations that
fit one is chosen, `LargestIsOne`), so a fresh loader runs through one infinite sequence of
states, its orbit (`IsOrbit`, `OrbitExists`), on which the running loader and the saved one
lie (`Follows`) and from which every delivered batch comes (`Delivers`). At most one state of the orbit emits a
given step (`OneBatchPerStep`), so a step reached again gets the same batch: this is
`StreamIsFixed`. *Accounting* (`Accounted`, `FeedCounts`): the supervised conversations
pulled in an epoch are those under way (batch, row, buffer) and those of the epoch's batches up to
the current step, no two of these meet, and their number is what the counters say. Both the
running and the saved loader satisfy it against the same deliveries; nothing weaker would do, as a
restored loader must find what it delivered and not what was delivered since. *Passes*
(`PassOK`, `PassHolds`): with a buffer of more than one, an epoch that packed anything is not
found drained at the start of a batch, so a pass yields its own epoch only.

Only model-checked:

- liveness, which is out of this prover's reach as is ENABLED: `OperationsSettle`,
  `ShutdownReleases`, `EveryCommandEnds`, `EveryPipelineCommandEnds`;
- what the remaining algorithms compute: `TokenizerIsReference` (two tables of merges, an
  incremental index against a full recount) and `BpbIsExact`. Each is built of many folds,
  and every use of a fold needs an induction of its own;
- the violations, which are counterexamples.

## Plan

What is left to prove is `BpbIsExact` and `TokenizerIsReference`, by the folds of
`FiniteOrders`: the planner of bits per byte first, whose rows are those of `TokenLoader`.

## Not modelled

- Configuration, identities, JSON and file formats: validation and serialization. A
  configuration is an opaque value; `save_json` and a checkpoint's install are atomic.
- Tensor arithmetic, attention backends, optimizers, precision, schedules: numeric, and
  tested numerically. What of them is control (skipped attempts, what a position may
  depend on) is in `TrainingRun` and `Generation`.
- Diagnostics and benchmarks (throughput, memory, resource estimates), the tokenizer
  comparison: sequential measurements.
- Discovery and schema checks of external data; the regular expression that splits text
  (external, chunks are an input of `BytePair`).
- The subprocess that runs a generated program, beyond how it ends.
- W&B beyond what is sent to it and `tracking_state.json`'s refusal; request validation,
  SSE framing and the browser client of the web application.
- Two processes in one run directory or on one `.part` file: nothing in the code
  prevents them, and the scripts are documented for one.
