---------------------------- MODULE MCComponents ----------------------------
(***************************************************************************)
(* Components that share no state, checked side by side: a behaviour       *)
(* chooses one of them (`part`) and takes its steps only; the others stay  *)
(* in one of their initial states.  The states are the sum of those of the *)
(* components, not the product.                                            *)
(***************************************************************************)
EXTENDS ShardDownload, TokenLoader, Generation, BytePair, ConversationLoader,
        ChatRendering, ArtifactCache, FinetuningRun, BitsPerByte,
        ChatEvaluation, CoreEvaluation, RunComparison, BaseEvaluation

CONSTANTS a, b, stop, p1, p2

VARIABLE part

(***************************************************************************)
(* Instances.                                                              *)
(***************************************************************************)
\* Two or three documents of up to four tokens against rows of four; four
\* short ones, for the best fit to have a choice.
MCCorpora == [1 .. 3 -> {1, 3, 4}] \cup [1 .. 4 -> 1 .. 2]
             \cup {<<0, 4, 1>>, <<3, 0, 0>>, <<4, 1, 0>>}

\* One chunk of up to six bytes, or two of three.
MCBpeCorpora ==
  {<<c>> : c \in UNION {[1 .. n -> {0, 1}] : n \in 5 .. 6}}
  \cup {<<c, d>> : c \in [1 .. 3 -> {0, 1}], d \in [1 .. 3 -> {0, 1}]}
MCBpeInputs == UNION {[1 .. n -> {0, 1}] : n \in 4 .. 5}

\* Conversations that fit with others in a row, that are cut to one, and
\* that have nothing supervised in what is kept.
Small == [size |-> 2, first |-> 2]
Long  == [size |-> 4, first |-> 2]
Mute  == [size |-> 4, first |-> 4]
MCRepeats == <<1, 2>>
MCSftCorpora ==
  {<<x, y>> : x \in {<<Mute, Small>>, <<Long, Mute>>},
              y \in {<<Small, Long>>, <<Mute, Mute>>}}
MCMixtureOrders == {<<1, 2, 2, 1, 2, 2>>, <<2, 2, 1, 2, 1, 2>>}

Part(k, n) == [kind |-> k, size |-> n]
MCSystems == {<<>>, <<1>>}
MCAssistantParts ==
  {<<Part("text", 0)>>, <<Part("text", 2)>>,
   <<Part("text", 1), Part("python", 1), Part("output", 2)>>}

SftConfig(target, log, eval, save) ==
  [target |-> target, log |-> log, eval |-> eval, save |-> save]
\* The log is ahead of the checkpoints, or best.pt is ahead of the log.
MCSftConfigs == {SftConfig(3, 1, 2, 2), SftConfig(3, 4, 1, 1)}
MCSftScores  == {<<3, 2, 1>>, <<1, 2, 2>>, <<2, 1, 1>>}

\* Documents of no token, one, one row of three, more than one row.
MCBpbCorpora == UNION {[1 .. n -> {0, 1, 2, 3, 5}] : n \in 1 .. 2}
                \cup {<<2, 1, 5>>, <<1, 1, 3>>, <<5, 0, 2>>, <<3, 5, 1>>}
Validated(n, targets) == [conversations |-> n, targets |-> targets]
MCSftValidation == {<<>>, <<Validated(2, 0), Validated(1, 3)>>}

\* Prompts longer than the context of three, first and in between; full,
\* bounded and partial evaluations; programs that pass, that are not waited
\* for, and that pass with a message of the file-size limit.
Asking(length, group) == [length |-> length, group |-> group]
MCCategoricalTasks ==
  {<<Asking(2, "x"), Asking(4, "x"), Asking(1, "y")>>,
   <<Asking(4, "x"), Asking(3, "y"), Asking(1, "y"), Asking(2, "x")>>, <<Asking(4, "x")>>}
MCChatSettings ==
  {[tasks |-> <<"categorical", "program">>, limit |-> 0],
   [tasks |-> <<"categorical", "program">>, limit |-> 1],
   [tasks |-> <<"categorical">>, limit |-> 2]}
MCProgramRuns ==
  {[ended |-> "exit", code |-> 0, stderr |-> ""],
   [ended |-> "exit", code |-> 0, stderr |-> "File too large"],
   [ended |-> "timeout", code |-> 0, stderr |-> ""]}

\* Options of one and several tokens, with a common beginning, one the
\* beginning of another, and longer than the context.
Option(context, options, gold) == [context |-> context, options |-> options, gold |-> gold]
MCOptions == {<<<<1>>, <<2>>>>, <<<<1, 2>>, <<1, 1>>>>, <<<<1>>, <<1, 2>>>>,
              <<<<2, 1, 2>>, <<2>>, <<1>>>>, <<<<1, 2, 2, 1>>, <<2>>>>}
MCCoreTasks ==
  {[type |-> type, fewshot |-> shots,
    examples |-> <<Option(<<2>>, x, 1),
                   Option(<<1, 1>>, y, IF type = "language_modeling" THEN 1 ELSE 2)>>] :
     type \in {"multiple_choice", "schema", "language_modeling"}, shots \in {0, 1},
     x \in MCOptions, y \in MCOptions}
  \cup {[type |-> "schema", fewshot |-> 1,
         examples |-> [e \in 1 .. 3 |-> Option(<<e>>, <<<<1>>, <<2>>>>, 1)]]}

\* One report after another, bounded and full, with and without samples.
Request(checkpoint, modes, limit) ==
  [checkpoint |-> checkpoint, modes |-> modes, limit |-> limit]
MCBaseRequests ==
  {Request(1, <<"bpb", "sample">>, 0), Request(1, <<"core">>, 0),
   Request(1, <<"core">>, 2), Request(2, <<"core", "bpb">>, 0),
   Request(1, <<"bpb">>, 0), Request(1, <<"sample", "core">>, 2)}

Report(value, key) == [score |-> value, key |-> key, bpb |-> TRUE]
MCContestReports ==
  {Report(1, "a"), Report(2, "a"), Report(1, "b"), [score |-> 0, key |-> "a", bpb |-> FALSE]}

(***************************************************************************)
(* The sum.  A component that is not chosen starts in a fixed state.       *)
(***************************************************************************)
Parts == {"download", "tokens", "generation", "bpe", "sft", "prompt", "artifacts",
          "finetuning", "bpb", "chat_eval", "core", "comparison",
          "base_eval"}

IdleLoader ==
  /\ docs = <<1>> /\ orders = [e \in 1 .. MaxEpochs |-> <<1>>]
  /\ loader = Opened("flat") /\ stored = NoState
IdleBpe ==
  /\ index = Indexed(<<<<0>>>>) /\ encoder = NoChunk
  /\ trainer = [at |-> "select", chunks |-> <<<<0>>>>, merges |-> <<>>,
                pair |-> <<0, 0>>, left |-> {}, count |-> 0]
IdleFeed ==
  /\ sources = <<<<Mute, Small>>, <<Small, Long>>>> /\ turning = FALSE
  /\ schedules = [e \in 1 .. MaxSftEpochs |-> <<1, 2, 2, 1, 2, 2>>]
  /\ feed = OpenedFeed /\ savedFeed = feed /\ epochPass = NoPass /\ delivered = <<>>
IdlePrompt ==
  LET messages == MessagesOf(<<>>, <<0>>, <<>>)
  IN  prompting = [at |-> "done", given |-> messages, messages |-> messages, limit |-> 40,
                   dropped |-> 0, truncated |-> 0, prompt |-> WholePrompt(messages)]
IdleArtifacts ==
  /\ family = "hub" /\ remote = 1 /\ directory = NoContent /\ calls = 0
  /\ publisher = [p \in Publishers |-> NoCall]
IdleFinetuning ==
  /\ score = <<3, 2, 1>> /\ folder = EmptyFolder /\ shelf = {}
  /\ tuning = Parked /\ sftCalls = 0
IdleBpb ==
  /\ bpbDocs = <<1>> /\ packer = NoPacker
  /\ mood = [training |-> TRUE, random |-> 0]
  /\ bpb = [at |-> "open", protocol |-> "full", batches |-> 0, totals |-> NoTotals,
            feed |-> <<>>, budget |-> 0, conversations |-> 0, result |-> "none",
            saved |-> mood]
IdleChatEvaluation ==
  /\ problems = <<Asking(1, "x")>> /\ able = {} /\ evaluation = Resting
  /\ evaluations = 0 /\ runFiles = [report |-> NoReport, journal |-> <<>>, behind |-> FALSE]
IdleCore ==
  /\ coreTask = [type |-> "schema", fewshot |-> 0, examples |-> <<Option(<<1>>, <<>>, 1)>>]
  /\ core = [at |-> "open", limit |-> 0, cases |-> <<>>, answers |-> <<>>, correct |-> 0]

IdleComparison ==
  /\ contest = [r \in Contestants |-> NewRun]
  /\ judge = OffDuty /\ comparisons = 0
  /\ verdict = [markdown |-> NoVerdict, json |-> NoVerdict]

MCInit ==
  /\ part \in Parts
  /\ DownloadInit
  /\ IF part = "tokens" THEN LoaderInit ELSE IdleLoader
  /\ KVInit /\ GenerationInit /\ (part # "generation" => ambient.training)
  /\ IF part = "bpe" THEN BpeInit ELSE IdleBpe
  /\ IF part = "sft" THEN FeedInit ELSE IdleFeed
  /\ IF part = "prompt" THEN RenderingInit ELSE IdlePrompt
  /\ IF part = "artifacts" THEN ArtifactInit ELSE IdleArtifacts
  /\ IF part = "finetuning" THEN FinetuningInit ELSE IdleFinetuning
  /\ IF part = "bpb" THEN BpbInit ELSE IdleBpb
  /\ IF part = "chat_eval" THEN ChatEvaluationInit ELSE IdleChatEvaluation
  /\ IF part = "core" THEN CoreInit ELSE IdleCore
  /\ IF part = "comparison" THEN ComparisonInit ELSE IdleComparison
  /\ BaseInit

MCNext ==
  \/ /\ part = "download" /\ DownloadNext
     /\ UNCHANGED <<part, loaderVars, generationVars, bpeVars, feedVars, prompting,
                  artifactVars, finetuningVars, bpbVars, chatEvaluationVars, coreVars,
                  comparisonVars, baseVars>>
  \/ /\ part = "tokens" /\ LoaderNext
     /\ UNCHANGED <<part, downloadVars, generationVars, bpeVars, feedVars, prompting,
                  artifactVars, finetuningVars, bpbVars, chatEvaluationVars, coreVars,
                  comparisonVars, baseVars>>
  \/ /\ part = "generation" /\ GenerationNext
     /\ UNCHANGED <<part, downloadVars, loaderVars, bpeVars, feedVars, prompting,
                  artifactVars, finetuningVars, bpbVars, chatEvaluationVars, coreVars,
                  comparisonVars, baseVars>>
  \/ /\ part = "bpe" /\ BpeNext
     /\ UNCHANGED <<part, downloadVars, loaderVars, generationVars, feedVars, prompting,
                  artifactVars, finetuningVars, bpbVars, chatEvaluationVars, coreVars,
                  comparisonVars, baseVars>>
  \/ /\ part = "sft" /\ FeedNext
     /\ UNCHANGED <<part, downloadVars, loaderVars, generationVars, bpeVars, prompting,
                  artifactVars, finetuningVars, bpbVars, chatEvaluationVars, coreVars,
                  comparisonVars, baseVars>>
  \/ /\ part = "prompt" /\ RenderingNext
     /\ UNCHANGED <<part, downloadVars, loaderVars, generationVars, bpeVars, feedVars,
                  artifactVars, finetuningVars, bpbVars, chatEvaluationVars, coreVars,
                  comparisonVars, baseVars>>
  \/ /\ part = "artifacts" /\ ArtifactNext
     /\ UNCHANGED <<part, downloadVars, loaderVars, generationVars, bpeVars, feedVars,
                  prompting, finetuningVars, bpbVars, chatEvaluationVars, coreVars,
                  comparisonVars, baseVars>>
  \/ /\ part = "finetuning" /\ FinetuningNext
     /\ UNCHANGED <<part, downloadVars, loaderVars, generationVars, bpeVars, feedVars,
                  prompting, artifactVars, bpbVars, chatEvaluationVars, coreVars,
                  comparisonVars, baseVars>>
  \/ /\ part = "bpb" /\ BpbNext
     /\ UNCHANGED <<part, downloadVars, loaderVars, generationVars, bpeVars, feedVars,
                  prompting, artifactVars, finetuningVars, chatEvaluationVars, coreVars,
                  comparisonVars, baseVars>>
  \/ /\ part = "chat_eval" /\ ChatEvaluationNext
     /\ UNCHANGED <<part, downloadVars, loaderVars, generationVars, bpeVars, feedVars,
                  prompting, artifactVars, finetuningVars, bpbVars, coreVars,
                  comparisonVars, baseVars>>
  \/ /\ part = "core" /\ CoreNext
     /\ UNCHANGED <<part, downloadVars, loaderVars, generationVars, bpeVars, feedVars,
                  prompting, artifactVars, finetuningVars, bpbVars, chatEvaluationVars,
                  comparisonVars, baseVars>>
  \/ /\ part = "comparison" /\ ComparisonNext
     /\ UNCHANGED <<part, downloadVars, loaderVars, generationVars, bpeVars, feedVars,
                  prompting, artifactVars, finetuningVars, bpbVars, chatEvaluationVars,
                  coreVars, baseVars>>
  \/ /\ part = "base_eval" /\ BaseNext
     /\ UNCHANGED <<part, downloadVars, loaderVars, generationVars, bpeVars, feedVars,
                  prompting, artifactVars, finetuningVars, bpbVars, chatEvaluationVars,
                  coreVars, comparisonVars>>

MCVars == <<part, downloadVars, loaderVars, generationVars, bpeVars, feedVars,
            prompting, artifactVars, finetuningVars, bpbVars, chatEvaluationVars,
            coreVars, comparisonVars, baseVars>>
MCSpec == MCInit /\ [][MCNext]_MCVars
=============================================================================
