-------------------------- MODULE DataPreparation --------------------------
(***************************************************************************)
(* Preparing tokenized data in a tracked run (data/preparation.py,         *)
(* data/tokenized.py, data/statistics.py, data/loaders.py, tracking.py)    *)
(* from the parquet shards that ShardDownload publishes, while downloads   *)
(* may be going on.  A command describes the raw data, writes or reuses    *)
(* the dataset, installs two descriptions and a completion state in its    *)
(* run directory, and records three identified events.  It may raise or be *)
(* killed between any two durable writes.                                  *)
(*                                                                         *)
(* A payload is the shard it was encoded from; document and token counts   *)
(* are functions of the shards and the tokenizer and are compared as such. *)
(***************************************************************************)
EXTENDS ShardDownload, FiniteSets

CONSTANTS PrepRuns,        \* run directories
          PrepConfigs,     \* their configurations
          NoTokenizer,     \* no tokenizer
          MaxPreparations  \* bound on the preparation commands explored

ASSUME PrepAssumption ==
  /\ \A c \in PrepConfigs : /\ c.shards \in Nat /\ c.remote \in BOOLEAN
                            /\ c.tokenizer # NoTokenizer
  /\ MaxPreparations \in Nat

VARIABLES dataset,      \* the directory at data.tokenized_dir
          backup,       \* a dataset set aside by an interrupted replacement
          prepRuns,     \* the contents of each run directory
          prep,         \* the running command
          preparations  \* number of preparation commands so far

prepVars == <<dataset, backup, prepRuns, prep, preparations>>

(***************************************************************************)
(* Shards and datasets.                                                    *)
(***************************************************************************)
\* list_parquet_files and select_parquet_files: .part files do not count.
LocalShards == {s \in Shards : published[s] # Absent}
HasValidation == ValidationIndex \in LocalShards
Ranked(S, i) == CHOOSE s \in S : Cardinality({t \in S : t < s}) = i - 1
TrainPrefix(n) ==
  LET train == LocalShards \ {ValidationIndex}
      count == IF n < Cardinality(train) THEN n ELSE Cardinality(train)
  IN  [i \in 1 .. count |-> Ranked(train, i)]

\* A dataset directory: what is being written into it, how many payloads
\* are there (the validation payload is the last), and its manifest.
Dataset(train, tokenizer, written, sealed) ==
  [train |-> train, tokenizer |-> tokenizer, written |-> written, sealed |-> sealed]
NoDataset == Dataset(<<>>, NoTokenizer, 0, FALSE)

IsWhole(d) == d.sealed /\ d.written = Len(d.train) + 1
\* TokenizedShardReader: manifest, tokenizer and every payload must agree.
Readable(d, tokenizer) == d # NoDataset /\ IsWhole(d) /\ d.tokenizer = tokenizer
Manifest(d) == [train |-> d.train, tokenizer |-> d.tokenizer]
NoManifest == Manifest(NoDataset)

\* RawDataStatistics: the selected shards and those whose documents were
\* counted, which a second listing of the directory selects.
Statistics(selected, counted) == [selected |-> selected, counted |-> counted]
NoStatistics == Statistics(<<>>, <<>>)

\* _validate_manifest_matches_statistics
Matches(manifest, stats) ==
  manifest.train = stats.selected /\ manifest.train = stats.counted

(***************************************************************************)
(* Run directories.                                                        *)
(***************************************************************************)
EventKinds == <<"metrics", "data_stats", "tokenized_shard_manifest">>
Identity(stats, manifest) == <<stats, manifest>>
TrackingEvent(kind, identity, timed) ==
  [kind |-> kind, identity |-> identity, timed |-> timed]

NoConfig == [shards |-> 0, tokenizer |-> NoTokenizer, remote |-> FALSE]
NoCompletion == [stats |-> NoStatistics, manifest |-> NoManifest, timed |-> FALSE,
                 completed |-> 0, saved |-> FALSE]

NewPrepRun ==
  [config     |-> NoConfig,      \* config.yaml and the first line of the log
   torn       |-> FALSE,         \* metrics.jsonl ends in an incomplete line
   journal    |-> <<>>,          \* its identified events
   tracking   |-> 0,             \* tracking_state.json: the remote run's id
   remote     |-> <<>>,          \* the events the remote run received
   status     |-> "none",        \* summary.json
   stats      |-> NoStatistics,  \* artifacts/data_stats.json
   manifest   |-> NoManifest,    \* artifacts/tokenized_shard_manifest.json
   completion |-> NoCompletion]  \* artifacts/.data_preparation_state.json

IdlePrep == [at |-> "idle", run |-> "none", config |-> NoConfig, overwrite |-> FALSE,
             stats |-> NoStatistics, staging |-> NoDataset, manifest |-> NoManifest,
             timed |-> FALSE, done |-> 0, reply |-> "none"]

PrepRun == prepRuns[prep.run]
WriteRun(d) == prepRuns' = [prepRuns EXCEPT ![prep.run] = d]
Goto(at) == prep' = [prep EXCEPT !.at = at]
EndPrep(status, reply) ==
  /\ WriteRun([PrepRun EXCEPT !.status = status])
  /\ prep' = [IdlePrep EXCEPT !.reply = reply]
\* An exception inside `with tracker`: the run is marked failed.
Raise == EndPrep("failed", "failed")

StartPreparation(r, c, overwrite) ==
  /\ prep.at = "idle" /\ preparations < MaxPreparations
  /\ prep' = [IdlePrep EXCEPT !.at = "open", !.run = r, !.config = c,
                              !.overwrite = overwrite]
  /\ preparations' = preparations + 1
  /\ UNCHANGED <<dataset, backup, prepRuns, downloadVars>>

(***************************************************************************)
(* Opening the run.  A remote backend starts a new remote run each time,   *)
(* and the directory accepts only the one it was first opened with.        *)
(***************************************************************************)
LocalConflict == PrepRun.config \notin {NoConfig, prep.config} \/ PrepRun.torn
RemoteConflict == prep.config.remote /\ PrepRun.tracking # 0

OpenRun ==
  /\ prep.at = "open" /\ ~LocalConflict /\ ~RemoteConflict
  /\ WriteRun([PrepRun EXCEPT
       !.config = prep.config, !.status = "running",
       !.tracking = IF prep.config.remote THEN preparations ELSE 0])
  /\ Goto("select")
  /\ UNCHANGED <<dataset, backup, preparations, downloadVars>>

\* The log is opened before the remote run: its conflict fails the summary.
RefuseRun ==
  /\ prep.at = "open"
  /\ LocalConflict \/ RemoteConflict
  /\ EndPrep(IF LocalConflict THEN PrepRun.status ELSE "failed", "refused")
  /\ UNCHANGED <<dataset, backup, preparations, downloadVars>>

(***************************************************************************)
(* compute_raw_data_statistics: one listing selects, another one counts.   *)
(***************************************************************************)
SelectShards ==
  /\ prep.at = "select" /\ HasValidation
  /\ prep' = [prep EXCEPT !.at = "count",
                          !.stats.selected = TrainPrefix(prep.config.shards)]
  /\ UNCHANGED <<dataset, backup, prepRuns, preparations, downloadVars>>

CountShards ==
  /\ prep.at = "count"
  /\ prep' = [prep EXCEPT !.at = "decide",
                          !.stats.counted = TrainPrefix(prep.config.shards)]
  /\ UNCHANGED <<dataset, backup, prepRuns, preparations, downloadVars>>

MissingValidation ==
  /\ prep.at = "select" /\ ~HasValidation
  /\ Raise
  /\ UNCHANGED <<dataset, backup, preparations, downloadVars>>

(***************************************************************************)
(* Reusing a completed preparation, reusing a dataset, or writing one.     *)
(***************************************************************************)
\* _load_completion_state and _validate_artifact_file
CompletionHolds(state, manifest) ==
  /\ Matches(manifest, prep.stats)
  /\ state.stats = prep.stats /\ state.manifest = manifest
  /\ PrepRun.stats = prep.stats /\ PrepRun.manifest = manifest

CanReuseCompletion ==
  /\ ~prep.overwrite
  /\ Readable(dataset, prep.config.tokenizer)
  /\ CompletionHolds(PrepRun.completion, Manifest(dataset))

ReuseCompletion ==
  /\ prep.at = "decide" /\ PrepRun.completion.saved /\ CanReuseCompletion
  /\ prep' = [prep EXCEPT !.at = "record", !.manifest = Manifest(dataset),
                          !.timed = PrepRun.completion.timed]
  /\ UNCHANGED <<dataset, backup, prepRuns, preparations, downloadVars>>

RejectCompletion ==
  /\ prep.at = "decide" /\ PrepRun.completion.saved /\ ~CanReuseCompletion
  /\ Raise
  /\ UNCHANGED <<dataset, backup, preparations, downloadVars>>

ReuseDataset ==
  /\ prep.at = "decide" /\ ~PrepRun.completion.saved
  /\ dataset # NoDataset /\ ~prep.overwrite
  /\ IF Readable(dataset, prep.config.tokenizer) /\ Matches(Manifest(dataset), prep.stats)
     THEN /\ prep' = [prep EXCEPT !.at = "describe", !.manifest = Manifest(dataset)]
          /\ UNCHANGED prepRuns
     ELSE Raise
  /\ UNCHANGED <<dataset, backup, preparations, downloadVars>>

\* write_tokenized_parquet_shards lists the directory once more.
BeginDataset ==
  /\ prep.at = "decide" /\ ~PrepRun.completion.saved
  /\ dataset = NoDataset \/ prep.overwrite
  /\ LET train == TrainPrefix(prep.config.shards)
     IN  IF train # <<>> /\ HasValidation
         THEN /\ prep' = [prep EXCEPT !.at = "stage", !.timed = TRUE,
                    !.staging = Dataset(train, prep.config.tokenizer, 0, FALSE)]
              /\ UNCHANGED prepRuns
         ELSE Raise
  /\ UNCHANGED <<dataset, backup, preparations, downloadVars>>

\* Mutant: one payload too many.
StageShardAgain ==
  /\ prep.at = "stage" /\ prep.staging.written <= Len(prep.staging.train) + 1
  /\ prep' = [prep EXCEPT !.staging.written = @ + 1]
  /\ UNCHANGED <<dataset, backup, prepRuns, preparations, downloadVars>>

StageShard ==
  /\ prep.at = "stage" /\ prep.staging.written <= Len(prep.staging.train)
  /\ prep' = [prep EXCEPT !.staging.written = @ + 1]
  /\ UNCHANGED <<dataset, backup, prepRuns, preparations, downloadVars>>

\* The manifest is the last file of the staging directory, which must then
\* read back.
SealStaging ==
  /\ prep.at = "stage" /\ prep.staging.written = Len(prep.staging.train) + 1
  /\ prep' = [prep EXCEPT !.at = "publish", !.staging.sealed = TRUE]
  /\ UNCHANGED <<dataset, backup, prepRuns, preparations, downloadVars>>

\* Encoding or writing fails; the staging directory is removed.
StagingFails ==
  /\ prep.at \in {"stage", "publish", "replace", "discard"}
  /\ Raise
  \* _publish_staged_directory puts the previous dataset back.
  /\ IF prep.at = "replace"
     THEN dataset' = backup /\ backup' = NoDataset
     ELSE UNCHANGED <<dataset, backup>>
  /\ UNCHANGED <<preparations, downloadVars>>

\* _publish_staged_directory: a rename, or a dataset set aside and a rename.
Published == [prep EXCEPT !.at = "match", !.staging = NoDataset,
                          !.manifest = Manifest(prep.staging)]

PublishDataset ==
  /\ prep.at = "publish" /\ dataset = NoDataset
  /\ dataset' = prep.staging /\ prep' = Published
  /\ UNCHANGED <<backup, prepRuns, preparations, downloadVars>>

\* Mutant: the old dataset is removed before the new one is in its place.
SetAsideRemoves ==
  /\ prep.at = "publish" /\ dataset # NoDataset
  /\ dataset' = NoDataset
  /\ Goto("replace")
  /\ UNCHANGED <<backup, prepRuns, preparations, downloadVars>>

SetAside ==
  /\ prep.at = "publish" /\ dataset # NoDataset
  /\ backup' = dataset /\ dataset' = NoDataset
  /\ Goto("replace")
  /\ UNCHANGED <<prepRuns, preparations, downloadVars>>

ReplaceDataset ==
  /\ prep.at = "replace"
  /\ dataset' = prep.staging /\ Goto("discard")
  /\ UNCHANGED <<backup, prepRuns, preparations, downloadVars>>

DiscardBackup ==
  /\ prep.at = "discard"
  /\ backup' = NoDataset /\ prep' = Published
  /\ UNCHANGED <<dataset, prepRuns, preparations, downloadVars>>

MatchDataset ==
  /\ prep.at = "match"
  /\ IF Matches(prep.manifest, prep.stats)
     THEN Goto("describe") /\ UNCHANGED prepRuns
     ELSE Raise
  /\ UNCHANGED <<dataset, backup, preparations, downloadVars>>

(***************************************************************************)
(* Installing the descriptions, then the completion state.                 *)
(***************************************************************************)
DescribeRawData ==
  /\ prep.at = "describe"
  /\ WriteRun([PrepRun EXCEPT !.stats = prep.stats])
  /\ Goto("describe_manifest")
  /\ UNCHANGED <<dataset, backup, preparations, downloadVars>>

DescribeDataset ==
  /\ prep.at = "describe_manifest"
  /\ WriteRun([PrepRun EXCEPT !.manifest = prep.manifest])
  /\ Goto("complete")
  /\ UNCHANGED <<dataset, backup, preparations, downloadVars>>

SaveCompletion ==
  /\ prep.at = "complete"
  /\ WriteRun([PrepRun EXCEPT !.completion =
       [stats |-> prep.stats, manifest |-> prep.manifest, timed |-> prep.timed,
        completed |-> 0, saved |-> TRUE]])
  /\ Goto("record")
  /\ UNCHANGED <<dataset, backup, preparations, downloadVars>>

(***************************************************************************)
(* _record_tracking_events.  RunTracker.log_once appends an event the log  *)
(* does not have, then hands it to the remote run; an event the log has is *)
(* handed to nobody.                                                       *)
(***************************************************************************)
Event == TrackingEvent(EventKinds[prep.done + 1], Identity(prep.stats, prep.manifest),
                       prep.timed)
SameEvent(e) == e.kind = Event.kind /\ e.identity = Event.identity
\* Mutant: an event is looked for where a retry would list it as completed.
RecordedIfCompleted == PrepRun.completion.completed > prep.done
Recorded == \E i \in DOMAIN PrepRun.journal : SameEvent(PrepRun.journal[i])

AppendEvent ==
  /\ prep.at = "record" /\ prep.done < Len(EventKinds) /\ ~Recorded
  /\ WriteRun([PrepRun EXCEPT !.journal = Append(@, Event)])
  /\ Goto(IF prep.config.remote THEN "fan_out" ELSE "advance")
  /\ UNCHANGED <<dataset, backup, preparations, downloadVars>>

FindEvent ==
  /\ prep.at = "record" /\ prep.done < Len(EventKinds) /\ Recorded
  /\ Goto("advance")
  /\ UNCHANGED <<dataset, backup, prepRuns, preparations, downloadVars>>

FanOut ==
  /\ prep.at = "fan_out"
  /\ WriteRun([PrepRun EXCEPT !.remote = Append(@, Event)])
  /\ Goto("advance")
  /\ UNCHANGED <<dataset, backup, preparations, downloadVars>>

\* The state lists the event as completed, if it does not do so already.
AdvanceCompletion ==
  /\ prep.at = "advance"
  /\ WriteRun([PrepRun EXCEPT !.completion.completed =
                 IF @ > prep.done THEN @ ELSE prep.done + 1])
  /\ prep' = [prep EXCEPT !.at = "record", !.done = @ + 1]
  /\ UNCHANGED <<dataset, backup, preparations, downloadVars>>

FinishPreparation ==
  /\ prep.at = "record" /\ prep.done = Len(EventKinds)
  /\ EndPrep("completed", "completed")
  /\ UNCHANGED <<dataset, backup, preparations, downloadVars>>

\* A write of the description files, the state, the log or the remote run fails.
WriteFails ==
  /\ prep.at \in {"describe", "describe_manifest", "complete", "record", "fan_out",
                  "advance"}
  /\ Raise
  /\ UNCHANGED <<dataset, backup, preparations, downloadVars>>

\* The process dies, possibly in the middle of a line of the log.
KillPreparation(torn) ==
  /\ prep.at # "idle"
  /\ torn => prep.at = "record" /\ prep.done < Len(EventKinds)
  /\ WriteRun([PrepRun EXCEPT !.torn = torn \/ @])
  /\ prep' = [IdlePrep EXCEPT !.reply = "killed"]
  /\ UNCHANGED <<dataset, backup, preparations, downloadVars>>

PrepInit ==
  /\ dataset = NoDataset /\ backup = NoDataset
  /\ prepRuns = [r \in PrepRuns |-> NewPrepRun]
  /\ prep = IdlePrep /\ preparations = 0

PrepStep ==
  \/ OpenRun \/ RefuseRun
  \/ SelectShards \/ CountShards \/ MissingValidation
  \/ ReuseCompletion \/ RejectCompletion \/ ReuseDataset
  \/ BeginDataset \/ StageShard \/ SealStaging \/ StagingFails
  \/ PublishDataset \/ SetAside \/ ReplaceDataset \/ DiscardBackup
  \/ MatchDataset
  \/ DescribeRawData \/ DescribeDataset \/ SaveCompletion
  \/ AppendEvent \/ FindEvent \/ FanOut \/ AdvanceCompletion
  \/ FinishPreparation \/ WriteFails

PrepNext ==
  \/ \E r \in PrepRuns, c \in PrepConfigs, o \in BOOLEAN : StartPreparation(r, c, o)
  \/ PrepStep
  \/ \E torn \in BOOLEAN : KillPreparation(torn)

\* A user downloads and prepares, possibly at the same time.
PipelineInit == DownloadInit /\ PrepInit
PipelineNext == PrepNext \/ (DownloadNext /\ UNCHANGED prepVars)
pipelineVars == <<prepVars, downloadVars>>

\* A process that is neither killed nor failing goes on.
PipelineFairness ==
  /\ WF_pipelineVars(PrepStep)
  /\ WF_pipelineVars(DownloadStep /\ UNCHANGED prepVars)
PipelineSpec == PipelineInit /\ [][PipelineNext]_pipelineVars /\ PipelineFairness

(***************************************************************************)
(* Properties.                                                             *)
(***************************************************************************)
PrepTypeOK ==
  /\ prep.at \in {"idle", "open", "select", "count", "decide", "stage", "publish",
                  "replace", "discard", "match", "describe", "describe_manifest",
                  "complete", "record", "fan_out", "advance"}
  /\ prep.run \in PrepRuns \cup {"none"}
  /\ prep.config \in PrepConfigs \cup {NoConfig}
  /\ prep.done \in 0 .. Len(EventKinds)
  /\ \A d \in {dataset, backup, prep.staging} :
       d.written <= Len(d.train) + 1 /\ d.tokenizer \in {NoTokenizer, prep.config.tokenizer}
                                         \cup {c.tokenizer : c \in PrepConfigs}
  /\ \A r \in PrepRuns : prepRuns[r].completion.completed \in 0 .. Len(EventKinds)
  /\ preparations \in 0 .. MaxPreparations
PipelineTypeOK == DownloadTypeOK /\ PrepTypeOK

\* Once a complete dataset exists, there is always one: wherever the
\* replacement of _publish_staged_directory fails or is killed, the old
\* dataset or the new one is there with every payload and its manifest, at
\* its place or set aside next to it.
DatasetNeverLost ==
  [][(\E d \in {dataset, backup} : IsWhole(d))
       => (\E d \in {dataset', backup'} : IsWhole(d))]_pipelineVars

\* Whatever happens, a run's log holds each event at most once, in order,
\* all about the same data, and no event whose data are not durably
\* described: "retrying a completed or partially logged preparation ... does
\* not append duplicate or contradictory totals" (README 466).
OneCoherentRecord ==
  \A r \in PrepRuns :
    LET d == prepRuns[r]
        state == d.completion
    IN  /\ Len(d.journal) \in {state.completed, state.completed + 1}
        /\ d.journal # <<>> => /\ state.saved
                               /\ d.stats = state.stats /\ d.manifest = state.manifest
        /\ \A i \in DOMAIN d.journal :
             d.journal[i] = TrackingEvent(EventKinds[i],
                              Identity(state.stats, state.manifest), state.timed)

\* Every preparation and every download ends, whatever the server answers
\* and however often a write fails.
EveryPipelineCommandEnds ==
  /\ prep.at # "idle" ~> prep.at = "idle"
  /\ fetch.at # "idle" ~> fetch.at = "idle"

\* An interrupted preparation of unchanged data can be retried in its run.
RetryIsAccepted ==
  [][prep'.reply = "refused" /\ prep.at = "open"
       => LocalConflict \/ ~PrepRun.completion.saved]_pipelineVars
=============================================================================
