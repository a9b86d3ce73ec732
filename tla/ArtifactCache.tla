---------------------------- MODULE ArtifactCache ----------------------------
(***************************************************************************)
(* Directories that are published once: the parquet caches of data sets    *)
(* for finetuning and evaluation (data/hub.py) and tokenizers              *)
(* (tokenization/artifacts.py).  Files are staged in a private directory   *)
(* beside the destination, which is then renamed.  Several processes may   *)
(* prepare the same destination, fail between any two steps or be killed.  *)
(*                                                                         *)
(* A file is its version.  The files a process has staged, in order, are   *)
(* a sequence of versions; the last file of a cache is its manifest, which *)
(* records the others.                                                     *)
(***************************************************************************)
EXTENDS Integers, Sequences

CONSTANTS Publishers,  \* processes
          Versions,    \* contents of one file
          DataFiles,   \* number of shards, or of tokenizer files but the last
          NoContent,   \* no directory, no answer, no preference
          MaxCalls     \* bound on the calls explored

ASSUME ArtifactAssumption ==
  /\ DataFiles \in Nat \ {0} /\ MaxCalls \in Nat
  /\ NoContent \notin UNION {[1 .. n -> Versions] : n \in 0 .. DataFiles + 1}

VARIABLES family,     \* "hub" or "tokenizer"
          remote,     \* what the source of a cache serves now
          directory,  \* the destination: NoContent, or its files
          publisher,  \* the calls in progress
          calls       \* their number so far

artifactVars == <<family, remote, directory, publisher, calls>>

\* A directory is complete with its last file, which follows from the others.
IsComplete(files) == Len(files) = DataFiles + 1
Contents(files) == SubSeq(files, 1, DataFiles)

NoCall == [at |-> "idle", kind |-> "none", own |-> NoContent, staged |-> <<>>,
           given |-> NoContent]

Goes(p, call) == publisher' = [publisher EXCEPT ![p] = call]
Elsewhere == UNCHANGED <<family, remote, directory, calls>>

\* prepare_hub_parquet_cache, publish_local_parquet_cache of one's own
\* shards, load_hub_parquet_cache; save_regex_bpe_artifacts of one's own
\* training result, load_regex_bpe_training_result.
Kinds == IF family = "hub" THEN {"prepare", "local", "load"} ELSE {"save", "load"}
Calls(p, kind, version) ==
  /\ publisher[p].at = "idle" /\ calls < MaxCalls
  /\ Goes(p, [NoCall EXCEPT !.at = "check", !.kind = kind,
       !.own = IF kind \in {"local", "save"} THEN [i \in 1 .. DataFiles |-> version]
               ELSE NoContent])
  /\ calls' = calls + 1
  /\ UNCHANGED <<family, remote, directory>>

Fails(call) == [call EXCEPT !.at = "idle", !.staged = <<>>]

\* What is there is loaded, and a tokenizer is never saved over files; an
\* empty directory is no tokenizer yet, but is a partial cache.
CheckDestination(p) ==
  LET call == publisher[p] IN
  /\ call.at = "check"
  /\ Goes(p,
       CASE call.kind = "save" ->
              IF directory \in {NoContent, <<>>} THEN [call EXCEPT !.at = "stage"] ELSE Fails(call)
         [] call.kind = "load" ->
              IF directory # NoContent THEN [call EXCEPT !.at = "load"] ELSE Fails(call)
         [] OTHER ->
              [call EXCEPT !.at = IF directory # NoContent THEN "load" ELSE "stage"])
  /\ Elsewhere

\* A shard is what the source serves at that moment, or one's own.
StageFile(p) ==
  LET call == publisher[p] IN
  /\ call.at = "stage" /\ Len(call.staged) < DataFiles
  /\ Goes(p, [call EXCEPT !.staged = Append(@,
       IF call.own = NoContent THEN remote ELSE call.own[Len(@) + 1])])
  /\ Elsewhere

\* The manifest of a cache, or the last file of a tokenizer, is written last.
StageLast(p) ==
  LET call == publisher[p] IN
  /\ call.at = "stage" /\ Len(call.staged) = DataFiles
  /\ Goes(p, [call EXCEPT !.at = "install", !.staged = Append(@, @[1])])
  /\ Elsewhere

\* Mutant: the rename replaces what is there.
ReplacesAny(there) == TRUE

\* os.replace of a directory succeeds over none or an empty one.
Replaces(there) == there \in {NoContent, <<>>}

InstallStaged(p) ==
  LET call == publisher[p] IN
  /\ call.at = "install"
  /\ IF Replaces(directory)
     THEN /\ directory' = call.staged
          /\ Goes(p, [call EXCEPT !.staged = <<>>,
               !.at = IF call.kind = "save" THEN "sync" ELSE "load"])
     ELSE /\ UNCHANGED directory
          /\ Goes(p, Fails(call))
  /\ UNCHANGED <<family, remote, calls>>

\* _load_cache_directory and load_regex_bpe_training_result validate every
\* file; who published its own shards compares them with what is there.
LoadDirectory(p) ==
  LET call == publisher[p] IN
  /\ call.at = "load"
  /\ Goes(p,
       IF IsComplete(directory) /\ call.own \in {NoContent, Contents(directory)}
       THEN [call EXCEPT !.at = "idle", !.given = Contents(directory)]
       ELSE Fails(call))
  /\ Elsewhere

\* The parent directory is synchronized, and the path is returned.
ReturnSaved(p) ==
  LET call == publisher[p] IN
  /\ call.at = "sync"
  /\ Goes(p, [call EXCEPT !.at = "idle", !.given = call.own])
  /\ Elsewhere

\* An error removes the staged files; a killed process leaves its private
\* directory behind, which nobody looks at.
CallFails(p) ==
  /\ publisher[p].at # "idle"
  /\ Goes(p, Fails(publisher[p]))
  /\ Elsewhere

RemoteChanges ==
  /\ family = "hub" /\ remote' \in Versions \ {remote}
  /\ calls < MaxCalls /\ calls' = calls + 1
  /\ UNCHANGED <<family, directory, publisher>>

ArtifactInit ==
  /\ family \in {"hub", "tokenizer"} /\ remote \in Versions
  /\ directory \in {NoContent, <<>>}
  /\ publisher = [p \in Publishers |-> NoCall] /\ calls = 0

ArtifactNext ==
  \/ \E p \in Publishers :
       \/ \E kind \in Kinds, version \in Versions : Calls(p, kind, version)
       \/ CheckDestination(p) \/ StageFile(p) \/ StageLast(p) \/ InstallStaged(p)
       \/ LoadDirectory(p) \/ ReturnSaved(p) \/ CallFails(p)
  \/ RemoteChanges
ArtifactSpec == ArtifactInit /\ [][ArtifactNext]_artifactVars

(***************************************************************************)
(* Properties.                                                             *)
(***************************************************************************)
\* However calls interleave and fail, the directory is written once and as a
\* whole, and a call that succeeds returns what it holds: its own content, if
\* it published its own.
Once ==
  INSTANCE WriteOnce WITH
    Clients <- Publishers, Nothing <- NoContent,
    content <- IF directory \in {NoContent, <<>>} THEN NoContent ELSE Contents(directory),
    answer <- [p \in Publishers |-> publisher[p].given],
    wish <- [p \in Publishers |-> publisher[p].own]
PublishesOnce == Once!OnceSpec
=============================================================================
