----------------------- MODULE DataPreparationProofs ------------------------
(***************************************************************************)
(* Theorems about ShardDownload, DataPreparation and TokenLoader, for any  *)
(* number and size of shards, runs, configurations and commands, and for   *)
(* any corpus, row length and batch size.                                  *)
(***************************************************************************)
EXTENDS DataPreparation, TokenLoader, FiniteOrders, SequenceTheorems, FiniteSetTheorems,
        TLAPS

(***************************************************************************)
(* Downloads.  The argument: a .part file is always a beginning of the     *)
(* shard, with nothing but overrun after its last byte, because bytes are  *)
(* appended only where the response's range starts at the file's end; and  *)
(* the only size a response can make a file come to is the shard's.        *)
(***************************************************************************)
Contents == Seq(0 .. ShardSize)

Beginning(file) ==
  /\ file \in Contents
  /\ \A i \in 1 .. Len(file) : file[i] = IF i <= ShardSize THEN i ELSE Overrun

FilesOK ==
  /\ published \in [Shards -> Contents] /\ partial \in [Shards -> Contents]
  /\ \A s \in Shards : published[s] \in {Absent, Whole} /\ Beginning(partial[s])

TargetLists == Seq(Shards)

\* A command between two steps: what it has left, and where it is in a body.
FetchTypeOK ==
  /\ fetch \in [at : {"idle", "target", "open", "body", "sized"},
                targets : TargetLists, attempt : 0 .. MaxAttempts,
                next : Nat, left : Nat, size : Nat,
                reply : {"none", "ready", "failed", "killed"}]
  /\ downloads \in 0 .. MaxDownloads

FetchOK ==
  /\ fetch.at \in {"open", "body", "sized"} => fetch.targets # <<>>
  /\ fetch.at = "body" => fetch.next = Offset + 1
  /\ fetch.at \in {"body", "sized"} => fetch.size = ShardSize

DownloadInv == FilesOK /\ FetchTypeOK /\ FetchOK

-----------------------------------------------------------------------------
\* A file of the size of the shard that is a beginning of it is the shard.
LEMMA BeginningOfSize ==
  ASSUME NEW file, Beginning(file), Len(file) = ShardSize
  PROVE  file = Whole
<1>1. DOMAIN file = 1 .. ShardSize /\ file = [i \in 1 .. ShardSize |-> file[i]]
  BY LenProperties DEF Beginning, Contents
<1>2. \A i \in 1 .. ShardSize : file[i] = i
  BY DEF Beginning
<1> QED
  BY <1>1, <1>2 DEF Whole, Bytes

LEMMA EmptyIsBeginning == Beginning(<<>>) /\ <<>> \in Contents
BY DEF Beginning, Contents

\* The next byte of the body, put behind a beginning, makes a longer one.
LEMMA BeginningGrows ==
  ASSUME NEW file, Beginning(file)
  PROVE  LET n == Len(file) + 1
             byte == IF n <= ShardSize THEN n ELSE Overrun
         IN  Beginning(Append(file, byte))
<1> DEFINE n == Len(file) + 1
           byte == IF n <= ShardSize THEN n ELSE Overrun
<1>1. file \in Contents /\ Len(file) \in Nat
  BY DEF Beginning, Contents
<1>2. byte \in 0 .. ShardSize
  BY <1>1, ShardAssumption DEF Overrun
<1>3. /\ Append(file, byte) \in Contents
      /\ Len(Append(file, byte)) = n
      /\ Append(file, byte)[n] = byte
      /\ \A i \in 1 .. Len(file) : Append(file, byte)[i] = file[i]
  BY <1>1, <1>2, AppendProperties DEF Contents
<1> HIDE DEF byte
<1>4. ASSUME NEW i \in 1 .. n
      PROVE  Append(file, byte)[i] = IF i <= ShardSize THEN i ELSE Overrun
  <2>1. CASE i = n
    BY <2>1, <1>3 DEF byte
  <2>2. CASE i # n
    <3>1. i \in 1 .. Len(file)
      BY <2>2, <1>1
    <3> QED
      BY <3>1, <1>3 DEF Beginning
  <2> QED
    BY <2>1, <2>2
<1> QED
  BY <1>3, <1>4 DEF Beginning

-----------------------------------------------------------------------------
\* What a response can say: 200 and 204 name no range; a 206 names one whose
\* total is the size of the shard, or none; a 416 that size, or nothing.
Ranges == {<<first, last, ShardSize>> : first \in 0 .. ShardSize - 1,
                                        last \in 0 .. ShardSize - 1}

LEMMA ResponseCases ==
  ASSUME NEW response \in Responses
  PROVE  /\ response.length \in Nat
         /\ \/ response.status = 200 /\ response.length \in {0, ShardSize}
            \/ response.status = 204 /\ response.length = 1
            \/ response.status = 206 /\ response.range \in Ranges \cup {<<>>}
            \/ /\ response.status = 416 /\ response.length = 0
               /\ response.range \in {<<>>, <<ShardSize>>}
BY ShardAssumption DEF Responses, Response, Lengths, Ranges

\* Whatever the response, the attempt restarts, or the file comes to the size
\* of the shard: from nothing, from where the range starts, or as it is.
LEMMA PlanIsSound ==
  ASSUME NEW response \in Responses, NEW offset \in Nat
  PROVE  LET plan == DownloadPlan(response, offset)
         IN  \/ plan.mode = "restart"
             \/ plan.mode = "keep" /\ plan.size = ShardSize /\ offset = ShardSize
             \/ plan.mode = "write" /\ plan.size = ShardSize
             \/ /\ plan.mode = "append" /\ plan.size = ShardSize
                /\ response.range[1] = offset
<1> DEFINE status == response.status
           range == response.range
           length == response.length
           plan == DownloadPlan(response, offset)
<1>0. length \in Nat /\ ShardSize \in Nat \ {0}
  BY ResponseCases, ShardAssumption
<1>1. CASE status = 416 /\ offset # 0
  <2>1. plan = UnsatisfiedPlan(response, offset)
    BY <1>1 DEF DownloadPlan
  <2>2. range = <<offset>> => offset = ShardSize
    <3>1. range \in {<<>>, <<ShardSize>>}
      BY <1>1, ResponseCases
    <3> QED
      BY <3>1
  <2> QED
    BY <2>1, <2>2 DEF UnsatisfiedPlan, Plan, Restart
<1>2. CASE ~(status = 416 /\ offset # 0) /\ length = 0
  <2>1. plan = Restart
    BY <1>2 DEF DownloadPlan
  <2> QED
    BY <2>1 DEF Restart, Plan
<1>3. CASE ~(status = 416 /\ offset # 0) /\ length # 0 /\ offset = 0
  <2>1. plan = FreshPlan(response)
    BY <1>3 DEF DownloadPlan
  <2>2. status = 200 => length = ShardSize
    BY <1>3, ResponseCases
  <2> QED
    BY <2>1, <2>2 DEF FreshPlan, Plan, Restart
<1>4. CASE ~(status = 416 /\ offset # 0) /\ length # 0 /\ offset # 0
  <2>1. plan = ResumePlan(response, offset)
    BY <1>4 DEF DownloadPlan
  <2>2. CASE status = 200
    <3>1. plan = Plan("write", length)
      BY <2>1, <2>2 DEF ResumePlan
    <3>2. length = ShardSize
      BY <2>2, <1>4, ResponseCases
    <3> QED
      BY <3>1, <3>2 DEF Plan
  <2>3. CASE status = 206 /\ CompatibleRange(range, length, offset)
    <3>1. plan = Plan("append", range[3])
      BY <2>1, <2>3 DEF ResumePlan
    <3>2. range[1] = offset /\ Len(range) = 3
      BY <2>3 DEF CompatibleRange
    <3>3. range \in Ranges
      <4>1. range \in Ranges \cup {<<>>}
        BY <2>3, ResponseCases
      <4> QED
        BY <4>1, <3>2
    <3>4. range[3] = ShardSize
      BY <3>3 DEF Ranges
    <3> QED
      BY <3>1, <3>2, <3>4 DEF Plan
  <2>4. CASE status # 200 /\ ~(status = 206 /\ CompatibleRange(range, length, offset))
    <3>1. plan = Restart
      BY <2>1, <2>4 DEF ResumePlan
    <3> QED
      BY <3>1 DEF Restart, Plan
  <2> QED
    BY <2>2, <2>3, <2>4
<1> QED
  BY <1>1, <1>2, <1>3, <1>4

-----------------------------------------------------------------------------
LEMMA DownloadInvInit ==
  ASSUME DownloadInit
  PROVE  DownloadInv
<1>1. FilesOK
  BY EmptyIsBeginning DEF DownloadInit, FilesOK, Absent
<1>2. FetchTypeOK
  <2>1. <<>> \in TargetLists
    BY EmptySeq DEF TargetLists
  <2>2. 0 \in 0 .. MaxAttempts /\ 0 \in 0 .. MaxDownloads
    BY AttemptsAssumption, DownloadsAssumption
  <2> QED
    BY <2>1, <2>2 DEF DownloadInit, FetchTypeOK, Idle
<1>3. FetchOK
  BY DEF DownloadInit, FetchOK, Idle
<1> QED
  BY <1>1, <1>2, <1>3 DEF DownloadInv

\* The file of a shard that is replaced by a beginning leaves the files right,
\* and so does the publication of a whole shard.
LEMMA FileReplaced ==
  ASSUME FilesOK, NEW s \in Shards, NEW file, Beginning(file),
         partial' = [partial EXCEPT ![s] = file],
         \/ published' = published
         \/ published' = [published EXCEPT ![s] = Whole] /\ Whole \in Contents
  PROVE  FilesOK'
<1>1. file \in Contents
  BY DEF Beginning
<1>2. partial' \in [Shards -> Contents] /\ \A r \in Shards : Beginning(partial'[r])
  BY <1>1 DEF FilesOK
<1>3. /\ published' \in [Shards -> Contents]
      /\ \A r \in Shards : published'[r] \in {Absent, Whole}
  BY DEF FilesOK
<1> QED
  BY <1>2, <1>3 DEF FilesOK

\* A command that has given up, ended or waits for its next attempt promises
\* nothing about its response.
LEMMA QuietFetch ==
  ASSUME FetchTypeOK,
         \/ fetch' = AfterFailure /\ fetch.targets # <<>>
         \/ fetch' \in {Ended("ready"), Ended("failed"), Ended("killed")},
         downloads' = downloads
  PROVE  FetchTypeOK' /\ FetchOK'
<1> DEFINE Again == [fetch EXCEPT !.at = "open", !.attempt = @ + 1, !.next = 0,
                                  !.left = 0, !.size = 0]
<1>1. CASE fetch' \in {Ended("ready"), Ended("failed"), Ended("killed")}
  <2>1. /\ fetch'.at = "idle" /\ fetch'.targets = <<>> /\ fetch'.attempt = 0
        /\ fetch'.next = 0 /\ fetch'.left = 0 /\ fetch'.size = 0
        /\ fetch'.reply \in {"ready", "failed", "killed"}
        /\ fetch' = [at |-> fetch'.at, targets |-> fetch'.targets,
                     attempt |-> fetch'.attempt, next |-> fetch'.next,
                     left |-> fetch'.left, size |-> fetch'.size, reply |-> fetch'.reply]
    BY <1>1 DEF Ended, Idle
  <2>2. fetch'.targets \in TargetLists
    BY <2>1, EmptySeq DEF TargetLists
  <2>3. FetchTypeOK'
    BY <2>1, <2>2, AttemptsAssumption DEF FetchTypeOK
  <2> QED
    BY <2>1, <2>3 DEF FetchOK
<1>2. CASE fetch' = Again /\ fetch.attempt < MaxAttempts /\ fetch.targets # <<>>
  <2>0. fetch.attempt + 1 \in 0 .. MaxAttempts
    BY <1>2, AttemptsAssumption DEF FetchTypeOK
  <2>1. FetchTypeOK'
    BY <1>2, <2>0 DEF FetchTypeOK
  <2>2. fetch'.at = "open" /\ fetch'.targets = fetch.targets
    BY <1>2 DEF FetchTypeOK
  <2> QED
    BY <2>1, <2>2, <1>2 DEF FetchOK
<1>3. AfterFailure = IF fetch.attempt < MaxAttempts THEN Again ELSE Ended("failed")
  BY DEF AfterFailure
<1> HIDE DEF Again
<1> QED
  BY <1>1, <1>2, <1>3

LEMMA TargetIsShard ==
  ASSUME FetchTypeOK, fetch.targets # <<>>
  PROVE  Target \in Shards /\ Tail(fetch.targets) \in TargetLists
BY HeadTailProperties DEF FetchTypeOK, Target, TargetLists

LEMMA TargetsAreShards ==
  ASSUME NEW n \in Shards, NEW v \in BOOLEAN
  PROVE  Targets(n, v) \in TargetLists
<1> DEFINE train == [i \in 1 .. n |-> i - 1]
           val == IF v THEN <<ValidationIndex>> ELSE <<>>
<1>1. train \in TargetLists
  BY ShardAssumption DEF Shards, TargetLists
<1>2. val \in TargetLists
  <2>1. ValidationIndex \in Shards
    BY ShardAssumption DEF Shards
  <2> QED
    BY <2>1, EmptySeq DEF TargetLists
<1> HIDE DEF train, val
<1>3. train \o val \in TargetLists
  BY <1>1, <1>2, ConcatProperties DEF TargetLists
<1> QED
  BY <1>3 DEF Targets, train, val

\* An answer truncates the file, leaves it, or starts a body at its end.
LEMMA RespondPreserves ==
  ASSUME DownloadInv, NEW response \in Responses, Respond(response)
  PROVE  DownloadInv'
<1> USE DEF DownloadInv
<1> DEFINE plan == DownloadPlan(response, Offset)
           file == partial[Target]
<1>0. fetch.at = "open" /\ fetch.targets # <<>> /\ Target \in Shards /\ Beginning(file)
  BY TargetIsShard DEF Respond, FetchOK, FilesOK
<1>1. Offset \in Nat /\ ShardSize \in Nat \ {0}
  BY <1>0, ShardAssumption DEF Offset, Beginning, Contents
<1>2. \/ plan.mode = "restart"
      \/ plan.mode = "keep" /\ plan.size = ShardSize /\ Offset = ShardSize
      \/ plan.mode = "write" /\ plan.size = ShardSize
      \/ plan.mode = "append" /\ plan.size = ShardSize /\ response.range[1] = Offset
  BY <1>1, PlanIsSound
<1>3. response.length \in Nat
  BY ResponseCases
<1>4. published' = published /\ downloads' = downloads
  BY DEF Respond
<1> HIDE DEF plan
<1>5. CASE plan.mode = "restart"
  <2>1. partial' = [partial EXCEPT ![Target] = <<>>] /\ fetch' = AfterFailure
    BY <1>5 DEF Respond, plan
  <2>2. FilesOK'
    BY <2>1, <1>0, <1>4, FileReplaced, EmptyIsBeginning
  <2> QED
    BY <2>1, <2>2, <1>0, <1>4, QuietFetch
<1>6. CASE plan.mode = "keep"
  <2>1. fetch' = [fetch EXCEPT !.at = "sized", !.size = plan.size] /\ partial' = partial
    BY <1>6 DEF Respond, plan
  <2>2. plan.size = ShardSize
    BY <1>6, <1>2
  <2>3. FetchTypeOK' /\ FetchOK'
    BY <2>1, <2>2, <1>0, <1>1, <1>4 DEF FetchTypeOK, FetchOK
  <2> QED
    BY <2>1, <2>3, <1>4 DEF FilesOK
<1>7. CASE plan.mode \in {"write", "append"}
  <2> DEFINE next == IF plan.mode = "write" THEN 1 ELSE response.range[1] + 1
             left == response.length + 1
  <2>1. /\ partial' = IF plan.mode = "write"
                      THEN [partial EXCEPT ![Target] = <<>>] ELSE partial
        /\ fetch' = [fetch EXCEPT !.at = "body", !.size = plan.size,
                                  !.left = left, !.next = next]
    BY <1>7 DEF Respond, plan
  <2>2. plan.size = ShardSize
    BY <1>7, <1>2
  <2>3. FilesOK'
    <3>1. CASE plan.mode = "write"
      BY <3>1, <2>1, <1>0, <1>4, FileReplaced, EmptyIsBeginning
    <3>2. CASE plan.mode # "write"
      BY <3>2, <2>1, <1>4 DEF FilesOK
    <3> QED
      BY <3>1, <3>2
  <2>4. next \in Nat /\ next = Len(partial'[Target]) + 1
    <3>1. CASE plan.mode = "write"
      <4>1. partial'[Target] = <<>>
        BY <3>1, <2>1, <1>0 DEF FilesOK
      <4> QED
        BY <4>1, <3>1
    <3>2. CASE plan.mode # "write"
      <4>1. partial' = partial /\ response.range[1] = Offset
        BY <3>2, <2>1, <1>2, <1>7
      <4> QED
        BY <4>1, <3>2, <1>1 DEF Offset
    <3> QED
      BY <3>1, <3>2
  <2> HIDE DEF next, left
  <2>5. left \in Nat
    BY <1>3 DEF left
  <2>6. FetchTypeOK'
    BY <2>1, <2>2, <2>4, <2>5, <1>1, <1>4 DEF FetchTypeOK
  <2>7. /\ fetch'.targets = fetch.targets /\ fetch'.at = "body"
        /\ fetch'.next = next /\ fetch'.size = ShardSize
    BY <2>1, <2>2 DEF FetchTypeOK
  <2>8. FetchOK'
    BY <2>4, <2>7, <1>0 DEF FetchOK, Offset, Target
  <2> QED
    BY <2>3, <2>6, <2>8
<1> QED
  BY <1>2, <1>5, <1>6, <1>7

LEMMA ReadChunkPreserves ==
  ASSUME DownloadInv, ReadChunk
  PROVE  DownloadInv'
<1> USE DEF DownloadInv
<1> DEFINE file == partial[Target]
           byte == IF fetch.next <= ShardSize THEN fetch.next ELSE Overrun
           longer == Append(file, byte)
<1>1. /\ fetch.at = "body" /\ fetch.left > 0 /\ fetch.targets # <<>>
      /\ Target \in Shards /\ Beginning(file) /\ fetch.next = Len(file) + 1
      /\ fetch.size = ShardSize /\ Len(file) \in Nat
  BY TargetIsShard DEF ReadChunk, FetchOK, FilesOK, Offset, Beginning, Contents
<1>2. Beginning(longer) /\ Len(longer) = Len(file) + 1
  <2>1. Beginning(longer)
    BY <1>1, BeginningGrows
  <2>2. byte \in 0 .. ShardSize /\ file \in Contents
    BY <1>1, ShardAssumption DEF Overrun, Beginning
  <2> HIDE DEF byte
  <2> QED
    BY <2>1, <2>2, AppendProperties DEF Contents
<1>3. /\ partial' = [partial EXCEPT ![Target] = longer]
      /\ fetch' = [fetch EXCEPT !.next = @ + 1, !.left = @ - 1]
      /\ published' = published /\ downloads' = downloads
  BY DEF ReadChunk
<1> HIDE DEF byte, longer
<1>4. FilesOK'
  BY <1>1, <1>2, <1>3, FileReplaced
<1>5. FetchTypeOK'
  <2>1. fetch.next + 1 \in Nat /\ fetch.left - 1 \in Nat
    BY <1>1 DEF FetchTypeOK
  <2> QED
    BY <2>1, <1>3 DEF FetchTypeOK
<1>6. /\ fetch'.targets = fetch.targets /\ fetch'.at = "body"
      /\ fetch'.next = fetch.next + 1 /\ fetch'.size = ShardSize
  BY <1>1, <1>3 DEF FetchTypeOK
<1>7. partial'[Target] = longer
  BY <1>1, <1>3 DEF FilesOK
<1>8. FetchOK'
  BY <1>1, <1>2, <1>6, <1>7 DEF FetchOK, Offset, Target
<1> QED
  BY <1>4, <1>5, <1>8

LEMMA PublishShardPreserves ==
  ASSUME DownloadInv, PublishShard
  PROVE  DownloadInv'
<1> USE DEF DownloadInv
<1>1. /\ fetch.at = "sized" /\ fetch.targets # <<>> /\ Target \in Shards
      /\ Beginning(partial[Target]) /\ Len(partial[Target]) = ShardSize
      /\ Tail(fetch.targets) \in TargetLists
  BY TargetIsShard DEF PublishShard, FetchOK, FilesOK, Offset
<1>2. partial[Target] = Whole /\ Whole \in Contents
  BY <1>1, BeginningOfSize DEF Beginning
<1>3. FilesOK'
  BY <1>1, <1>2, FileReplaced, EmptyIsBeginning DEF PublishShard
<1>4. fetch' = [at |-> "target", targets |-> Tail(fetch.targets), attempt |-> 0,
                next |-> 0, left |-> 0, size |-> 0, reply |-> "none"]
  BY DEF PublishShard, Idle
<1>5. FetchTypeOK' /\ FetchOK'
  <2> DEFINE rest == Tail(fetch.targets)
  <2> HIDE DEF rest
  <2>1. rest \in TargetLists /\ downloads' = downloads
    BY <1>1 DEF rest, PublishShard
  <2>2. fetch' = [at |-> "target", targets |-> rest, attempt |-> 0,
                  next |-> 0, left |-> 0, size |-> 0, reply |-> "none"]
    BY <1>4 DEF rest
  <2>3. FetchTypeOK'
    BY <2>1, <2>2, AttemptsAssumption DEF FetchTypeOK
  <2>4. FetchOK'
    BY <2>2 DEF FetchOK
  <2> QED
    BY <2>3, <2>4
<1> QED
  BY <1>3, <1>5

LEMMA DownloadInvNext ==
  ASSUME DownloadInv, [DownloadNext]_downloadVars
  PROVE  DownloadInv'
<1> USE DEF DownloadInv
<1>0. ASSUME published' = published, partial' = partial
      PROVE  FilesOK'
  BY <1>0 DEF FilesOK
<1>1. ASSUME NEW n \in Shards, NEW v \in BOOLEAN, StartDownload(n, v)
      PROVE  DownloadInv'
  <2> DEFINE targets == Targets(n, v)
  <2>1. targets \in TargetLists
    BY TargetsAreShards
  <2> HIDE DEF targets
  <2>2. /\ fetch' = [at |-> "target", targets |-> targets, attempt |-> 0, next |-> 0,
                     left |-> 0, size |-> 0, reply |-> "none"]
        /\ downloads' = downloads + 1 /\ downloads < MaxDownloads
        /\ published' = published /\ partial' = partial
    BY <1>1 DEF StartDownload, Idle, targets
  <2>3. downloads + 1 \in 0 .. MaxDownloads /\ 0 \in 0 .. MaxAttempts
    BY <2>2, DownloadsAssumption, AttemptsAssumption DEF FetchTypeOK
  <2>4. FetchTypeOK'
    BY <2>1, <2>2, <2>3 DEF FetchTypeOK
  <2>5. FetchOK'
    BY <2>2 DEF FetchOK
  <2> QED
    BY <1>0, <2>2, <2>4, <2>5
<1>2. CASE EndDownload \/ PublishFails \/ KillDownload
  <2>1. /\ fetch' \in {Ended("ready"), Ended("failed"), Ended("killed")}
        /\ published' = published /\ partial' = partial /\ downloads' = downloads
    BY <1>2 DEF EndDownload, PublishFails, KillDownload
  <2> QED
    BY <2>1, <1>0, QuietFetch
<1>3. CASE SkipPublished
  <2> DEFINE rest == Tail(fetch.targets)
  <2>1. rest \in TargetLists
    BY <1>3, TargetIsShard DEF SkipPublished
  <2>2. /\ fetch' = [fetch EXCEPT !.targets = rest] /\ fetch.at = "target"
        /\ published' = published /\ partial' = partial /\ downloads' = downloads
    BY <1>3 DEF SkipPublished
  <2> HIDE DEF rest
  <2>3. FetchTypeOK' /\ FetchOK'
    BY <2>1, <2>2 DEF FetchTypeOK, FetchOK
  <2> QED
    BY <1>0, <2>2, <2>3
<1>4. CASE BeginTarget
  <2>1. /\ fetch' = [fetch EXCEPT !.at = "open", !.attempt = 1] /\ fetch.targets # <<>>
        /\ published' = published /\ partial' = partial /\ downloads' = downloads
    BY <1>4 DEF BeginTarget
  <2>2. 1 \in 0 .. MaxAttempts
    BY AttemptsAssumption
  <2>3. FetchTypeOK' /\ FetchOK'
    BY <2>1, <2>2 DEF FetchTypeOK, FetchOK
  <2> QED
    BY <1>0, <2>1, <2>3
<1>5. CASE OpenFails \/ ReadFails \/ RejectTruncated
  <2>1. /\ fetch' = AfterFailure /\ fetch.targets # <<>>
        /\ published' = published /\ partial' = partial /\ downloads' = downloads
    BY <1>5 DEF OpenFails, ReadFails, RejectTruncated, FetchOK
  <2> QED
    BY <2>1, <1>0, QuietFetch
<1>6. CASE \E r \in Responses : Respond(r)
  BY <1>6, RespondPreserves
<1>7. CASE ReadChunk
  BY <1>7, ReadChunkPreserves
<1>8. CASE EndBody
  <2>1. /\ fetch' = [fetch EXCEPT !.at = "sized"] /\ fetch.at = "body"
        /\ published' = published /\ partial' = partial /\ downloads' = downloads
    BY <1>8 DEF EndBody
  <2>2. FetchTypeOK' /\ FetchOK'
    BY <2>1 DEF FetchTypeOK, FetchOK
  <2> QED
    BY <1>0, <2>1, <2>2
<1>9. CASE RejectOverrun
  <2>1. /\ partial' = [partial EXCEPT ![Target] = <<>>] /\ fetch' = AfterFailure
        /\ published' = published /\ downloads' = downloads
        /\ fetch.targets # <<>> /\ Target \in Shards
    BY <1>9, TargetIsShard DEF RejectOverrun, FetchOK
  <2>2. FilesOK'
    BY <2>1, FileReplaced, EmptyIsBeginning
  <2> QED
    BY <2>1, <2>2, QuietFetch
<1>10. CASE PublishShard
  BY <1>10, PublishShardPreserves
<1>11. CASE UNCHANGED downloadVars
  <2>1. FetchTypeOK' /\ FetchOK'
    BY <1>11 DEF downloadVars, FetchTypeOK, FetchOK, Offset, Target
  <2> QED
    BY <1>11, <1>0, <2>1 DEF downloadVars
<1> QED
  BY <1>1, <1>2, <1>3, <1>4, <1>5, <1>6, <1>7, <1>8, <1>9, <1>10, <1>11
     DEF DownloadNext, DownloadStep

LEMMA DownloadInvHolds == DownloadSpec => []DownloadInv
<1>1. DownloadInit => DownloadInv
  BY DownloadInvInit
<1>2. DownloadInv /\ [DownloadNext]_downloadVars => DownloadInv'
  BY DownloadInvNext
<1> QED
  BY <1>1, <1>2, PTL DEF DownloadSpec

\* Whatever a server answers, and wherever attempts, commands and processes
\* end, a shard that is there under its name (_download_shard's last rename)
\* is the remote one, byte for byte, for any size and number of shards.
THEOREM PublishedIsWholeHolds == DownloadSpec => []PublishedIsWhole
<1>1. DownloadInv => PublishedIsWhole
  BY DEF DownloadInv, FilesOK, PublishedIsWhole
<1> QED
  BY <1>1, DownloadInvHolds, PTL

LEMMA DownloadTypes ==
  ASSUME DownloadInv
  PROVE  DownloadTypeOK
BY DEF DownloadInv, DownloadTypeOK, FilesOK, FetchTypeOK, Contents, TargetLists

(***************************************************************************)
(* Preparations.  A list of shards is a sequence, however many there are.  *)
(***************************************************************************)
LEMMA TrainPrefixLength ==
  ASSUME NEW n \in Nat
  PROVE  Len(TrainPrefix(n)) \in Nat
<1> DEFINE train == LocalShards \ {ValidationIndex}
           count == IF n < Cardinality(train) THEN n ELSE Cardinality(train)
<1>1. IsFiniteSet(train)
  <2>1. IsFiniteSet(Shards)
    BY FS_Interval, ShardAssumption DEF Shards
  <2> QED
    BY <2>1, FS_Subset DEF LocalShards
<1>2. count \in Nat
  BY <1>1, FS_CardinalityType
<1>3. TrainPrefix(n) = [i \in 1 .. count |-> Ranked(train, i)]
  BY DEF TrainPrefix
<1> HIDE DEF train, count
<1> QED
  BY <1>2, <1>3

-----------------------------------------------------------------------------
(***************************************************************************)
(* The parts of the invariant: the command, its datasets, its run          *)
(* directory.  A record is named by its fields.                            *)
(***************************************************************************)
Tokenizers == {NoTokenizer} \cup {c.tokenizer : c \in PrepConfigs}

IsCommand(p) ==
  p \in [at : {p.at}, run : {p.run}, config : {p.config}, overwrite : {p.overwrite},
         stats : {p.stats}, staging : {p.staging}, manifest : {p.manifest},
         timed : {p.timed}, done : {p.done}, reply : {p.reply}]

Recording == {"record", "fan_out", "advance"}
Places ==
  {"idle", "open", "select", "count", "decide", "stage", "publish", "replace",
   "discard", "match", "describe", "describe_manifest", "complete"} \cup Recording

\* A command in progress is about a run directory and one of the configurations.
CommandOK ==
  /\ IsCommand(prep) /\ prep.at \in Places
  /\ IF prep.at = "idle" THEN prep.run = "none" /\ prep.config = NoConfig
     ELSE prep.run \in PrepRuns /\ prep.config \in PrepConfigs
  /\ prep.done \in 0 .. 3
  /\ prep.at \notin Recording => prep.done = 0
  /\ preparations \in 0 .. MaxPreparations

DatasetOK(d) ==
  /\ d \in [train : {d.train}, tokenizer : Tokenizers, written : Nat, sealed : BOOLEAN]
  /\ Len(d.train) \in Nat /\ d.written <= Len(d.train) + 1

\* What stands at the dataset's place is whole or nothing, and so is what was
\* set aside: _publish_staged_directory moves only a sealed staging directory
\* there, which read back.
Standing(d) == d = NoDataset \/ IsWhole(d)

DatasetsOK ==
  /\ \A d \in {dataset, backup, prep.staging} : DatasetOK(d)
  /\ Standing(dataset) /\ Standing(backup)
  /\ prep.at \in {"publish", "replace", "discard"} => IsWhole(prep.staging)
  /\ prep.at = "replace" => dataset = NoDataset
  /\ prep.at = "discard" => IsWhole(dataset)

IsRun(d) ==
  /\ d \in [config : {d.config}, torn : {d.torn}, journal : {d.journal},
            tracking : {d.tracking}, remote : {d.remote}, status : {d.status},
            stats : {d.stats}, manifest : {d.manifest}, completion : {d.completion}]
  /\ LET state == d.completion
     IN  state \in [stats : {state.stats}, manifest : {state.manifest},
                   timed : {state.timed}, completed : 0 .. 3, saved : BOOLEAN]

\* The events of a completion state, in order, and a log of the first n.
EventOf(state, i) ==
  TrackingEvent(EventKinds[i], Identity(state.stats, state.manifest), state.timed)
Journal(state, n) == [i \in 1 .. n |-> EventOf(state, i)]

\* A log is a beginning of the events of its directory's completion state, at
\* most one ahead of what the state lists; there is none before the state is
\* saved; and the descriptions are the state's.
RunOK(d) ==
  LET state == d.completion
      logged == Len(d.journal)
  IN  /\ IsRun(d)
      /\ logged \in 0 .. 3
      /\ logged = state.completed \/ logged = state.completed + 1
      /\ d.journal = Journal(state, logged)
      /\ IF state.saved THEN d.stats = state.stats /\ d.manifest = state.manifest
         ELSE logged = 0 /\ state.completed = 0

RunsOK ==
  /\ prepRuns = [r \in PrepRuns |-> prepRuns[r]]
  /\ \A r \in PrepRuns : RunOK(prepRuns[r])

\* Before it records, a command works in a directory without a completion
\* state; while it records, on the data of the directory's.
Unsaved == {"stage", "publish", "replace", "discard", "match", "describe",
            "describe_manifest", "complete"}

ProgressOK ==
  LET d == PrepRun
      state == d.completion
  IN  /\ prep.at \in Unsaved => ~state.saved
      /\ prep.at \in {"describe_manifest", "complete"} => d.stats = prep.stats
      /\ prep.at = "complete" => d.manifest = prep.manifest
      /\ prep.at \in Recording =>
           /\ state.saved /\ state.stats = prep.stats /\ state.manifest = prep.manifest
           /\ state.timed = prep.timed /\ prep.done <= state.completed
      /\ prep.at \in {"fan_out", "advance"} => prep.done < Len(d.journal)

PrepInv == CommandOK /\ DatasetsOK /\ RunsOK /\ ProgressOK

-----------------------------------------------------------------------------
\* NoDataset is a dataset of nothing, and not a whole one.
LEMMA NoDatasetOK == DatasetOK(NoDataset) /\ ~IsWhole(NoDataset)
BY DEF DatasetOK, NoDataset, Dataset, Tokenizers, IsWhole

LEMMA NewRunOK == RunOK(NewPrepRun)
<1>1. NewPrepRun.journal = <<>> /\ Len(<<>>) = 0
  BY DEF NewPrepRun
<1>2. <<>> = Journal(NewPrepRun.completion, 0)
  BY DEF Journal
<1>3. IsRun(NewPrepRun)
  <2> DEFINE state == NoCompletion
             empty == <<>>
  <2>1. state \in [stats : {state.stats}, manifest : {state.manifest},
                  timed : {state.timed}, completed : 0 .. 3, saved : BOOLEAN]
    BY DEF NoCompletion
  <2> HIDE DEF state, empty
  <2>2. NewPrepRun = [config |-> NoConfig, torn |-> FALSE, journal |-> empty,
                      tracking |-> 0, remote |-> empty, status |-> "none",
                      stats |-> NoStatistics, manifest |-> NoManifest,
                      completion |-> state]
    BY DEF NewPrepRun, state, empty
  <2> QED
    BY <2>1, <2>2 DEF IsRun
<1>4. NewPrepRun.completion.completed = 0 /\ NewPrepRun.completion.saved = FALSE
  BY DEF NewPrepRun, NoCompletion
<1> QED
  BY <1>1, <1>2, <1>3, <1>4 DEF RunOK

LEMMA PrepInvInit ==
  ASSUME PrepInit
  PROVE  PrepInv
<1>1. CommandOK
  <2>1. 0 \in 0 .. MaxPreparations
    BY PrepAssumption
  <2> QED
    BY <2>1 DEF PrepInit, CommandOK, IsCommand, IdlePrep, Places
<1>2. DatasetsOK
  BY NoDatasetOK DEF PrepInit, DatasetsOK, Standing, IdlePrep
<1>3. RunsOK
  BY NewRunOK DEF PrepInit, RunsOK
<1>4. ProgressOK
  BY DEF PrepInit, ProgressOK, IdlePrep, Unsaved, Recording
<1> QED
  BY <1>1, <1>2, <1>3, <1>4 DEF PrepInv

\* A run directory that is written stays right when what is written is.
LEMMA RunWritten ==
  ASSUME RunsOK, prep.run \in PrepRuns, NEW d, RunOK(d), WriteRun(d)
  PROVE  RunsOK' /\ prepRuns'[prep.run] = d
<1>1. prepRuns' = [prepRuns EXCEPT ![prep.run] = d]
  BY DEF WriteRun
<1>2. DOMAIN prepRuns = PrepRuns
  BY DEF RunsOK
<1>3. prepRuns' = [r \in PrepRuns |-> IF r = prep.run THEN d ELSE prepRuns[r]]
  BY <1>1, <1>2
<1>4. /\ prepRuns' = [r \in PrepRuns |-> prepRuns'[r]]
      /\ \A r \in PrepRuns : prepRuns'[r] = IF r = prep.run THEN d ELSE prepRuns[r]
  BY <1>3
<1>5. \A r \in PrepRuns : RunOK(prepRuns'[r])
  BY <1>4 DEF RunsOK
<1> QED
  BY <1>4, <1>5 DEF RunsOK

\* What RunOK says of a directory does not depend on its configuration, its
\* tracking, its status, its torn line or what the remote run received.
LEMMA RunKept ==
  ASSUME NEW d, NEW e, RunOK(d), IsRun(e),
         e.journal = d.journal, e.stats = d.stats, e.manifest = d.manifest,
         e.completion = d.completion
  PROVE  RunOK(e)
BY DEF RunOK

LEMMA CurrentRun ==
  ASSUME RunsOK, prep.run \in PrepRuns
  PROVE  RunOK(PrepRun) /\ IsRun(PrepRun)
BY DEF RunsOK, PrepRun, RunOK

\* A command that ends promises nothing.
LEMMA CommandEnds ==
  ASSUME CommandOK, NEW reply, prep' = [IdlePrep EXCEPT !.reply = reply],
         preparations' = preparations
  PROVE  CommandOK' /\ ProgressOK' /\ prep'.staging = NoDataset /\ prep'.at = "idle"
<1>1. /\ prep'.at = "idle" /\ prep'.run = "none" /\ prep'.config = NoConfig
      /\ prep'.done = 0 /\ prep'.staging = NoDataset /\ IsCommand(prep')
  BY DEF IdlePrep, IsCommand
<1>2. CommandOK'
  BY <1>1 DEF CommandOK, Places
<1>3. ProgressOK'
  BY <1>1 DEF ProgressOK, Unsaved, Recording
<1> QED
  BY <1>1, <1>2, <1>3

\* A run directory that is only marked keeps its invariant.
LEMMA RunMarked ==
  ASSUME RunsOK, prep.run \in PrepRuns, NEW status,
         WriteRun([PrepRun EXCEPT !.status = status])
  PROVE  RunsOK'
<1> DEFINE e == [PrepRun EXCEPT !.status = status]
<1>1. RunOK(PrepRun) /\ IsRun(PrepRun)
  BY CurrentRun
<1>2. /\ IsRun(e) /\ e.journal = PrepRun.journal /\ e.stats = PrepRun.stats
      /\ e.manifest = PrepRun.manifest /\ e.completion = PrepRun.completion
  BY <1>1 DEF IsRun
<1> HIDE DEF e
<1>3. RunOK(e)
  BY <1>1, <1>2, RunKept
<1> QED
  BY <1>3, RunWritten DEF e

-----------------------------------------------------------------------------
(***************************************************************************)
(* The steps of a preparation.                                             *)
(***************************************************************************)
\* A command that goes on keeps its run and its configuration.
GoesOn(to) ==
  /\ IsCommand(prep') /\ prep'.at = to
  /\ prep'.run = prep.run /\ prep'.config = prep.config
  /\ preparations' = preparations

LEMMA CommandGoesOn ==
  ASSUME CommandOK, prep.at # "idle", NEW to \in Places \ {"idle"}, GoesOn(to),
         IF to \in Recording THEN prep'.done \in 0 .. 3 ELSE prep'.done = prep.done,
         to \in Recording \/ prep.at \notin Recording
  PROVE  CommandOK'
BY DEF CommandOK, GoesOn

LEMMA DatasetsKept ==
  ASSUME DatasetsOK, dataset' = dataset, backup' = backup, DatasetOK(prep'.staging),
         prep'.at \notin {"publish", "replace", "discard"}
  PROVE  DatasetsOK'
BY DEF DatasetsOK

\* A command that only goes on, its datasets and every directory as they are.
LEMMA StepGoesOn ==
  ASSUME PrepInv, prep.at # "idle", NEW to \in Places \ {"idle"}, GoesOn(to),
         prep'.staging = prep.staging, prep'.done = prep.done,
         to \notin {"publish", "replace", "discard"},
         to \in Recording \/ prep.at \notin Recording,
         dataset' = dataset, backup' = backup, prepRuns' = prepRuns, ProgressOK'
  PROVE  PrepInv'
<1>1. CommandOK'
  BY CommandGoesOn DEF PrepInv, CommandOK
<1>2. DatasetsOK'
  BY DatasetsKept DEF PrepInv, DatasetsOK, GoesOn
<1>3. RunsOK'
  BY DEF PrepInv, RunsOK
<1> QED
  BY <1>1, <1>2, <1>3 DEF PrepInv

LEMMA EndPreserves ==
  ASSUME PrepInv, prep.at # "idle", NEW status, NEW reply, EndPrep(status, reply),
         preparations' = preparations,
         \/ dataset' = dataset /\ backup' = backup
         \/ dataset' = backup /\ backup' = NoDataset
  PROVE  PrepInv'
<1>1. prep.run \in PrepRuns
  BY DEF PrepInv, CommandOK
<1>2. RunsOK'
  BY <1>1, RunMarked DEF PrepInv, EndPrep
<1>3. /\ CommandOK' /\ ProgressOK' /\ prep'.staging = NoDataset /\ prep'.at = "idle"
  BY CommandEnds DEF PrepInv, EndPrep
<1>4. DatasetsOK'
  BY <1>3, NoDatasetOK DEF PrepInv, DatasetsOK, Standing
<1> QED
  BY <1>2, <1>3, <1>4 DEF PrepInv

LEMMA StartPreserves ==
  ASSUME PrepInv, NEW r \in PrepRuns, NEW c \in PrepConfigs, NEW o \in BOOLEAN,
         StartPreparation(r, c, o)
  PROVE  PrepInv'
<1>1. /\ prep'.at = "open" /\ prep'.run = r /\ prep'.config = c /\ prep'.done = 0
      /\ prep'.staging = NoDataset /\ IsCommand(prep')
  BY DEF StartPreparation, IdlePrep, IsCommand
<1>2. /\ preparations' = preparations + 1 /\ preparations < MaxPreparations
      /\ dataset' = dataset /\ backup' = backup /\ prepRuns' = prepRuns
  BY DEF StartPreparation
<1>3. CommandOK'
  <2>1. preparations' \in 0 .. MaxPreparations
    BY <1>2, PrepAssumption DEF PrepInv, CommandOK
  <2> QED
    BY <1>1, <2>1 DEF CommandOK, Places, Recording
<1>4. DatasetsOK'
  BY <1>1, <1>2, NoDatasetOK, DatasetsKept DEF PrepInv
<1>5. RunsOK'
  BY <1>2 DEF PrepInv, RunsOK
<1>6. ProgressOK'
  BY <1>1 DEF ProgressOK, Unsaved, Recording
<1> QED
  BY <1>3, <1>4, <1>5, <1>6 DEF PrepInv

\* Opening marks the directory and gives it its configuration and tracking.
LEMMA OpenRunPreserves ==
  ASSUME PrepInv, OpenRun
  PROVE  PrepInv'
<1> DEFINE tracking == IF prep.config.remote THEN preparations ELSE 0
           e == [PrepRun EXCEPT !.config = prep.config, !.status = "running",
                                !.tracking = tracking]
<1>1. prep.at = "open" /\ prep.run \in PrepRuns /\ IsCommand(prep)
  BY DEF PrepInv, CommandOK, OpenRun
<1>2. RunOK(PrepRun) /\ IsRun(PrepRun)
  BY <1>1, CurrentRun DEF PrepInv
<1>3. WriteRun(e)
  BY DEF OpenRun
<1> HIDE DEF tracking
<1>4. /\ IsRun(e) /\ e.journal = PrepRun.journal /\ e.stats = PrepRun.stats
      /\ e.manifest = PrepRun.manifest /\ e.completion = PrepRun.completion
  BY <1>2 DEF IsRun
<1> HIDE DEF e
<1>5. RunsOK'
  <2>1. RunOK(e)
    BY <1>2, <1>4, RunKept
  <2> QED
    BY <2>1, <1>1, <1>3, RunWritten DEF PrepInv
<1>6. /\ GoesOn("select") /\ prep'.staging = prep.staging /\ prep'.done = prep.done
      /\ dataset' = dataset /\ backup' = backup
  BY <1>1 DEF OpenRun, Goto, GoesOn, IsCommand
<1>7. CommandOK'
  BY <1>1, <1>6, CommandGoesOn DEF PrepInv, Places, Recording
<1>8. DatasetsOK'
  BY <1>6, DatasetsKept DEF PrepInv, DatasetsOK, GoesOn
<1>9. ProgressOK'
  BY <1>6 DEF ProgressOK, GoesOn, Unsaved, Recording
<1> QED
  BY <1>5, <1>7, <1>8, <1>9 DEF PrepInv

LEMMA SelectPreserves ==
  ASSUME PrepInv, SelectShards \/ CountShards
  PROVE  PrepInv'
<1>1. prep.at \in {"select", "count"} /\ IsCommand(prep)
  BY DEF PrepInv, CommandOK, SelectShards, CountShards
<1>2. /\ prepRuns' = prepRuns /\ dataset' = dataset /\ backup' = backup
      /\ prep'.staging = prep.staging /\ prep'.done = prep.done
      /\ GoesOn("count") \/ GoesOn("decide")
  <2>1. CASE SelectShards
    BY <1>1, <2>1 DEF SelectShards, GoesOn, IsCommand
  <2>2. CASE CountShards
    BY <1>1, <2>2 DEF CountShards, GoesOn, IsCommand
  <2> QED
    BY <2>1, <2>2
<1>3. PICK to \in {"count", "decide"} : GoesOn(to)
  BY <1>2
<1>4. ProgressOK'
  BY <1>3 DEF ProgressOK, GoesOn, Unsaved, Recording
<1> QED
  BY <1>1, <1>2, <1>3, <1>4, StepGoesOn DEF Places, Recording

\* A reused completion is about the same data, whose descriptions are there.
LEMMA ReuseCompletionPreserves ==
  ASSUME PrepInv, ReuseCompletion
  PROVE  PrepInv'
<1>1. /\ prep.at = "decide" /\ IsCommand(prep) /\ prep.run \in PrepRuns
      /\ prep.done = 0
  BY DEF PrepInv, CommandOK, ReuseCompletion, Recording
<1>2. /\ prepRuns' = prepRuns /\ dataset' = dataset /\ backup' = backup
      /\ prep' = [prep EXCEPT !.at = "record", !.manifest = Manifest(dataset),
                              !.timed = PrepRun.completion.timed]
      /\ PrepRun.completion.saved
      /\ CompletionHolds(PrepRun.completion, Manifest(dataset))
  BY DEF ReuseCompletion, CanReuseCompletion
<1>3. /\ GoesOn("record") /\ prep'.staging = prep.staging /\ prep'.done = prep.done
      /\ prep'.stats = prep.stats /\ prep'.manifest = Manifest(dataset)
      /\ prep'.timed = PrepRun.completion.timed
  BY <1>1, <1>2 DEF ReuseCompletion, GoesOn, IsCommand
<1>4. PrepRun' = PrepRun
  BY <1>2, <1>3 DEF PrepRun, GoesOn
<1>5. 0 <= PrepRun.completion.completed
  BY <1>1, CurrentRun DEF PrepInv, RunOK, IsRun
<1>6. ProgressOK'
  BY <1>1, <1>2, <1>3, <1>4, <1>5 DEF ProgressOK, CompletionHolds, GoesOn, Unsaved, Recording
<1> QED
  BY <1>1, <1>2, <1>3, <1>6, StepGoesOn DEF Places, Recording

LEMMA ReuseDatasetPreserves ==
  ASSUME PrepInv, ReuseDataset
  PROVE  PrepInv'
<1>1. /\ prep.at = "decide" /\ IsCommand(prep) /\ ~PrepRun.completion.saved
      /\ dataset' = dataset /\ backup' = backup /\ preparations' = preparations
  BY DEF PrepInv, CommandOK, ReuseDataset
<1>2. CASE prep' = [prep EXCEPT !.at = "describe", !.manifest = Manifest(dataset)]
           /\ prepRuns' = prepRuns
  <2>1. GoesOn("describe") /\ prep'.staging = prep.staging /\ prep'.done = prep.done
    BY <1>1, <1>2 DEF GoesOn, IsCommand
  <2>2. PrepRun' = PrepRun
    BY <1>2, <2>1 DEF PrepRun, GoesOn
  <2>3. ProgressOK'
    BY <1>1, <2>1, <2>2 DEF ProgressOK, GoesOn, Recording
  <2> QED
    BY <1>1, <1>2, <2>1, <2>3, StepGoesOn DEF Places, Recording
<1>3. CASE Raise
  BY <1>1, <1>3, EndPreserves DEF Raise
<1> QED
  BY <1>2, <1>3 DEF ReuseDataset

\* A staging directory starts empty, on a list of shards of its own.
LEMMA BeginDatasetPreserves ==
  ASSUME PrepInv, BeginDataset
  PROVE  PrepInv'
<1> DEFINE train == TrainPrefix(prep.config.shards)
           staging == Dataset(train, prep.config.tokenizer, 0, FALSE)
<1>1. /\ prep.at = "decide" /\ IsCommand(prep) /\ ~PrepRun.completion.saved
      /\ prep.config \in PrepConfigs /\ Len(train) \in Nat
      /\ dataset' = dataset /\ backup' = backup /\ preparations' = preparations
  BY PrepAssumption, TrainPrefixLength DEF PrepInv, CommandOK, BeginDataset
<1>2. \/ /\ prep' = [prep EXCEPT !.at = "stage", !.timed = TRUE, !.staging = staging]
         /\ prepRuns' = prepRuns
      \/ Raise
  BY DEF BeginDataset
<1> HIDE DEF train
<1>3. DatasetOK(staging)
  BY <1>1, PrepAssumption DEF DatasetOK, Dataset, Tokenizers
<1> HIDE DEF staging
<1>4. CASE prep' = [prep EXCEPT !.at = "stage", !.timed = TRUE, !.staging = staging]
           /\ prepRuns' = prepRuns
  <2>1. GoesOn("stage") /\ prep'.staging = staging /\ prep'.done = prep.done
    BY <1>1, <1>4 DEF GoesOn, IsCommand
  <2>2. PrepRun' = PrepRun
    BY <1>4, <2>1 DEF PrepRun, GoesOn
  <2>3. CommandOK'
    BY <1>1, <2>1, CommandGoesOn DEF PrepInv, Places, Recording
  <2>4. DatasetsOK'
    BY <1>1, <1>3, <2>1, DatasetsKept DEF PrepInv, GoesOn
  <2>5. RunsOK'
    BY <1>4 DEF PrepInv, RunsOK
  <2>6. ProgressOK'
    BY <1>1, <2>1, <2>2 DEF ProgressOK, GoesOn, Recording
  <2> QED
    BY <2>3, <2>4, <2>5, <2>6 DEF PrepInv
<1>5. CASE Raise
  BY <1>1, <1>5, EndPreserves DEF Raise
<1> QED
  BY <1>2, <1>4, <1>5

\* A payload is written, or the manifest, behind the last one, which makes the
\* staging directory whole.
LEMMA StagePreserves ==
  ASSUME PrepInv, StageShard \/ SealStaging
  PROVE  PrepInv'
<1> DEFINE d == prep.staging
<1>1. /\ prep.at = "stage" /\ IsCommand(prep) /\ DatasetOK(d)
      /\ ~PrepRun.completion.saved
  BY DEF PrepInv, CommandOK, DatasetsOK, ProgressOK, Unsaved, StageShard, SealStaging
<1>2. /\ dataset' = dataset /\ backup' = backup /\ prepRuns' = prepRuns
      /\ preparations' = preparations
  BY DEF StageShard, SealStaging
<1>3. PICK to \in {"stage", "publish"} :
        /\ GoesOn(to) /\ prep'.done = prep.done /\ DatasetOK(prep'.staging)
        /\ to = "publish" => IsWhole(prep'.staging)
  <2>1. CASE StageShard
    <3> DEFINE e == [d EXCEPT !.written = @ + 1]
    <3>1. prep' = [prep EXCEPT !.staging = e] /\ d.written <= Len(d.train)
      BY <2>1 DEF StageShard
    <3>2. DatasetOK(e)
      BY <1>1, <3>1 DEF DatasetOK, Dataset
    <3> HIDE DEF e
    <3>3. GoesOn("stage") /\ prep'.done = prep.done /\ prep'.staging = e
      BY <1>1, <1>2, <3>1 DEF GoesOn, IsCommand
    <3> QED
      BY <3>2, <3>3
  <2>2. CASE SealStaging
    <3> DEFINE e == [d EXCEPT !.sealed = TRUE]
    <3>1. /\ prep' = [prep EXCEPT !.at = "publish", !.staging = e]
          /\ d.written = Len(d.train) + 1
      BY <2>2, <1>1 DEF SealStaging, IsCommand
    <3>2. DatasetOK(e) /\ IsWhole(e)
      BY <1>1, <3>1 DEF DatasetOK, IsWhole
    <3> HIDE DEF e
    <3>3. GoesOn("publish") /\ prep'.done = prep.done /\ prep'.staging = e
      BY <1>1, <1>2, <3>1 DEF GoesOn, IsCommand
    <3> QED
      BY <3>2, <3>3
  <2> QED
    BY <2>1, <2>2
<1>4. PrepRun' = PrepRun
  BY <1>2, <1>3 DEF PrepRun, GoesOn
<1>5. CommandOK'
  BY <1>1, <1>3, CommandGoesOn DEF PrepInv, Places, Recording
<1>6. DatasetsOK'
  BY <1>2, <1>3 DEF PrepInv, DatasetsOK, GoesOn
<1>7. RunsOK'
  BY <1>2 DEF PrepInv, RunsOK
<1>8. ProgressOK'
  BY <1>1, <1>3, <1>4 DEF ProgressOK, GoesOn, Recording
<1> QED
  BY <1>5, <1>6, <1>7, <1>8 DEF PrepInv

\* The renames of _publish_staged_directory: what they put in place is whole.
LEMMA PublishPreserves ==
  ASSUME PrepInv, PublishDataset \/ SetAside \/ ReplaceDataset \/ DiscardBackup
  PROVE  PrepInv'
<1>1. /\ prep.at \in {"publish", "replace", "discard"} /\ IsCommand(prep)
      /\ ~PrepRun.completion.saved /\ IsWhole(prep.staging)
  BY DEF PrepInv, CommandOK, DatasetsOK, ProgressOK, Unsaved, PublishDataset, SetAside,
         ReplaceDataset, DiscardBackup
<1>2. prepRuns' = prepRuns /\ preparations' = preparations
  BY DEF PublishDataset, SetAside, ReplaceDataset, DiscardBackup
<1>3. /\ GoesOn("replace") \/ GoesOn("discard") \/ GoesOn("match")
      /\ prep'.done = prep.done /\ prep'.staging \in {prep.staging, NoDataset}
      /\ prep'.at # "match" => prep'.staging = prep.staging
  <2>1. CASE PublishDataset \/ DiscardBackup
    <3>1. prep' = Published
      BY <2>1 DEF PublishDataset, DiscardBackup
    <3> QED
      BY <3>1, <1>1, <1>2 DEF Published, GoesOn, IsCommand
  <2>2. CASE SetAside \/ ReplaceDataset
    BY <2>2, <1>1, <1>2 DEF SetAside, ReplaceDataset, Goto, GoesOn, IsCommand
  <2> QED
    BY <2>1, <2>2
<1>4. PICK to \in {"replace", "discard", "match"} : GoesOn(to)
  BY <1>3
<1>5. PrepRun' = PrepRun
  BY <1>2, <1>4 DEF PrepRun, GoesOn
<1>6. CommandOK'
  BY <1>1, <1>3, <1>4, CommandGoesOn DEF PrepInv, Places, Recording
<1>7. DatasetsOK'
  <2>1. CASE PublishDataset
    <3>1. dataset' = prep.staging /\ backup' = backup /\ prep'.at = "match"
      BY <2>1, <1>1 DEF PublishDataset, Published, IsCommand
    <3> QED
      BY <3>1, <1>1, <1>3, NoDatasetOK DEF PrepInv, DatasetsOK, Standing
  <2>2. CASE SetAside
    <3>1. dataset' = NoDataset /\ backup' = dataset /\ prep'.at = "replace"
      BY <2>2, <1>1 DEF SetAside, Goto, IsCommand
    <3> QED
      BY <3>1, <1>1, <1>3, NoDatasetOK DEF PrepInv, DatasetsOK, Standing
  <2>3. CASE ReplaceDataset
    <3>1. dataset' = prep.staging /\ backup' = backup /\ prep'.at = "discard"
      BY <2>3, <1>1 DEF ReplaceDataset, Goto, IsCommand
    <3> QED
      BY <3>1, <1>1, <1>3, NoDatasetOK DEF PrepInv, DatasetsOK, Standing
  <2>4. CASE DiscardBackup
    <3>1. dataset' = dataset /\ backup' = NoDataset /\ prep'.at = "match"
      BY <2>4, <1>1 DEF DiscardBackup, Published, IsCommand
    <3> QED
      BY <3>1, <1>1, <1>3, NoDatasetOK DEF PrepInv, DatasetsOK, Standing
  <2> QED
    BY <2>1, <2>2, <2>3, <2>4
<1>8. RunsOK'
  BY <1>2 DEF PrepInv, RunsOK
<1>9. ProgressOK'
  BY <1>1, <1>4, <1>5 DEF ProgressOK, GoesOn, Recording
<1> QED
  BY <1>6, <1>7, <1>8, <1>9 DEF PrepInv

LEMMA MatchPreserves ==
  ASSUME PrepInv, MatchDataset
  PROVE  PrepInv'
<1>1. /\ prep.at = "match" /\ IsCommand(prep) /\ ~PrepRun.completion.saved
      /\ dataset' = dataset /\ backup' = backup /\ preparations' = preparations
  BY DEF PrepInv, CommandOK, ProgressOK, Unsaved, MatchDataset
<1>2. CASE Goto("describe") /\ prepRuns' = prepRuns
  <2>1. GoesOn("describe") /\ prep'.staging = prep.staging /\ prep'.done = prep.done
    BY <1>1, <1>2 DEF Goto, GoesOn, IsCommand
  <2>2. PrepRun' = PrepRun
    BY <1>2, <2>1 DEF PrepRun, GoesOn
  <2>3. ProgressOK'
    BY <1>1, <2>1, <2>2 DEF ProgressOK, GoesOn, Recording
  <2> QED
    BY <1>1, <1>2, <2>1, <2>3, StepGoesOn DEF Places, Recording
<1>3. CASE Raise
  BY <1>1, <1>3, EndPreserves DEF Raise
<1> QED
  BY <1>2, <1>3 DEF MatchDataset

-----------------------------------------------------------------------------
(***************************************************************************)
(* Describing and recording.                                               *)
(***************************************************************************)
\* A step of a command that writes its directory and leaves datasets alone.
LEMMA WritePreserves ==
  ASSUME PrepInv, prep.at # "idle", NEW d, RunOK(d), WriteRun(d),
         NEW to \in Places \ {"idle", "publish", "replace", "discard"}, GoesOn(to),
         IF to \in Recording THEN prep'.done \in 0 .. 3 ELSE prep'.done = prep.done,
         to \in Recording \/ prep.at \notin Recording,
         prep'.staging = prep.staging, dataset' = dataset, backup' = backup,
         PrepRun' = d => ProgressOK'
  PROVE  PrepInv'
<1>1. prep.run \in PrepRuns
  BY DEF PrepInv, CommandOK
<1>2. RunsOK' /\ prepRuns'[prep.run] = d
  BY <1>1, RunWritten DEF PrepInv
<1>3. PrepRun' = d
  BY <1>2 DEF PrepRun, GoesOn
<1>4. CommandOK'
  BY CommandGoesOn DEF PrepInv
<1>5. DatasetsOK'
  BY DatasetsKept DEF PrepInv, DatasetsOK, GoesOn
<1> QED
  BY <1>2, <1>3, <1>4, <1>5 DEF PrepInv

\* The descriptions are written while there is no completion state.
LEMMA DescribePreserves ==
  ASSUME PrepInv, DescribeRawData \/ DescribeDataset
  PROVE  PrepInv'
<1>1. /\ prep.at \in {"describe", "describe_manifest"} /\ IsCommand(prep)
      /\ prep.run \in PrepRuns /\ ~PrepRun.completion.saved
      /\ prep.at = "describe_manifest" => PrepRun.stats = prep.stats
      /\ dataset' = dataset /\ backup' = backup /\ preparations' = preparations
  BY DEF PrepInv, CommandOK, ProgressOK, Unsaved, DescribeRawData, DescribeDataset
<1>2. RunOK(PrepRun) /\ IsRun(PrepRun)
  BY <1>1, CurrentRun DEF PrepInv
<1>3. CASE DescribeRawData
  <2> DEFINE e == [PrepRun EXCEPT !.stats = prep.stats]
  <2>1. WriteRun(e)
    BY <1>3 DEF DescribeRawData
  <2>2. /\ IsRun(e) /\ e.journal = PrepRun.journal /\ e.completion = PrepRun.completion
        /\ e.stats = prep.stats
    BY <1>2 DEF IsRun
  <2> HIDE DEF e
  <2>3. RunOK(e)
    BY <1>1, <1>2, <2>2 DEF RunOK
  <2>4. /\ GoesOn("describe_manifest") /\ prep'.done = prep.done
        /\ prep'.staging = prep.staging /\ prep'.stats = prep.stats
    BY <1>1, <1>3 DEF DescribeRawData, Goto, GoesOn, IsCommand
  <2>5. PrepRun' = e => ProgressOK'
    BY <1>1, <2>2, <2>4 DEF ProgressOK, GoesOn, Recording
  <2> QED
    BY <1>1, <2>1, <2>3, <2>4, <2>5, WritePreserves DEF Places, Recording
<1>4. CASE DescribeDataset
  <2> DEFINE e == [PrepRun EXCEPT !.manifest = prep.manifest]
  <2>1. WriteRun(e) /\ prep.at = "describe_manifest"
    BY <1>4 DEF DescribeDataset
  <2>2. /\ IsRun(e) /\ e.journal = PrepRun.journal /\ e.completion = PrepRun.completion
        /\ e.stats = PrepRun.stats /\ e.manifest = prep.manifest
    BY <1>2 DEF IsRun
  <2> HIDE DEF e
  <2>3. RunOK(e)
    BY <1>1, <1>2, <2>2 DEF RunOK
  <2>4. /\ GoesOn("complete") /\ prep'.done = prep.done
        /\ prep'.staging = prep.staging /\ prep'.stats = prep.stats
        /\ prep'.manifest = prep.manifest
    BY <1>1, <1>4 DEF DescribeDataset, Goto, GoesOn, IsCommand
  <2>5. PrepRun' = e => ProgressOK'
    BY <1>1, <2>1, <2>2, <2>4 DEF ProgressOK, GoesOn, Recording
  <2> QED
    BY <1>1, <2>1, <2>3, <2>4, <2>5, WritePreserves DEF Places, Recording
<1> QED
  BY <1>3, <1>4

\* The state is saved over descriptions that are there, and an empty log.
LEMMA SaveCompletionPreserves ==
  ASSUME PrepInv, SaveCompletion
  PROVE  PrepInv'
<1> DEFINE state == [stats |-> prep.stats, manifest |-> prep.manifest,
                     timed |-> prep.timed, completed |-> 0, saved |-> TRUE]
           e == [PrepRun EXCEPT !.completion = state]
<1>1. /\ prep.at = "complete" /\ IsCommand(prep) /\ prep.run \in PrepRuns
      /\ ~PrepRun.completion.saved /\ prep.done = 0
      /\ PrepRun.stats = prep.stats /\ PrepRun.manifest = prep.manifest
      /\ dataset' = dataset /\ backup' = backup /\ preparations' = preparations
      /\ WriteRun(e)
  BY DEF PrepInv, CommandOK, ProgressOK, Unsaved, Recording, SaveCompletion
<1>2. RunOK(PrepRun) /\ IsRun(PrepRun)
  BY <1>1, CurrentRun DEF PrepInv
<1>3. /\ state.stats = prep.stats /\ state.manifest = prep.manifest
      /\ state.timed = prep.timed /\ state.completed = 0 /\ state.saved
      /\ state \in [stats : {state.stats}, manifest : {state.manifest},
                    timed : {state.timed}, completed : 0 .. 3, saved : BOOLEAN]
  OBVIOUS
<1> HIDE DEF state
<1>4. /\ IsRun(e) /\ e.journal = PrepRun.journal /\ e.completion = state
      /\ e.stats = PrepRun.stats /\ e.manifest = PrepRun.manifest
  BY <1>2, <1>3 DEF IsRun
<1> HIDE DEF e
<1>5. RunOK(e)
  <2>1. Len(e.journal) = 0 /\ e.journal = Journal(PrepRun.completion, 0)
    BY <1>1, <1>2, <1>4 DEF RunOK
  <2>2. Journal(PrepRun.completion, 0) = Journal(state, 0)
    BY DEF Journal
  <2> QED
    BY <1>1, <1>3, <1>4, <2>1, <2>2 DEF RunOK
<1>6. /\ GoesOn("record") /\ prep'.done = prep.done /\ prep'.staging = prep.staging
      /\ prep'.stats = prep.stats /\ prep'.manifest = prep.manifest
      /\ prep'.timed = prep.timed
  BY <1>1 DEF SaveCompletion, Goto, GoesOn, IsCommand
<1>7. PrepRun' = e => ProgressOK'
  BY <1>1, <1>3, <1>4, <1>6 DEF ProgressOK, GoesOn, Unsaved, Recording
<1>8. prep'.done \in 0 .. 3
  BY <1>1, <1>6
<1> QED
  BY <1>1, <1>5, <1>6, <1>7, <1>8, WritePreserves DEF Places, Recording

\* One more event makes a longer beginning of the state's events.
LEMMA JournalGrows ==
  ASSUME NEW state, NEW n \in Nat
  PROVE  Append(Journal(state, n), EventOf(state, n + 1)) = Journal(state, n + 1)
<1> DEFINE old == Journal(state, n)
           new == Journal(state, n + 1)
           Events == {EventOf(state, i) : i \in 1 .. n + 1}
           longer == Append(old, EventOf(state, n + 1))
<1>1. old \in [1 .. n -> Events] /\ new \in [1 .. n + 1 -> Events]
  BY DEF Journal
<1>2. EventOf(state, n + 1) \in Events
  OBVIOUS
<1>3. /\ \A i \in 1 .. n : old[i] = new[i]
      /\ new[n + 1] = EventOf(state, n + 1)
  BY DEF Journal
<1> HIDE DEF old, new, Events
<1>4. old \in Seq(Events) /\ new \in Seq(Events) /\ Len(old) = n /\ Len(new) = n + 1
  BY <1>1
<1>5. longer \in Seq(Events) /\ Len(longer) = n + 1
      /\ longer[n + 1] = EventOf(state, n + 1) /\ \A i \in 1 .. n : longer[i] = old[i]
  BY <1>2, <1>4, AppendProperties
<1>6. \A i \in 1 .. n + 1 : longer[i] = new[i]
  BY <1>3, <1>5
<1> HIDE DEF longer
<1>7. longer = new
  BY <1>4, <1>5, <1>6, SeqEqual
<1> QED
  BY <1>7 DEF longer, old, new

LEMMA EventsDiffer ==
  /\ Len(EventKinds) = 3
  /\ \A i, j \in 1 .. 3 : EventKinds[i] = EventKinds[j] => i = j
BY DEF EventKinds

\* While a command records, an event is in the log exactly when the log is
\* that long.
LEMMA RecordedIsLogged ==
  ASSUME PrepInv, prep.at = "record", prep.done < 3
  PROVE  /\ Event = EventOf(PrepRun.completion, prep.done + 1)
         /\ Recorded <=> prep.done < Len(PrepRun.journal)
<1> DEFINE d == PrepRun
           state == d.completion
           n == prep.done + 1
<1>1. /\ RunOK(d) /\ prep.done \in Nat /\ n \in 1 .. 3
      /\ state.stats = prep.stats /\ state.manifest = prep.manifest
      /\ state.timed = prep.timed
  BY CurrentRun DEF PrepInv, CommandOK, ProgressOK, Recording
<1>2. Event = EventOf(state, n)
  BY <1>1 DEF Event, EventOf
<1>3. d.journal = Journal(state, Len(d.journal)) /\ Len(d.journal) \in 0 .. 3
  BY <1>1 DEF RunOK
<1> HIDE DEF d, state, n
<1>4. /\ DOMAIN d.journal = 1 .. Len(d.journal)
      /\ \A i \in 1 .. Len(d.journal) : d.journal[i] = EventOf(state, i)
  BY <1>3 DEF Journal
<1>5. ASSUME NEW i \in 1 .. Len(d.journal)
      PROVE  SameEvent(d.journal[i]) <=> i = n
  <2>1. EventOf(state, i).kind = EventKinds[i] /\ Event.kind = EventKinds[n]
        /\ EventOf(state, i).identity = Event.identity
    BY <1>2 DEF EventOf, TrackingEvent
  <2>2. i \in 1 .. 3
    <3> DEFINE m == Len(d.journal)
    <3>1. m \in 0 .. 3 /\ i \in 1 .. m
      BY <1>3
    <3> HIDE DEF m
    <3> QED
      BY <3>1
  <2> QED
    BY <2>1, <2>2, <1>1, <1>4, EventsDiffer DEF SameEvent
<1>6. Recorded <=> n \in 1 .. Len(d.journal)
  BY <1>4, <1>5 DEF Recorded, d
<1>7. n \in 1 .. Len(d.journal) <=> prep.done < Len(d.journal)
  BY <1>1, <1>3 DEF n
<1> QED
  BY <1>2, <1>6, <1>7 DEF d, state, n

LEMMA AppendEventPreserves ==
  ASSUME PrepInv, AppendEvent
  PROVE  PrepInv'
<1> DEFINE d == PrepRun
           state == d.completion
           e == [d EXCEPT !.journal = Append(@, Event)]
<1>1. /\ prep.at = "record" /\ IsCommand(prep) /\ prep.run \in PrepRuns
      /\ prep.done \in 0 .. 2 /\ ~Recorded
      /\ state.saved /\ state.stats = prep.stats /\ state.manifest = prep.manifest
      /\ state.timed = prep.timed /\ prep.done <= state.completed
      /\ dataset' = dataset /\ backup' = backup /\ preparations' = preparations
      /\ WriteRun(e)
  BY EventsDiffer DEF PrepInv, CommandOK, ProgressOK, Recording, AppendEvent
<1>2. RunOK(d) /\ IsRun(d)
  BY <1>1, CurrentRun DEF PrepInv
<1>3. /\ Event = EventOf(state, prep.done + 1)
      /\ ~(prep.done < Len(d.journal))
  BY <1>1, RecordedIsLogged
<1>4. Len(d.journal) = prep.done /\ state.completed = prep.done
  <2> DEFINE m == Len(d.journal)
             c == state.completed
             k == prep.done
  <2>1. /\ m \in 0 .. 3 /\ c \in 0 .. 3
        /\ m = c \/ m = c + 1
    BY <1>2 DEF RunOK, IsRun
  <2>2. k \in 0 .. 2 /\ ~(k < m) /\ k <= c
    BY <1>1, <1>3
  <2> HIDE DEF m, c, k
  <2>3. m = k /\ c = k
    BY <2>1, <2>2
  <2> QED
    BY <2>3 DEF m, c, k
<1> DEFINE longer == Append(d.journal, Event)
<1>5. longer = Journal(state, prep.done + 1)
  BY <1>1, <1>2, <1>3, <1>4, JournalGrows DEF RunOK
<1>6. Len(longer) = prep.done + 1
  BY <1>1, <1>5 DEF Journal
<1>7. e = [d EXCEPT !.journal = longer]
  OBVIOUS
<1> HIDE DEF longer, d
<1>8. /\ IsRun(e) /\ e.journal = longer /\ e.completion = state
      /\ e.stats = d.stats /\ e.manifest = d.manifest
  BY <1>2, <1>7 DEF IsRun
<1> HIDE DEF e
<1>9. RunOK(e)
  <2>1. Len(e.journal) = prep.done + 1 /\ prep.done + 1 \in 0 .. 3
    BY <1>1, <1>6, <1>8
  <2>2. e.completion.completed = prep.done
    BY <1>4, <1>8
  <2>3. e.journal = Journal(e.completion, Len(e.journal))
    BY <1>5, <1>8, <2>1
  <2>4. e.completion.saved /\ e.stats = e.completion.stats
        /\ e.manifest = e.completion.manifest
    BY <1>1, <1>2, <1>8 DEF RunOK
  <2> QED
    BY <1>8, <2>1, <2>2, <2>3, <2>4 DEF RunOK
<1>10. /\ GoesOn("fan_out") \/ GoesOn("advance")
       /\ prep'.done = prep.done /\ prep'.staging = prep.staging
       /\ prep'.stats = prep.stats /\ prep'.manifest = prep.manifest
       /\ prep'.timed = prep.timed
  <2> DEFINE to == IF prep.config.remote THEN "fan_out" ELSE "advance"
  <2>1. Goto(to) /\ to \in {"fan_out", "advance"}
    BY DEF AppendEvent
  <2> HIDE DEF to
  <2> QED
    BY <1>1, <2>1 DEF Goto, GoesOn, IsCommand
<1>11. PICK to \in {"fan_out", "advance"} : GoesOn(to)
  BY <1>10
<1>12. PrepRun' = e => ProgressOK'
  BY <1>1, <1>6, <1>8, <1>10, <1>11 DEF ProgressOK, GoesOn, Unsaved, Recording
<1>13. prep'.done \in 0 .. 3
  BY <1>1, <1>10
<1> QED
  BY <1>1, <1>9, <1>10, <1>11, <1>12, <1>13, WritePreserves DEF Places, Recording

LEMMA FindEventPreserves ==
  ASSUME PrepInv, FindEvent
  PROVE  PrepInv'
<1>1. /\ prep.at = "record" /\ IsCommand(prep) /\ prep.done < 3 /\ Recorded
      /\ dataset' = dataset /\ backup' = backup /\ preparations' = preparations
      /\ prepRuns' = prepRuns
  BY EventsDiffer DEF PrepInv, CommandOK, FindEvent
<1>2. prep.done < Len(PrepRun.journal)
  BY <1>1, RecordedIsLogged
<1>3. /\ GoesOn("advance") /\ prep'.done = prep.done /\ prep'.staging = prep.staging
      /\ prep'.stats = prep.stats /\ prep'.manifest = prep.manifest
      /\ prep'.timed = prep.timed
  BY <1>1 DEF FindEvent, Goto, GoesOn, IsCommand
<1>4. PrepRun' = PrepRun
  BY <1>1, <1>3 DEF PrepRun, GoesOn
<1>5. ProgressOK'
  BY <1>1, <1>2, <1>3, <1>4 DEF PrepInv, ProgressOK, GoesOn, Unsaved, Recording
<1> QED
  BY <1>1, <1>3, <1>5, StepGoesOn DEF Places, Recording

LEMMA FanOutPreserves ==
  ASSUME PrepInv, FanOut
  PROVE  PrepInv'
<1> DEFINE d == PrepRun
           received == Append(d.remote, Event)
           e == [d EXCEPT !.remote = received]
<1>1. /\ prep.at = "fan_out" /\ IsCommand(prep) /\ prep.run \in PrepRuns
      /\ prep.done \in 0 .. 3
      /\ dataset' = dataset /\ backup' = backup /\ preparations' = preparations
      /\ WriteRun(e)
  BY DEF PrepInv, CommandOK, FanOut
<1>2. RunOK(d) /\ IsRun(d)
  BY <1>1, CurrentRun DEF PrepInv
<1> HIDE DEF received
<1>3. /\ IsRun(e) /\ e.journal = d.journal /\ e.completion = d.completion
      /\ e.stats = d.stats /\ e.manifest = d.manifest
  BY <1>2 DEF IsRun
<1> HIDE DEF e
<1>4. RunOK(e)
  BY <1>2, <1>3, RunKept
<1>5. /\ GoesOn("advance") /\ prep'.done = prep.done /\ prep'.staging = prep.staging
      /\ prep'.stats = prep.stats /\ prep'.manifest = prep.manifest
      /\ prep'.timed = prep.timed
  BY <1>1 DEF FanOut, Goto, GoesOn, IsCommand
<1>6. PrepRun' = e => ProgressOK'
  BY <1>1, <1>3, <1>5 DEF PrepInv, ProgressOK, GoesOn, Unsaved, Recording
<1> QED
  BY <1>1, <1>4, <1>5, <1>6, WritePreserves DEF Places, Recording

\* The state lists an event that the log has.
LEMMA AdvancePreserves ==
  ASSUME PrepInv, AdvanceCompletion
  PROVE  PrepInv'
<1> DEFINE d == PrepRun
           state == d.completion
           completed == IF state.completed > prep.done THEN state.completed
                        ELSE prep.done + 1
           after == [state EXCEPT !.completed = completed]
           e == [d EXCEPT !.completion = after]
<1>1. /\ prep.at = "advance" /\ IsCommand(prep) /\ prep.run \in PrepRuns
      /\ prep.done \in 0 .. 3 /\ prep.done < Len(d.journal)
      /\ state.saved /\ state.stats = prep.stats /\ state.manifest = prep.manifest
      /\ state.timed = prep.timed /\ prep.done <= state.completed
      /\ dataset' = dataset /\ backup' = backup /\ preparations' = preparations
  BY DEF PrepInv, CommandOK, ProgressOK, Recording, AdvanceCompletion
<1>2. RunOK(d) /\ IsRun(d)
  BY <1>1, CurrentRun DEF PrepInv
<1>3. WriteRun([d EXCEPT !.completion.completed = completed])
  BY DEF AdvanceCompletion
<1>4. WriteRun(e)
  BY <1>3
<1>5. /\ state.completed \in 0 .. 3 /\ Len(d.journal) \in 0 .. 3
      /\ Len(d.journal) = state.completed \/ Len(d.journal) = state.completed + 1
  BY <1>2 DEF RunOK, IsRun
<1>6. /\ completed \in 0 .. 3 /\ prep.done + 1 <= completed
      /\ prep.done + 1 \in 0 .. 3
      /\ Len(d.journal) = completed \/ Len(d.journal) = completed + 1
  <2> DEFINE m == Len(d.journal)
             c == state.completed
             k == prep.done
  <2>1. /\ m \in 0 .. 3 /\ c \in 0 .. 3
        /\ m = c \/ m = c + 1
        /\ k \in 0 .. 3 /\ k < m /\ k <= c
        /\ completed = IF c > k THEN c ELSE k + 1
    BY <1>1, <1>5
  <2> HIDE DEF m, c, k, completed
  <2>2. /\ completed \in 0 .. 3 /\ k + 1 <= completed /\ k + 1 \in 0 .. 3
        /\ m = completed \/ m = completed + 1
    BY <2>1
  <2> QED
    BY <2>2 DEF m, c, k
<1> HIDE DEF completed, d
<1>7. /\ after \in [stats : {after.stats}, manifest : {after.manifest},
                    timed : {after.timed}, completed : 0 .. 3, saved : BOOLEAN]
      /\ after.stats = state.stats /\ after.manifest = state.manifest
      /\ after.timed = state.timed /\ after.completed = completed
      /\ after.saved = state.saved
  BY <1>2, <1>6 DEF IsRun
<1> HIDE DEF after
<1>8. /\ IsRun(e) /\ e.journal = d.journal /\ e.completion = after
      /\ e.stats = d.stats /\ e.manifest = d.manifest
  BY <1>2, <1>7 DEF IsRun
<1> HIDE DEF e
<1>9. Journal(after, Len(d.journal)) = Journal(state, Len(d.journal))
  BY <1>7 DEF Journal, EventOf
<1>10. RunOK(e)
  BY <1>1, <1>2, <1>6, <1>7, <1>8, <1>9 DEF RunOK
<1>11. /\ GoesOn("record") /\ prep'.done = prep.done + 1
       /\ prep'.staging = prep.staging /\ prep'.stats = prep.stats
       /\ prep'.manifest = prep.manifest /\ prep'.timed = prep.timed
  <2> DEFINE next == prep.done + 1
  <2>1. prep' = [prep EXCEPT !.at = "record", !.done = next]
    BY DEF AdvanceCompletion
  <2> HIDE DEF next
  <2>2. /\ GoesOn("record") /\ prep'.done = next
        /\ prep'.staging = prep.staging /\ prep'.stats = prep.stats
        /\ prep'.manifest = prep.manifest /\ prep'.timed = prep.timed
    BY <1>1, <2>1 DEF GoesOn, IsCommand
  <2> QED
    BY <2>2 DEF next
<1>12. PrepRun' = e => ProgressOK'
  BY ZenonT(60), <1>1, <1>6, <1>7, <1>8, <1>11 DEF ProgressOK, GoesOn, Unsaved, Recording
<1>13. prep'.done \in 0 .. 3
  BY <1>6, <1>11
<1> QED
  BY <1>1, <1>4, <1>10, <1>11, <1>12, <1>13, WritePreserves DEF Places, Recording

\* A killed process leaves its directory with or without a torn line.
LEMMA KillPreserves ==
  ASSUME PrepInv, NEW torn \in BOOLEAN, KillPreparation(torn)
  PROVE  PrepInv'
<1> DEFINE d == PrepRun
           line == torn \/ d.torn
           e == [d EXCEPT !.torn = line]
<1>1. /\ prep.at # "idle" /\ prep.run \in PrepRuns /\ WriteRun(e)
      /\ prep' = [IdlePrep EXCEPT !.reply = "killed"]
      /\ dataset' = dataset /\ backup' = backup /\ preparations' = preparations
  BY DEF PrepInv, CommandOK, KillPreparation
<1>2. RunOK(d) /\ IsRun(d)
  BY <1>1, CurrentRun DEF PrepInv
<1> HIDE DEF line
<1>3. /\ IsRun(e) /\ e.journal = d.journal /\ e.completion = d.completion
      /\ e.stats = d.stats /\ e.manifest = d.manifest
  BY <1>2 DEF IsRun
<1> HIDE DEF e
<1>4. RunsOK'
  BY <1>1, <1>2, <1>3, RunKept, RunWritten DEF PrepInv
<1>5. CommandOK' /\ ProgressOK' /\ prep'.staging = NoDataset /\ prep'.at = "idle"
  BY <1>1, CommandEnds DEF PrepInv
<1>6. DatasetsOK'
  BY <1>1, <1>5, NoDatasetOK DEF PrepInv, DatasetsOK
<1> QED
  BY <1>4, <1>5, <1>6 DEF PrepInv

-----------------------------------------------------------------------------
(***************************************************************************)
(* Downloads and preparations together.                                    *)
(***************************************************************************)
PipelineInv == DownloadInv /\ PrepInv

\* Everything that ends a command early marks its directory and nothing else,
\* but for the dataset that a failed replacement puts back.
LEMMA FailurePreserves ==
  ASSUME PrepInv, RefuseRun \/ MissingValidation \/ RejectCompletion \/ StagingFails
                  \/ FinishPreparation \/ WriteFails
  PROVE  PrepInv'
<1>1. /\ prep.at # "idle" /\ preparations' = preparations
      /\ \/ dataset' = dataset /\ backup' = backup
         \/ dataset' = backup /\ backup' = NoDataset
  BY DEF RefuseRun, MissingValidation, RejectCompletion, StagingFails, FinishPreparation,
         WriteFails
<1>2. \E status, reply : EndPrep(status, reply)
  BY DEF RefuseRun, MissingValidation, RejectCompletion, StagingFails, FinishPreparation,
         WriteFails, Raise
<1> QED
  BY <1>1, <1>2, EndPreserves

LEMMA PrepInvNext ==
  ASSUME PrepInv, PrepNext
  PROVE  PrepInv'
<1>1. CASE \E r \in PrepRuns, c \in PrepConfigs, o \in BOOLEAN : StartPreparation(r, c, o)
  BY <1>1, StartPreserves
<1>2. CASE \E torn \in BOOLEAN : KillPreparation(torn)
  BY <1>2, KillPreserves
<1>3. CASE PrepStep
  <2>1. CASE OpenRun
    BY <2>1, OpenRunPreserves
  <2>2. CASE SelectShards \/ CountShards
    BY <2>2, SelectPreserves
  <2>3. CASE ReuseCompletion
    BY <2>3, ReuseCompletionPreserves
  <2>4. CASE ReuseDataset
    BY <2>4, ReuseDatasetPreserves
  <2>5. CASE BeginDataset
    BY <2>5, BeginDatasetPreserves
  <2>6. CASE StageShard \/ SealStaging
    BY <2>6, StagePreserves
  <2>7. CASE PublishDataset \/ SetAside \/ ReplaceDataset \/ DiscardBackup
    BY <2>7, PublishPreserves
  <2>8. CASE MatchDataset
    BY <2>8, MatchPreserves
  <2>9. CASE DescribeRawData \/ DescribeDataset
    BY <2>9, DescribePreserves
  <2>10. CASE SaveCompletion
    BY <2>10, SaveCompletionPreserves
  <2>11. CASE AppendEvent
    BY <2>11, AppendEventPreserves
  <2>12. CASE FindEvent
    BY <2>12, FindEventPreserves
  <2>13. CASE FanOut
    BY <2>13, FanOutPreserves
  <2>14. CASE AdvanceCompletion
    BY <2>14, AdvancePreserves
  <2>15. CASE RefuseRun \/ MissingValidation \/ RejectCompletion \/ StagingFails
              \/ FinishPreparation \/ WriteFails
    BY <2>15, FailurePreserves
  <2> QED
    BY <1>3, <2>1, <2>2, <2>3, <2>4, <2>5, <2>6, <2>7, <2>8, <2>9, <2>10, <2>11, <2>12,
       <2>13, <2>14, <2>15 DEF PrepStep
<1> QED
  BY <1>1, <1>2, <1>3 DEF PrepNext

\* A preparation downloads nothing.
LEMMA PreparationsDownloadNothing ==
  ASSUME PrepNext
  PROVE  UNCHANGED downloadVars
<1>1. CASE \E r \in PrepRuns, c \in PrepConfigs, o \in BOOLEAN : StartPreparation(r, c, o)
  BY <1>1 DEF StartPreparation
<1>2. CASE \E torn \in BOOLEAN : KillPreparation(torn)
  BY <1>2 DEF KillPreparation
<1>3. CASE PrepStep
  BY <1>3 DEF PrepStep, OpenRun, RefuseRun, SelectShards, CountShards, MissingValidation,
     ReuseCompletion, RejectCompletion, ReuseDataset, BeginDataset, StageShard,
     SealStaging, StagingFails, PublishDataset, SetAside, ReplaceDataset,
     DiscardBackup, MatchDataset, DescribeRawData, DescribeDataset, SaveCompletion,
     AppendEvent, FindEvent, FanOut, AdvanceCompletion, FinishPreparation, WriteFails
<1> QED
  BY <1>1, <1>2, <1>3 DEF PrepNext

LEMMA PrepInvStutters ==
  ASSUME PrepInv, UNCHANGED prepVars
  PROVE  PrepInv'
<1>1. /\ dataset' = dataset /\ backup' = backup /\ prepRuns' = prepRuns
      /\ prep' = prep /\ preparations' = preparations
  BY DEF prepVars
<1>2. CommandOK'
  BY <1>1 DEF PrepInv, CommandOK
<1>3. DatasetsOK'
  BY <1>1 DEF PrepInv, DatasetsOK
<1>4. RunsOK'
  BY <1>1 DEF PrepInv, RunsOK
<1>5. ProgressOK'
  BY <1>1 DEF PrepInv, ProgressOK, PrepRun
<1> QED
  BY <1>2, <1>3, <1>4, <1>5 DEF PrepInv

LEMMA PipelineInvHolds == PipelineSpec => []PipelineInv
<1>1. PipelineInit => PipelineInv
  BY DownloadInvInit, PrepInvInit DEF PipelineInit, PipelineInv
<1>2. PipelineInv /\ [PipelineNext]_pipelineVars => PipelineInv'
  <2> SUFFICES ASSUME PipelineInv, [PipelineNext]_pipelineVars
               PROVE  PipelineInv'
    OBVIOUS
  <2>1. CASE PrepNext
    <3>1. DownloadInv'
      BY <2>1, PreparationsDownloadNothing, DownloadInvNext DEF PipelineInv
    <3> QED
      BY <2>1, <3>1, PrepInvNext DEF PipelineInv
  <2>2. CASE DownloadNext /\ UNCHANGED prepVars
    BY <2>2, DownloadInvNext, PrepInvStutters DEF PipelineInv
  <2>3. CASE UNCHANGED pipelineVars
    <3>1. UNCHANGED downloadVars /\ UNCHANGED prepVars
      BY <2>3 DEF pipelineVars
    <3> QED
      BY <3>1, DownloadInvNext, PrepInvStutters DEF PipelineInv
  <2> QED
    BY <2>1, <2>2, <2>3 DEF PipelineNext
<1> QED
  BY <1>1, <1>2, PTL DEF PipelineSpec

\* Whatever the downloads, retries and kills, a run's log is a beginning of
\* the three events of the data its completion state and its descriptions
\* are about, at most one ahead of the state (_record_tracking_events).
THEOREM OneCoherentRecordHolds == PipelineSpec => []OneCoherentRecord
<1>1. PrepInv => OneCoherentRecord
  <2> SUFFICES ASSUME PrepInv, NEW r \in PrepRuns
               PROVE  LET d == prepRuns[r]
                          state == d.completion
                      IN  /\ Len(d.journal) \in {state.completed, state.completed + 1}
                          /\ d.journal # <<>> => /\ state.saved
                               /\ d.stats = state.stats /\ d.manifest = state.manifest
                          /\ \A i \in DOMAIN d.journal :
                               d.journal[i] = TrackingEvent(EventKinds[i],
                                 Identity(state.stats, state.manifest), state.timed)
    BY DEF OneCoherentRecord
  <2> DEFINE d == prepRuns[r]
             state == d.completion
  <2>1. RunOK(d)
    BY DEF PrepInv, RunsOK
  <2> HIDE DEF d
  <2>2. d.journal = Journal(state, Len(d.journal)) /\ Len(d.journal) \in Nat
    BY <2>1 DEF RunOK
  <2>3. Len(d.journal) \in {state.completed, state.completed + 1}
    BY <2>1 DEF RunOK
  <2>4. \A i \in DOMAIN d.journal : d.journal[i] = EventOf(state, i)
    BY <2>2 DEF Journal
  <2>5. d.journal # <<>> => Len(d.journal) # 0
    BY <2>2 DEF Journal
  <2>6. d.journal # <<>> => state.saved /\ d.stats = state.stats /\ d.manifest = state.manifest
    BY <2>1, <2>5 DEF RunOK
  <2> QED
    BY <2>3, <2>4, <2>6 DEF EventOf, d
<1> QED
  BY <1>1, PipelineInvHolds, PTL DEF PipelineInv

\* Commands, datasets, directories and downloads stay in their types: a
\* dataset never has more payloads than shards and a validation shard.
THEOREM PipelineTypesHold == PipelineSpec => []PipelineTypeOK
<1>1. PrepInv => PrepTypeOK
  <2> SUFFICES ASSUME PrepInv
               PROVE  PrepTypeOK
    OBVIOUS
  <2>1. /\ prep.at \in Places
        /\ prep.run \in PrepRuns \cup {"none"}
        /\ prep.config \in PrepConfigs \cup {NoConfig}
        /\ prep.done \in 0 .. Len(EventKinds)
        /\ preparations \in 0 .. MaxPreparations
    BY EventsDiffer DEF PrepInv, CommandOK
  <2>2. ASSUME NEW d \in {dataset, backup, prep.staging}
        PROVE  /\ d.written <= Len(d.train) + 1
               /\ d.tokenizer \in {NoTokenizer, prep.config.tokenizer}
                                  \cup {c.tokenizer : c \in PrepConfigs}
    BY DEF PrepInv, DatasetsOK, DatasetOK, Tokenizers
  <2>3. ASSUME NEW r \in PrepRuns
        PROVE  prepRuns[r].completion.completed \in 0 .. Len(EventKinds)
    BY EventsDiffer DEF PrepInv, RunsOK, RunOK, IsRun
  <2> QED
    BY <2>1, <2>2, <2>3 DEF PrepTypeOK, Places, Recording
<1>2. PipelineInv => PipelineTypeOK
  BY <1>1, DownloadTypes DEF PipelineInv, PipelineTypeOK
<1> QED
  BY <1>2, PipelineInvHolds, PTL

\* While preparations read the directory, what they read is whole: a shard
\* under its name is the remote one.
THEOREM PreparedIsWholeHolds == PipelineSpec => []PublishedIsWhole
<1>1. PipelineInv => PublishedIsWhole
  BY DEF PipelineInv, DownloadInv, FilesOK, PublishedIsWhole
<1> QED
  BY <1>1, PipelineInvHolds, PTL

\* Once there is a complete dataset there is always one, at its place or set
\* aside: no step of _publish_staged_directory, failed or killed, leaves none.
THEOREM DatasetNeverLostHolds == PipelineSpec => DatasetNeverLost
<1> DEFINE Lossless == (\E d \in {dataset, backup} : IsWhole(d))
                         => (\E d \in {dataset', backup'} : IsWhole(d))
<1>1. PipelineInv /\ [PipelineNext]_pipelineVars => [Lossless]_pipelineVars
  <2> SUFFICES ASSUME PipelineInv, PipelineNext
               PROVE  Lossless
    OBVIOUS
  <2>1. CASE dataset' = dataset /\ backup' = backup
    BY <2>1
  <2>2. CASE StagingFails /\ ~(dataset' = dataset /\ backup' = backup)
    <3>1. prep.at = "replace" /\ dataset' = backup
      BY <2>2 DEF StagingFails
    <3>2. ~IsWhole(dataset)
      BY <3>1, NoDatasetOK DEF PipelineInv, PrepInv, DatasetsOK
    <3> QED
      BY <3>1, <3>2
  <2>3. CASE PublishDataset \/ ReplaceDataset
    <3>1. dataset' = prep.staging /\ prep.at \in {"publish", "replace"}
      BY <2>3 DEF PublishDataset, ReplaceDataset
    <3> QED
      BY <3>1 DEF PipelineInv, PrepInv, DatasetsOK
  <2>4. CASE SetAside
    <3>1. backup' = dataset /\ dataset # NoDataset
      BY <2>4 DEF SetAside
    <3>2. IsWhole(dataset)
      BY <3>1 DEF PipelineInv, PrepInv, DatasetsOK, Standing
    <3> QED
      BY <3>1, <3>2
  <2>5. CASE DiscardBackup
    <3>1. dataset' = dataset /\ prep.at = "discard"
      BY <2>5 DEF DiscardBackup
    <3> QED
      BY <3>1 DEF PipelineInv, PrepInv, DatasetsOK
  <2>6. \/ dataset' = dataset /\ backup' = backup
        \/ StagingFails \/ PublishDataset \/ ReplaceDataset \/ SetAside \/ DiscardBackup
    <3>1. CASE PrepNext
      BY <3>1 DEF PrepNext, PrepStep, StartPreparation, KillPreparation, OpenRun,
         RefuseRun, SelectShards, CountShards, MissingValidation, ReuseCompletion,
         RejectCompletion, ReuseDataset, BeginDataset, StageShard, SealStaging,
         MatchDataset, DescribeRawData, DescribeDataset, SaveCompletion, AppendEvent,
         FindEvent, FanOut, AdvanceCompletion, FinishPreparation, WriteFails
    <3>2. CASE UNCHANGED prepVars
      BY <3>2 DEF prepVars
    <3> QED
      BY <3>1, <3>2 DEF PipelineNext
  <2> QED
    BY <2>1, <2>2, <2>3, <2>4, <2>5, <2>6
<1> QED
  BY <1>1, PipelineInvHolds, PTL DEF PipelineSpec, DatasetNeverLost
-----------------------------------------------------------------------------
(***************************************************************************)
(* Token loaders.  The argument has two halves.  What an epoch's rows are: *)
(* sums over a row (Total), the planner's index of capacities, which finds *)
(* the row that the reference planner finds by looking at every one, the   *)
(* pieces of the documents, each planned at one place, and the tokens that *)
(* each brings to its window.  And where a loader is in them: LoaderInv,   *)
(* which holds of the loader and of every state saved from it.             *)
(***************************************************************************)
\* f adds up the first terms of s.
Summed(f, s) == f[0] = 0 /\ \A n \in 1 .. Len(s) : f[n] = f[n - 1] + s[n]

LEMMA TotalIsSum ==
  ASSUME NEW s, Len(s) \in Nat
  PROVE  \E f : Summed(f, s) /\ Total(s) = f[Len(s)]
<1> DEFINE next(f, n) == IF n = 0 THEN 0 ELSE f[n - 1] + s[n]
           sum == CHOOSE f : f = [n \in 0 .. Len(s) |-> next(f, n)]
<1>1. \E f : f = [n \in 0 .. Len(s) |-> next(f, n)]
  <2>1. PICK f : /\ f = [n \in 0 .. Len(s) |-> f[n]] /\ f[0] = 0
                 /\ \A n \in 1 .. Len(s) : f[n] = f[n - 1] + s[n]
    BY SumsExist
  <2>2. \A n \in 0 .. Len(s) : f[n] = next(f, n)
    <3> TAKE n \in 0 .. Len(s)
    <3>1. CASE n = 0
      BY <2>1, <3>1
    <3>2. CASE n # 0
      <4>1. n \in 1 .. Len(s)
        BY <3>2
      <4> QED BY <2>1, <3>2, <4>1
    <3> QED BY <3>1, <3>2
  <2> HIDE DEF next
  <2>3. f = [n \in 0 .. Len(s) |-> next(f, n)]
    BY <2>1, <2>2
  <2> QED BY <2>3
<1>2. Total(s) = sum[Len(s)]
  BY DEF Total
<1>3. sum = [n \in 0 .. Len(s) |-> next(sum, n)]
  BY <1>1
<1> HIDE DEF sum
<1>4. sum[0] = 0
  BY <1>3
<1>5. ASSUME NEW n \in 1 .. Len(s) PROVE sum[n] = sum[n - 1] + s[n]
  <2>1. n \in 0 .. Len(s) /\ n # 0
    OBVIOUS
  <2>2. sum[n] = next(sum, n)
    BY <1>3, <2>1
  <2> QED BY <2>1, <2>2
<1>6. Summed(sum, s)
  BY <1>4, <1>5 DEF Summed
<1> QED BY <1>2, <1>6

\* The sum of a sequence that goes on for one more term.
LEMMA TotalGrows ==
  ASSUME NEW s, NEW t, Len(s) \in Nat, Len(t) = Len(s) + 1,
         \A n \in 1 .. Len(s) : t[n] = s[n]
  PROVE  Total(t) = Total(s) + t[Len(t)]
<1>1. PICK f : Summed(f, s) /\ Total(s) = f[Len(s)]
  BY TotalIsSum
<1>2. PICK g : Summed(g, t) /\ Total(t) = g[Len(t)]
  BY TotalIsSum
<1> DEFINE T == {n \in Nat : n <= Len(s) => g[n] = f[n]}
<1>3. 0 \in T
  BY <1>1, <1>2 DEF Summed
<1>4. ASSUME NEW n \in Nat, n \in T PROVE n + 1 \in T
  <2> SUFFICES ASSUME n + 1 <= Len(s) PROVE g[n + 1] = f[n + 1]
    OBVIOUS
  <2>1. n + 1 \in 1 .. Len(s) /\ n + 1 \in 1 .. Len(t) /\ (n + 1) - 1 = n /\ n <= Len(s)
    OBVIOUS
  <2>2. f[n + 1] = f[n] + s[n + 1] /\ g[n + 1] = g[n] + t[n + 1]
    BY <1>1, <1>2, <2>1 DEF Summed
  <2>3. g[n] = f[n] /\ t[n + 1] = s[n + 1]
    BY <1>4, <2>1
  <2> QED BY <2>2, <2>3
<1> HIDE DEF T
<1>5. Nat \subseteq T
  BY <1>3, <1>4, NaturalsAreInductive
<1>6. g[Len(s)] = f[Len(s)]
  BY <1>5 DEF T
<1>7. g[Len(t)] = g[Len(t) - 1] + t[Len(t)]
  BY <1>2 DEF Summed
<1> QED BY <1>1, <1>2, <1>6, <1>7

LEMMA TotalOfNone == ASSUME NEW s, Len(s) = 0 PROVE Total(s) = 0
  BY TotalIsSum DEF Summed

\* A sum of naturals is a natural, and no term is greater.
LEMMA TotalIsNat ==
  ASSUME NEW s, Len(s) \in Nat, \A n \in 1 .. Len(s) : s[n] \in Nat
  PROVE  Total(s) \in Nat
<1>1. PICK f : Summed(f, s) /\ Total(s) = f[Len(s)]
  BY TotalIsSum
<1> DEFINE T == {n \in Nat : n <= Len(s) => f[n] \in Nat}
<1>2. 0 \in T
  BY <1>1 DEF Summed
<1>3. ASSUME NEW n \in Nat, n \in T PROVE n + 1 \in T
  <2> SUFFICES ASSUME n + 1 <= Len(s) PROVE f[n + 1] \in Nat
    OBVIOUS
  <2>1. n + 1 \in 1 .. Len(s) /\ (n + 1) - 1 = n /\ n <= Len(s)
    OBVIOUS
  <2>2. f[n + 1] = f[n] + s[n + 1]
    BY <1>1, <2>1 DEF Summed
  <2> QED BY <1>3, <2>1, <2>2
<1> HIDE DEF T
<1>4. Nat \subseteq T
  BY <1>2, <1>3, NaturalsAreInductive
<1> QED BY <1>1, <1>4 DEF T

-----------------------------------------------------------------------------
USE LoaderAssumption DEF RowTokens

\* What planning takes: pieces that fit a row.
IsPiece(piece) == piece.count \in 0 .. SeqLen /\ piece.continues \in BOOLEAN
ArePieces(pieces) == Len(pieces) \in Nat /\ \A n \in 1 .. Len(pieces) : IsPiece(pieces[n])

Filled(row) == Total(Sizes(row))
IsRow(row)  == /\ Len(row) \in Nat \ {0} /\ DOMAIN row = 1 .. Len(row)
               /\ \A k \in 1 .. Len(row) : IsPiece(row[k])
AreRows(rows) == /\ Len(rows) \in Nat /\ DOMAIN rows = 1 .. Len(rows)
                 /\ rows = [r \in 1 .. Len(rows) |-> rows[r]]
                 /\ \A r \in 1 .. Len(rows) : IsRow(rows[r])

\* A plan's index: a row waits at the capacity it has left, if it has any.
IndexOK(plan) ==
  /\ plan = [rows |-> plan.rows, waiting |-> plan.waiting, open |-> plan.open]
  /\ plan.waiting = [c \in 0 .. RowTokens |-> plan.waiting[c]]
  /\ \A c \in 1 .. RowTokens : \A r : 
       r \in plan.waiting[c] <=> r \in DOMAIN plan.rows /\ RowTokens - Filled(plan.rows[r]) = c
  /\ \A c : c \in plan.open <=> c \in 1 .. RowTokens /\ plan.waiting[c] # {}
  /\ \A r \in DOMAIN plan.rows : Filled(plan.rows[r]) \in 1 .. RowTokens

PlanOK(plan) == AreRows(plan.rows) /\ IndexOK(plan)

LEMMA SizesOfRow ==
  ASSUME NEW row, Len(row) \in Nat, DOMAIN row = 1 .. Len(row)
  PROVE  /\ Len(Sizes(row)) = Len(row)
         /\ \A k \in 1 .. Len(row) : Sizes(row)[k] = PackedSize(row[k])
  BY DEF Sizes

LEMMA FilledByOne ==
  ASSUME NEW piece, IsPiece(piece)
  PROVE  Filled(<<piece>>) = PackedSize(piece) /\ PackedSize(piece) \in 1 .. RowTokens
<1>1. PackedSize(piece) \in 1 .. RowTokens
  BY DEF PackedSize, IsPiece
<1>2. Len(<<piece>>) = 1 /\ DOMAIN <<piece>> = 1 .. 1 /\ <<piece>>[1] = piece
  OBVIOUS
<1>3. Len(Sizes(<<piece>>)) = 1 /\ Sizes(<<piece>>)[1] = PackedSize(piece)
  BY <1>2, SizesOfRow
<1>4. Total(Sizes(<<piece>>)) = Total(<<>>) + PackedSize(piece)
  <2> DEFINE t == Sizes(<<piece>>)
             none == <<>>
  <2>1. Len(none) = 0 /\ Len(t) = Len(none) + 1 /\ t[Len(t)] = PackedSize(piece)
    BY <1>3
  <2> HIDE DEF t, none
  <2>2. Len(none) \in Nat /\ \A n \in 1 .. Len(none) : t[n] = none[n]
    BY <2>1
  <2>3. Total(t) = Total(none) + t[Len(t)]
    BY <2>1, <2>2, TotalGrows
  <2> QED BY <2>1, <2>3 DEF t, none
<1>5. Total(<<>>) = 0
  BY TotalOfNone
<1> QED BY <1>1, <1>4, <1>5 DEF Filled

LEMMA FilledByAppend ==
  ASSUME NEW row, NEW piece, Len(row) \in Nat, DOMAIN row = 1 .. Len(row)
  PROVE  Filled(Append(row, piece)) = Filled(row) + PackedSize(piece)
<1> DEFINE t == Append(row, piece)
<1>1. /\ Len(t) = Len(row) + 1 /\ DOMAIN t = 1 .. Len(t) /\ t[Len(row) + 1] = piece
      /\ \A k \in 1 .. Len(row) : t[k] = row[k]
  OBVIOUS
<1> HIDE DEF t
<1>2. /\ Len(Sizes(row)) = Len(row) /\ \A k \in 1 .. Len(row) : Sizes(row)[k] = PackedSize(row[k])
      /\ Len(Sizes(t)) = Len(t) /\ \A k \in 1 .. Len(t) : Sizes(t)[k] = PackedSize(t[k])
  BY <1>1, SizesOfRow
<1>3. \A k \in 1 .. Len(Sizes(row)) : Sizes(t)[k] = Sizes(row)[k]
  BY <1>1, <1>2
<1>4. Total(Sizes(t)) = Total(Sizes(row)) + Sizes(t)[Len(Sizes(t))]
  BY <1>1, <1>2, <1>3, TotalGrows
<1>5. Sizes(t)[Len(Sizes(t))] = PackedSize(piece)
  BY <1>1, <1>2
<1> QED BY <1>4, <1>5 DEF Filled, t

LEMMA LeastIs ==
  ASSUME NEW S \in SUBSET Nat, S # {}
  PROVE  Least(S) \in S /\ \A y \in S : Least(S) <= y
<1>1. \E x \in S : \A y \in S : x <= y
  BY LeastNatural
<1> QED BY <1>1 DEF Least

\* The index without what it says of one row.
IndexBut(plan, row) ==
  /\ plan = [rows |-> plan.rows, waiting |-> plan.waiting, open |-> plan.open]
  /\ plan.waiting = [c \in 0 .. RowTokens |-> plan.waiting[c]]
  /\ \A c \in 1 .. RowTokens : \A r :
       r \in plan.waiting[c] <=>
         r # row /\ r \in DOMAIN plan.rows /\ RowTokens - Filled(plan.rows[r]) = c
  /\ \A c : c \in plan.open <=> c \in 1 .. RowTokens /\ plan.waiting[c] # {}
  /\ \A r \in DOMAIN plan.rows : Filled(plan.rows[r]) \in 1 .. RowTokens

LEMMA RegisterCompletes ==
  ASSUME NEW plan, NEW row, IndexBut(plan, row), row \in DOMAIN plan.rows
  PROVE  LET done == Register(plan, RowTokens - Filled(plan.rows[row]), row) IN
         IndexOK(done) /\ done.rows = plan.rows
<1> DEFINE capacity == RowTokens - Filled(plan.rows[row])
           done == Register(plan, capacity, row)
<1>1. RowTokens \in Nat /\ Filled(plan.rows[row]) \in 1 .. RowTokens /\ capacity \in 0 .. RowTokens
  BY DEF IndexBut
<1>2. CASE capacity = 0
  <2>1. done = plan
    BY <1>2 DEF Register
  <2>2. \A c \in 1 .. RowTokens : \A r : r = row => RowTokens - Filled(plan.rows[r]) # c
    BY <1>2
  <2> HIDE DEF done, capacity
  <2>3. IndexOK(plan)
    BY <2>2 DEF IndexBut, IndexOK
  <2> QED BY <2>1, <2>3 DEF done, capacity
<1>3. CASE capacity # 0
  <2>1. capacity \in 1 .. RowTokens
    BY <1>1, <1>3
  <2> HIDE DEF capacity
  <2>2. done = [plan EXCEPT !.waiting[capacity] = @ \cup {row}, !.open = @ \cup {capacity}]
    BY <1>3 DEF Register
  <2> HIDE DEF done
  <2>3. /\ done.rows = plan.rows /\ done.open = plan.open \cup {capacity}
        /\ done.waiting = [plan.waiting EXCEPT ![capacity] = @ \cup {row}]
        /\ done = [rows |-> done.rows, waiting |-> done.waiting, open |-> done.open]
    BY <2>2 DEF IndexBut
  <2>4. /\ done.waiting = [c \in 0 .. RowTokens |-> done.waiting[c]]
        /\ \A c \in 0 .. RowTokens :
             done.waiting[c] = IF c = capacity THEN plan.waiting[c] \cup {row} ELSE plan.waiting[c]
    BY <1>1, <2>1, <2>3 DEF IndexBut
  <2>5. ASSUME NEW c \in 1 .. RowTokens, NEW r
        PROVE  r \in done.waiting[c] <=>
                 r \in DOMAIN plan.rows /\ RowTokens - Filled(plan.rows[r]) = c
    <3>0. c \in 0 .. RowTokens
      OBVIOUS
    <3>1. done.waiting[c] = IF c = capacity THEN plan.waiting[c] \cup {row} ELSE plan.waiting[c]
      BY <2>4, <3>0
    <3>2. r \in plan.waiting[c] <=>
            r # row /\ r \in DOMAIN plan.rows /\ RowTokens - Filled(plan.rows[r]) = c
      BY DEF IndexBut
    <3> QED BY <3>1, <3>2 DEF capacity
  <2>6. ASSUME NEW c PROVE c \in done.open <=> c \in 1 .. RowTokens /\ done.waiting[c] # {}
    <3>1. CASE c = capacity
      <4>1. row \in done.waiting[c] /\ c \in done.open
        BY <1>1, <2>3, <2>4, <3>1
      <4> QED BY <2>1, <3>1, <4>1
    <3>2. CASE c # capacity
      <4>0. c \in 1 .. RowTokens => c \in 0 .. RowTokens
        OBVIOUS
      <4>1. c \in 1 .. RowTokens => done.waiting[c] = plan.waiting[c]
        BY <2>4, <3>2, <4>0
      <4>2. c \in done.open <=> c \in plan.open
        BY <2>3, <3>2
      <4> QED BY <4>1, <4>2 DEF IndexBut
    <3> QED BY <3>1, <3>2
  <2>7. \A r \in DOMAIN done.rows : Filled(done.rows[r]) \in 1 .. RowTokens
    BY <2>3 DEF IndexBut
  <2>8. \A c \in 1 .. RowTokens : \A r :
          r \in done.waiting[c] <=> r \in DOMAIN done.rows /\ RowTokens - Filled(done.rows[r]) = c
    BY <2>3, <2>5
  <2>9. IndexOK(done)
    BY <2>3, <2>4, <2>6, <2>7, <2>8 DEF IndexOK
  <2> QED BY <2>3, <2>9 DEF done, capacity
<1> QED BY <1>2, <1>3

LEMMA AddRowKeeps ==
  ASSUME NEW plan, PlanOK(plan), NEW piece, IsPiece(piece)
  PROVE  PlanOK(AddRow(plan, piece)) /\ AddRow(plan, piece).rows = Append(plan.rows, <<piece>>)
<1> DEFINE rows == Append(plan.rows, <<piece>>)
           row == Len(plan.rows) + 1
           next == [plan EXCEPT !.rows = rows]
           single == <<piece>>
<1>1. /\ Len(plan.rows) \in Nat /\ DOMAIN plan.rows = 1 .. Len(plan.rows)
      /\ \A r \in 1 .. Len(plan.rows) : IsRow(plan.rows[r])
  BY DEF PlanOK, AreRows
<1>2. Filled(single) = PackedSize(piece) /\ PackedSize(piece) \in 1 .. RowTokens
  BY FilledByOne
<1>3. IsRow(single)
  <2>1. Len(single) = 1 /\ DOMAIN single = 1 .. 1 /\ \A k \in 1 .. 1 : single[k] = piece
    OBVIOUS
  <2> HIDE DEF single
  <2> QED BY <2>1 DEF IsRow
<1> HIDE DEF single
<1>4. /\ rows = Append(plan.rows, single)
      /\ Len(rows) = row /\ DOMAIN rows = 1 .. row /\ rows[row] = single
      /\ \A r \in 1 .. Len(plan.rows) : rows[r] = plan.rows[r]
  BY <1>1 DEF single
<1>5. row \in Nat /\ row \notin DOMAIN plan.rows
  BY <1>1
<1> HIDE DEF rows, row
<1>6. AreRows(rows)
  <2> SUFFICES ASSUME NEW r \in 1 .. row PROVE IsRow(rows[r])
    BY <1>4, <1>5 DEF AreRows
  <2>1. CASE r = row
    BY <1>3, <1>4, <2>1
  <2>2. CASE r # row
    <3>1. r \in 1 .. Len(plan.rows)
      BY <1>1, <2>2 DEF row
    <3> QED BY <1>1, <1>4, <3>1
  <2> QED BY <2>1, <2>2
<1>7. /\ next = [rows |-> rows, waiting |-> plan.waiting, open |-> plan.open]
      /\ next.rows = rows /\ next.waiting = plan.waiting /\ next.open = plan.open
  <2>1. plan = [rows |-> plan.rows, waiting |-> plan.waiting, open |-> plan.open]
    BY DEF PlanOK, IndexOK
  <2> QED BY <2>1
<1>8. IndexBut(next, row)
  <2> HIDE DEF next
  <2>1. ASSUME NEW c \in 1 .. RowTokens, NEW r
        PROVE  r \in plan.waiting[c] <=>
                 r # row /\ r \in DOMAIN rows /\ RowTokens - Filled(rows[r]) = c
    <3>1. r # row /\ r \in DOMAIN rows <=> r \in DOMAIN plan.rows
      BY <1>1, <1>4, <1>5 DEF row
    <3>2. r \in DOMAIN plan.rows => rows[r] = plan.rows[r]
      BY <1>1, <1>4
    <3> QED BY <3>1, <3>2 DEF PlanOK, IndexOK
  <2>2. ASSUME NEW r \in DOMAIN rows PROVE Filled(rows[r]) \in 1 .. RowTokens
    <3>1. CASE r = row
      BY <1>2, <1>4, <3>1
    <3>2. CASE r # row
      <4>1. r \in DOMAIN plan.rows
        BY <1>1, <1>4, <1>5, <3>2 DEF row
      <4> QED BY <1>1, <1>4, <4>1 DEF PlanOK, IndexOK
    <3> QED BY <3>1, <3>2
  <2> QED BY <1>7, <2>1, <2>2 DEF IndexBut, PlanOK, IndexOK
<1>9. row \in DOMAIN next.rows /\ next.rows[row] = single
  BY <1>4, <1>5, <1>7
<1>10. AddRow(plan, piece) = Register(next, RowTokens - PackedSize(piece), row)
  BY DEF AddRow, rows, row, single
<1> HIDE DEF next
<1>11. IndexOK(AddRow(plan, piece)) /\ AddRow(plan, piece).rows = next.rows
  BY <1>2, <1>8, <1>9, <1>10, RegisterCompletes
<1> QED BY <1>4, <1>6, <1>7, <1>11 DEF PlanOK, single

\* The index finds the row that the scan finds.
LEMMA SameRowIsBest ==
  ASSUME NEW plan, PlanOK(plan), NEW piece, IsPiece(piece)
  PROVE  LET fitting == {c \in plan.open : c >= PackedSize(piece)}
             c == Least(fitting)
             row == Least(plan.waiting[c])
             fits == {r \in DOMAIN plan.rows : Remaining(plan.rows[r], piece) >= 0}
             best == {r \in fits : \A s \in fits :
                        Remaining(plan.rows[r], piece) <= Remaining(plan.rows[s], piece)}
         IN  /\ fitting = {} <=> fits = {}
             /\ fitting # {} => /\ c \in fitting /\ row \in plan.waiting[c]
                                /\ row = Least(best)
<1> DEFINE size == PackedSize(piece)
           left(r) == RowTokens - Filled(plan.rows[r])
           fitting == {c \in plan.open : c >= size}
           fits == {r \in DOMAIN plan.rows : Remaining(plan.rows[r], piece) >= 0}
           best == {r \in fits : \A s \in fits :
                      Remaining(plan.rows[r], piece) <= Remaining(plan.rows[s], piece)}
           c == Least(fitting)
<1>1. size \in 1 .. RowTokens /\ RowTokens \in Nat
  BY DEF PackedSize, IsPiece
<1>2. /\ \A d \in 1 .. RowTokens : \A r :
           r \in plan.waiting[d] <=> r \in DOMAIN plan.rows /\ left(r) = d
      /\ \A d : d \in plan.open <=> d \in 1 .. RowTokens /\ plan.waiting[d] # {}
      /\ \A r \in DOMAIN plan.rows : left(r) \in 0 .. RowTokens - 1
      /\ DOMAIN plan.rows \subseteq Nat
  <2>1. \A r \in DOMAIN plan.rows : Filled(plan.rows[r]) \in 1 .. RowTokens
    BY DEF PlanOK, IndexOK
  <2>2. \A r \in DOMAIN plan.rows : left(r) \in 0 .. RowTokens - 1
    BY <1>1, <2>1
  <2>3. DOMAIN plan.rows \subseteq Nat
    BY DEF PlanOK, AreRows
  <2> QED BY <2>2, <2>3 DEF PlanOK, IndexOK
<1>3. \A r : Remaining(plan.rows[r], piece) = left(r) - size
  BY DEF Remaining, Filled
<1> HIDE DEF size, left
<1>4. \A r \in DOMAIN plan.rows : r \in fits <=> left(r) >= size
  BY <1>1, <1>2, <1>3
<1>5. \A r \in fits : left(r) \in fitting /\ r \in plan.waiting[left(r)]
  <2> TAKE r \in fits
  <2>1. r \in DOMAIN plan.rows /\ left(r) >= size /\ left(r) \in 1 .. RowTokens
    BY <1>1, <1>2, <1>4
  <2> QED BY <1>2, <2>1
<1>6. \A d \in fitting : \A r \in plan.waiting[d] : r \in fits /\ left(r) = d
  <2> TAKE d \in fitting
  <2>1. d \in 1 .. RowTokens /\ d >= size
    BY <1>2
  <2> QED BY <1>2, <1>4, <2>1
<1>7. \A d \in fitting : plan.waiting[d] # {} /\ d \in Nat
  BY <1>2
<1>8. fitting = {} <=> fits = {}
  <2> HIDE DEF fitting, fits
  <2> QED BY <1>5, <1>6, <1>7
<1>9. ASSUME fitting # {}
      PROVE  c \in fitting /\ Least(plan.waiting[c]) \in plan.waiting[c]
             /\ Least(plan.waiting[c]) = Least(best)
  <2> HIDE DEF fitting, c
  <2>1. c \in fitting /\ \A d \in fitting : c <= d
    <3>1. fitting \in SUBSET Nat
      BY <1>7
    <3> QED BY <1>9, <3>1, LeastIs DEF c
  <2>2. plan.waiting[c] # {} /\ plan.waiting[c] \in SUBSET Nat
    <3>1. \A r \in plan.waiting[c] : r \in DOMAIN plan.rows
      BY <1>6, <2>1
    <3> QED BY <1>2, <1>7, <2>1, <3>1
  <2>3. ASSUME NEW r PROVE r \in best <=> r \in plan.waiting[c]
    <3>0. r \in best <=> r \in fits /\ \A s \in fits : left(r) <= left(s)
      <4>1. \A s \in fits : left(s) \in Nat /\ s \in DOMAIN plan.rows
        BY <1>2
      <4> HIDE DEF fits
      <4> QED BY <1>1, <1>3, <4>1
    <3> HIDE DEF best, fits
    <3>1. ASSUME r \in plan.waiting[c] PROVE r \in best
      <4>1. r \in fits /\ left(r) = c
        BY <1>6, <2>1, <3>1
      <4>2. \A s \in fits : c <= left(s)
        BY <1>5, <2>1
      <4> QED BY <3>0, <4>1, <4>2
    <3>2. ASSUME r \in best PROVE r \in plan.waiting[c]
      <4>1. PICK s : s \in plan.waiting[c]
        BY <2>2
      <4>2. s \in fits /\ left(s) = c
        BY <1>6, <2>1, <4>1
      <4>3. r \in fits /\ left(r) <= c
        BY <3>0, <3>2, <4>2
      <4>4. left(r) \in fitting /\ r \in plan.waiting[left(r)] /\ c <= left(r)
        BY <1>5, <2>1, <4>3
      <4>5. left(r) \in Nat /\ c \in Nat
        BY <1>7, <2>1, <4>4
      <4> QED BY <4>3, <4>4, <4>5
    <3> QED BY <3>1, <3>2
  <2>4. best = plan.waiting[c]
    <3> HIDE DEF best
    <3> QED BY <2>3
  <2> HIDE DEF best
  <2> QED BY <2>1, <2>2, <2>4, LeastIs
<1> QED BY <1>8, <1>9 DEF size

\* A piece put through the index goes where the scan puts it.
LEMMA PlaceKeeps ==
  ASSUME NEW plan, PlanOK(plan), NEW piece, IsPiece(piece)
  PROVE  PlanOK(Place(plan, piece)) /\ Place(plan, piece).rows = PlaceByScan(plan.rows, piece)
<1> DEFINE size == PackedSize(piece)
           fitting == {c \in plan.open : c >= size}
           c == Least(fitting)
           row == Least(plan.waiting[c])
           fits == {r \in DOMAIN plan.rows : Remaining(plan.rows[r], piece) >= 0}
           best == {r \in fits : \A s \in fits :
                      Remaining(plan.rows[r], piece) <= Remaining(plan.rows[s], piece)}
<1>1. /\ fitting = {} <=> fits = {}
      /\ fitting # {} => c \in fitting /\ row \in plan.waiting[c] /\ row = Least(best)
  BY SameRowIsBest
<1>2. CASE piece.continues \/ fitting = {}
  <2>1. Place(plan, piece) = AddRow(plan, piece)
    BY <1>2 DEF Place, PlaceBestFit
  <2>2. PlaceByScan(plan.rows, piece) = Append(plan.rows, <<piece>>)
    <3> HIDE DEF fitting
    <3>1. piece.continues \/ fits = {}
      BY <1>1, <1>2
    <3> QED BY <3>1 DEF PlaceByScan
  <2> QED BY <2>1, <2>2, AddRowKeeps
<1>3. CASE ~piece.continues /\ fitting # {}
  <2> DEFINE others == plan.waiting[c] \ {row}
             long == Append(plan.rows[row], piece)
             rows == [plan.rows EXCEPT ![row] = long]
             waiting == [plan.waiting EXCEPT ![c] = others]
             open == IF others = {} THEN plan.open \ {c} ELSE plan.open
             next == [plan EXCEPT !.rows = rows, !.waiting = waiting, !.open = open]
  <2>1. PlaceByScan(plan.rows, piece) = rows
    <3> HIDE DEF fitting
    <3>1. ~(piece.continues \/ fits = {}) /\ row = Least(best)
      BY <1>1, <1>3
    <3> QED BY <3>1 DEF PlaceByScan
  <2>2. Place(plan, piece) = Register(next, c - size, row)
    BY <1>3 DEF Place, PlaceBestFit
  <2>3. c \in plan.open /\ c >= size /\ row \in plan.waiting[c] /\ size \in 1 .. RowTokens
    <3>1. size \in 1 .. RowTokens
      BY DEF PackedSize, IsPiece
    <3> QED BY <1>1, <1>3, <3>1
  <2> HIDE DEF fitting, fits, best, row, c, size
  <2>4. /\ c \in 1 .. RowTokens /\ row \in DOMAIN plan.rows
        /\ RowTokens - Filled(plan.rows[row]) = c
        /\ plan.waiting = [d \in 0 .. RowTokens |-> plan.waiting[d]]
        /\ \A d \in 1 .. RowTokens : \A r :
             r \in plan.waiting[d] <=> r \in DOMAIN plan.rows /\ RowTokens - Filled(plan.rows[r]) = d
        /\ \A d : d \in plan.open <=> d \in 1 .. RowTokens /\ plan.waiting[d] # {}
        /\ \A r \in DOMAIN plan.rows : Filled(plan.rows[r]) \in 1 .. RowTokens
        /\ plan = [rows |-> plan.rows, waiting |-> plan.waiting, open |-> plan.open]
    BY <2>3 DEF PlanOK, IndexOK
  <2>5. IsRow(plan.rows[row]) /\ Filled(long) = Filled(plan.rows[row]) + size
    <3>1. IsRow(plan.rows[row])
      BY <2>4 DEF PlanOK, AreRows
    <3>2. Len(plan.rows[row]) \in Nat /\ DOMAIN plan.rows[row] = 1 .. Len(plan.rows[row])
      BY <3>1 DEF IsRow
    <3> QED BY <3>1, <3>2, FilledByAppend DEF size
  <2>6. IsRow(long)
    <3> DEFINE old == plan.rows[row]
    <3>1. /\ Len(old) \in Nat /\ DOMAIN old = 1 .. Len(old)
          /\ \A k \in 1 .. Len(old) : IsPiece(old[k])
      BY <2>5 DEF IsRow
    <3> HIDE DEF old
    <3>2. /\ Len(Append(old, piece)) = Len(old) + 1
          /\ DOMAIN Append(old, piece) = 1 .. Len(old) + 1
          /\ Append(old, piece)[Len(old) + 1] = piece
          /\ \A k \in 1 .. Len(old) : Append(old, piece)[k] = old[k]
      BY <3>1
    <3>3. \A k \in 1 .. Len(old) + 1 : k \in 1 .. Len(old) \/ k = Len(old) + 1
      BY <3>1
    <3>4. IsRow(Append(old, piece))
      BY <3>1, <3>2, <3>3 DEF IsRow
    <3> QED BY <3>4 DEF old
  <2> HIDE DEF long
  <2>7. /\ DOMAIN rows = DOMAIN plan.rows /\ Len(rows) = Len(plan.rows)
        /\ rows[row] = long /\ \A r \in DOMAIN plan.rows : r # row => rows[r] = plan.rows[r]
    <3>1. DOMAIN plan.rows = 1 .. Len(plan.rows) /\ Len(plan.rows) \in Nat
      BY DEF PlanOK, AreRows
    <3>2. DOMAIN rows = DOMAIN plan.rows
      OBVIOUS
    <3>3. Len(rows) = Len(plan.rows)
      <4> HIDE DEF rows
      <4> QED BY <3>1, <3>2
    <3> QED BY <2>4, <3>2, <3>3
  <2> HIDE DEF rows
  <2>8. AreRows(rows)
    <3>0. rows = [r \in DOMAIN plan.rows |-> rows[r]] /\ DOMAIN plan.rows = 1 .. Len(plan.rows)
      BY DEF rows, PlanOK, AreRows
    <3>1. \A r \in 1 .. Len(plan.rows) : IsRow(rows[r])
      BY <2>6, <2>7 DEF PlanOK, AreRows
    <3> QED BY <2>7, <3>0, <3>1 DEF PlanOK, AreRows
  <2>9. /\ waiting = [d \in 0 .. RowTokens |-> waiting[d]]
        /\ \A d \in 1 .. RowTokens : waiting[d] = IF d = c THEN others ELSE plan.waiting[d]
    <3>1. \A d \in 1 .. RowTokens : d \in 0 .. RowTokens
      OBVIOUS
    <3> HIDE DEF others
    <3> QED BY <2>4, <3>1
  <2> HIDE DEF waiting
  <2>10. ASSUME NEW d \in 1 .. RowTokens, NEW r
         PROVE  r \in waiting[d] <=>
                  r # row /\ r \in DOMAIN rows /\ RowTokens - Filled(rows[r]) = d
    <3>1. CASE r = row
      <4>1. CASE d = c
        <5>1. waiting[d] = others
          BY <2>9, <4>1
        <5> QED BY <3>1, <5>1
      <4>2. CASE d # c
        <5>1. waiting[d] = plan.waiting[d]
          BY <2>9, <4>2
        <5>2. row \notin plan.waiting[d]
          BY <2>4, <4>2
        <5> QED BY <3>1, <5>1, <5>2
      <4> QED BY <4>1, <4>2
    <3>2. CASE r # row
      <4>1. r \in waiting[d] <=> r \in plan.waiting[d]
        BY <2>9, <3>2
      <4> QED BY <2>4, <2>7, <3>2, <4>1
    <3> QED BY <3>1, <3>2
  <2>11. ASSUME NEW d PROVE d \in open <=> d \in 1 .. RowTokens /\ waiting[d] # {}
    <3>1. CASE d = c
      BY <2>3, <2>4, <2>9, <3>1
    <3>2. CASE d # c
      <4>1. d \in open <=> d \in plan.open
        BY <3>2
      <4> QED BY <2>4, <2>9, <3>2, <4>1
    <3> QED BY <3>1, <3>2
  <2>12. \A r \in DOMAIN rows : Filled(rows[r]) \in 1 .. RowTokens
    <3> TAKE r \in DOMAIN rows
    <3>1. CASE r = row
      <4>1. Filled(plan.rows[row]) \in 1 .. RowTokens
        BY <2>4
      <4> QED BY <2>3, <2>4, <2>5, <2>7, <3>1, <4>1
    <3>2. CASE r # row
      BY <2>4, <2>7, <3>2
    <3> QED BY <3>1, <3>2
  <2> HIDE DEF open
  <2>13. /\ next = [rows |-> rows, waiting |-> waiting, open |-> open]
         /\ next.rows = rows /\ next.waiting = waiting /\ next.open = open
    <3>1. plan = [rows |-> plan.rows, waiting |-> plan.waiting, open |-> plan.open]
      BY <2>4
    <3>2. plan \in [rows : {plan.rows}, waiting : {plan.waiting}, open : {plan.open}]
      BY <3>1
    <3>3. next = [rows |-> rows, waiting |-> waiting, open |-> open]
      <4>1. next \in [rows : {rows}, waiting : {waiting}, open : {open}]
        BY <3>2
      <4> HIDE DEF next
      <4> QED BY <4>1
    <3> HIDE DEF next
    <3> QED BY <3>3
  <2> HIDE DEF next
  <2>14. IndexBut(next, row)
    BY <2>9, <2>10, <2>11, <2>12, <2>13 DEF IndexBut
  <2>15. row \in DOMAIN next.rows /\ RowTokens - Filled(next.rows[row]) = c - size
    <3>1. Filled(plan.rows[row]) \in 1 .. RowTokens
      BY <2>4
    <3> QED BY <2>3, <2>4, <2>5, <2>7, <2>13, <3>1
  <2>16. IndexOK(Register(next, c - size, row)) /\ Register(next, c - size, row).rows = rows
    BY <2>13, <2>14, <2>15, RegisterCompletes
  <2> QED BY <2>1, <2>2, <2>8, <2>16 DEF PlanOK
<1> QED BY <1>2, <1>3

-----------------------------------------------------------------------------
\* f[n] is the plan of the first n pieces, or the rows that scanning gives.
Planned(f, pieces) ==
  f[0] = NoRows /\ \A n \in 1 .. Len(pieces) : f[n] = Place(f[n - 1], pieces[n])
Scanned(f, pieces) ==
  f[0] = <<>> /\ \A n \in 1 .. Len(pieces) : f[n] = PlaceByScan(f[n - 1], pieces[n])

\* Both recursions have a solution, at every length.
LEMMA PlansExist ==
  ASSUME NEW pieces
  PROVE  \A m \in Nat : \E f : /\ f = [n \in 0 .. m |-> f[n]] /\ f[0] = NoRows
                               /\ \A n \in 1 .. m : f[n] = Place(f[n - 1], pieces[n])
<1> DEFINE Runs(f, m) == /\ f = [n \in 0 .. m |-> f[n]] /\ f[0] = NoRows
                         /\ \A n \in 1 .. m : f[n] = Place(f[n - 1], pieces[n])
           T == {m \in Nat : \E f : Runs(f, m)}
<1>1. 0 \in T
  <2> DEFINE g == [n \in 0 .. 0 |-> NoRows]
  <2>1. g = [n \in 0 .. 0 |-> g[n]] /\ g[0] = NoRows
    OBVIOUS
  <2> HIDE DEF g
  <2>2. Runs(g, 0)
    BY <2>1
  <2> HIDE DEF Runs
  <2> QED BY <2>2
<1>2. ASSUME NEW m \in Nat, m \in T PROVE m + 1 \in T
  <2>1. PICK f : Runs(f, m)
    BY <1>2
  <2> DEFINE last == Place(f[m], pieces[m + 1])
             g == [n \in 0 .. m + 1 |-> IF n = m + 1 THEN last ELSE f[n]]
  <2> HIDE DEF last
  <2>2. g[0] = NoRows /\ g = [n \in 0 .. m + 1 |-> g[n]]
    BY <2>1
  <2>3. ASSUME NEW n \in 1 .. m + 1 PROVE g[n] = Place(g[n - 1], pieces[n])
    <3>1. CASE n \in 1 .. m
      <4>1. g[n - 1] = f[n - 1] /\ g[n] = f[n]
        BY <3>1
      <4>2. f[n] = Place(f[n - 1], pieces[n])
        BY <2>1, <3>1
      <4> QED BY <4>1, <4>2
    <3>2. CASE n = m + 1
      <4>1. n - 1 = m /\ g[m] = f[m] /\ g[n] = last
        BY <3>2
      <4> QED BY <3>2, <4>1 DEF last
    <3> QED BY <3>1, <3>2
  <2> HIDE DEF g
  <2>4. Runs(g, m + 1)
    BY <2>2, <2>3
  <2> HIDE DEF Runs
  <2> QED BY <2>4
<1> HIDE DEF T
<1>3. Nat \subseteq T
  BY <1>1, <1>2, NaturalsAreInductive
<1> QED BY <1>3 DEF T

LEMMA ScansExist ==
  ASSUME NEW pieces
  PROVE  \A m \in Nat : \E f : /\ f = [n \in 0 .. m |-> f[n]] /\ f[0] = <<>>
                               /\ \A n \in 1 .. m : f[n] = PlaceByScan(f[n - 1], pieces[n])
<1> DEFINE Runs(f, m) == /\ f = [n \in 0 .. m |-> f[n]] /\ f[0] = <<>>
                         /\ \A n \in 1 .. m : f[n] = PlaceByScan(f[n - 1], pieces[n])
           T == {m \in Nat : \E f : Runs(f, m)}
<1>1. 0 \in T
  <2> DEFINE g == [n \in 0 .. 0 |-> <<>>]
  <2>1. g = [n \in 0 .. 0 |-> g[n]] /\ g[0] = <<>>
    OBVIOUS
  <2> HIDE DEF g
  <2>2. Runs(g, 0)
    BY <2>1
  <2> HIDE DEF Runs
  <2> QED BY <2>2
<1>2. ASSUME NEW m \in Nat, m \in T PROVE m + 1 \in T
  <2>1. PICK f : Runs(f, m)
    BY <1>2
  <2> DEFINE last == PlaceByScan(f[m], pieces[m + 1])
             g == [n \in 0 .. m + 1 |-> IF n = m + 1 THEN last ELSE f[n]]
  <2> HIDE DEF last
  <2>2. g[0] = <<>> /\ g = [n \in 0 .. m + 1 |-> g[n]]
    BY <2>1
  <2>3. ASSUME NEW n \in 1 .. m + 1 PROVE g[n] = PlaceByScan(g[n - 1], pieces[n])
    <3>1. CASE n \in 1 .. m
      <4>1. g[n - 1] = f[n - 1] /\ g[n] = f[n]
        BY <3>1
      <4>2. f[n] = PlaceByScan(f[n - 1], pieces[n])
        BY <2>1, <3>1
      <4> QED BY <4>1, <4>2
    <3>2. CASE n = m + 1
      <4>1. n - 1 = m /\ g[m] = f[m] /\ g[n] = last
        BY <3>2
      <4> QED BY <3>2, <4>1 DEF last
    <3> QED BY <3>1, <3>2
  <2> HIDE DEF g
  <2>4. Runs(g, m + 1)
    BY <2>2, <2>3
  <2> HIDE DEF Runs
  <2> QED BY <2>4
<1> HIDE DEF T
<1>3. Nat \subseteq T
  BY <1>1, <1>2, NaturalsAreInductive
<1> QED BY <1>3 DEF T

LEMMA PlannedRowsAre ==
  ASSUME NEW pieces, Len(pieces) \in Nat
  PROVE  \E f : Planned(f, pieces) /\ PlannedRows(pieces) = f[Len(pieces)].rows
<1> DEFINE next(f, n) == IF n = 0 THEN NoRows ELSE Place(f[n - 1], pieces[n])
           plan == CHOOSE f : f = [n \in 0 .. Len(pieces) |-> next(f, n)]
<1>1. \E f : f = [n \in 0 .. Len(pieces) |-> next(f, n)]
  <2>1. PICK f : /\ f = [n \in 0 .. Len(pieces) |-> f[n]] /\ f[0] = NoRows
                 /\ \A n \in 1 .. Len(pieces) : f[n] = Place(f[n - 1], pieces[n])
    BY PlansExist
  <2>2. \A n \in 0 .. Len(pieces) : f[n] = next(f, n)
    <3> TAKE n \in 0 .. Len(pieces)
    <3>1. CASE n = 0
      BY <2>1, <3>1
    <3>2. CASE n # 0
      <4>1. n \in 1 .. Len(pieces)
        BY <3>2
      <4> QED BY <2>1, <3>2, <4>1
    <3> QED BY <3>1, <3>2
  <2> HIDE DEF next
  <2>3. f = [n \in 0 .. Len(pieces) |-> next(f, n)]
    BY <2>1, <2>2
  <2> QED BY <2>3
<1>2. PlannedRows(pieces) = plan[Len(pieces)].rows
  BY DEF PlannedRows
<1>3. plan = [n \in 0 .. Len(pieces) |-> next(plan, n)]
  <2> HIDE DEF next
  <2> QED BY <1>1
<1> HIDE DEF plan
<1>4. plan[0] = NoRows
  <2>1. 0 \in 0 .. Len(pieces) /\ next(plan, 0) = NoRows
    OBVIOUS
  <2> HIDE DEF next
  <2> QED BY <1>3, <2>1
<1>5. ASSUME NEW n \in 1 .. Len(pieces) PROVE plan[n] = Place(plan[n - 1], pieces[n])
  <2>1. n \in 0 .. Len(pieces) /\ n # 0
    OBVIOUS
  <2>2. next(plan, n) = Place(plan[n - 1], pieces[n])
    BY <2>1
  <2> HIDE DEF next
  <2> QED BY <1>3, <2>1, <2>2
<1>6. Planned(plan, pieces)
  BY <1>4, <1>5 DEF Planned
<1> QED BY <1>2, <1>6

LEMMA ScannedRowsAre ==
  ASSUME NEW pieces, Len(pieces) \in Nat
  PROVE  \E f : Scanned(f, pieces) /\ ScannedRows(pieces) = f[Len(pieces)]
<1> DEFINE next(f, n) == IF n = 0 THEN <<>> ELSE PlaceByScan(f[n - 1], pieces[n])
           scan == CHOOSE f : f = [n \in 0 .. Len(pieces) |-> next(f, n)]
<1>1. \E f : f = [n \in 0 .. Len(pieces) |-> next(f, n)]
  <2>1. PICK f : /\ f = [n \in 0 .. Len(pieces) |-> f[n]] /\ f[0] = <<>>
                 /\ \A n \in 1 .. Len(pieces) : f[n] = PlaceByScan(f[n - 1], pieces[n])
    BY ScansExist
  <2>2. \A n \in 0 .. Len(pieces) : f[n] = next(f, n)
    <3> TAKE n \in 0 .. Len(pieces)
    <3>1. CASE n = 0
      BY <2>1, <3>1
    <3>2. CASE n # 0
      <4>1. n \in 1 .. Len(pieces)
        BY <3>2
      <4> QED BY <2>1, <3>2, <4>1
    <3> QED BY <3>1, <3>2
  <2> HIDE DEF next
  <2>3. f = [n \in 0 .. Len(pieces) |-> next(f, n)]
    BY <2>1, <2>2
  <2> QED BY <2>3
<1>2. ScannedRows(pieces) = scan[Len(pieces)]
  BY DEF ScannedRows
<1>3. scan = [n \in 0 .. Len(pieces) |-> next(scan, n)]
  <2> HIDE DEF next
  <2> QED BY <1>1
<1> HIDE DEF scan
<1>4. scan[0] = <<>>
  <2>1. 0 \in 0 .. Len(pieces) /\ next(scan, 0) = <<>>
    OBVIOUS
  <2> HIDE DEF next
  <2> QED BY <1>3, <2>1
<1>5. ASSUME NEW n \in 1 .. Len(pieces) PROVE scan[n] = PlaceByScan(scan[n - 1], pieces[n])
  <2>1. n \in 0 .. Len(pieces) /\ n # 0
    OBVIOUS
  <2>2. next(scan, n) = PlaceByScan(scan[n - 1], pieces[n])
    BY <2>1
  <2> HIDE DEF next
  <2> QED BY <1>3, <2>1, <2>2
<1>6. Scanned(scan, pieces)
  BY <1>4, <1>5 DEF Scanned
<1> QED BY <1>2, <1>6

LEMMA NoRowsIsPlan == PlanOK(NoRows) /\ NoRows.rows = <<>>
<1> DEFINE none == <<>>
           waiting == [c \in 0 .. RowTokens |-> {}]
<1>1. Len(none) = 0 /\ DOMAIN none = 1 .. Len(none) /\ DOMAIN none = {}
  OBVIOUS
<1> HIDE DEF none
<1>2. NoRows = [rows |-> none, waiting |-> waiting, open |-> {}]
  BY DEF NoRows, none
<1>3. /\ waiting = [c \in 0 .. RowTokens |-> waiting[c]]
      /\ \A c \in 1 .. RowTokens : waiting[c] = {}
  <2>1. \A c \in 1 .. RowTokens : c \in 0 .. RowTokens
    OBVIOUS
  <2> QED BY <2>1
<1> HIDE DEF waiting
<1>4. NoRows.rows = none /\ NoRows.waiting = waiting /\ NoRows.open = {}
  BY <1>2
<1>5. AreRows(none)
  BY <1>1 DEF AreRows
<1>6. IndexOK(NoRows)
  BY <1>1, <1>2, <1>3, <1>4 DEF IndexOK
<1> QED BY <1>4, <1>5, <1>6 DEF PlanOK, none

LEMMA ScanAddsRow ==
  ASSUME NEW rows, AreRows(rows), NEW piece
  PROVE  Len(PlaceByScan(rows, piece)) # 0
<1> DEFINE fits == {r \in DOMAIN rows : Remaining(rows[r], piece) >= 0}
           best == {r \in fits : \A s \in fits :
                      Remaining(rows[r], piece) <= Remaining(rows[s], piece)}
           single == <<piece>>
           next == [rows EXCEPT ![Least(best)] = Append(@, piece)]
<1>1. Len(rows) \in Nat /\ DOMAIN rows = 1 .. Len(rows)
  BY DEF AreRows
<1>2. CASE piece.continues \/ fits = {}
  <2>1. PlaceByScan(rows, piece) = Append(rows, single)
    BY <1>2 DEF PlaceByScan
  <2> HIDE DEF single
  <2>2. Len(Append(rows, single)) = Len(rows) + 1
    BY <1>1
  <2> QED BY <1>1, <2>1, <2>2
<1>3. CASE ~(piece.continues \/ fits = {})
  <2>1. PlaceByScan(rows, piece) = next
    BY <1>3 DEF PlaceByScan
  <2>2. DOMAIN next = DOMAIN rows
    OBVIOUS
  <2> HIDE DEF next
  <2>3. Len(next) = Len(rows)
    BY <1>1, <2>2
  <2>4. Len(rows) # 0
    BY <1>1, <1>3
  <2> QED BY <2>1, <2>3, <2>4
<1> QED BY <1>2, <1>3

\* The rows planned through the index of capacities are the rows of the
\* planner that looks at every row.
THEOREM IndexIsBestFit ==
  ASSUME NEW pieces, ArePieces(pieces)
  PROVE  /\ PlannedRows(pieces) = ScannedRows(pieces) /\ AreRows(PlannedRows(pieces))
         /\ Len(pieces) # 0 => Len(PlannedRows(pieces)) # 0
<1>1. Len(pieces) \in Nat /\ \A n \in 1 .. Len(pieces) : IsPiece(pieces[n])
  BY DEF ArePieces
<1>2. PICK f : Planned(f, pieces) /\ PlannedRows(pieces) = f[Len(pieces)].rows
  BY <1>1, PlannedRowsAre
<1>3. PICK g : Scanned(g, pieces) /\ ScannedRows(pieces) = g[Len(pieces)]
  BY <1>1, ScannedRowsAre
<1> DEFINE T == {n \in Nat : n <= Len(pieces) => PlanOK(f[n]) /\ f[n].rows = g[n]}
<1>4. 0 \in T
  BY <1>2, <1>3, NoRowsIsPlan DEF Planned, Scanned
<1>5. ASSUME NEW n \in Nat, n \in T PROVE n + 1 \in T
  <2> SUFFICES ASSUME n + 1 <= Len(pieces)
               PROVE  PlanOK(f[n + 1]) /\ f[n + 1].rows = g[n + 1]
    OBVIOUS
  <2>1. n + 1 \in 1 .. Len(pieces) /\ (n + 1) - 1 = n /\ n <= Len(pieces)
    BY <1>1
  <2>2. f[n + 1] = Place(f[n], pieces[n + 1]) /\ g[n + 1] = PlaceByScan(g[n], pieces[n + 1])
    BY <1>2, <1>3, <2>1 DEF Planned, Scanned
  <2>3. PlanOK(f[n]) /\ f[n].rows = g[n] /\ IsPiece(pieces[n + 1])
    BY <1>1, <1>5, <2>1
  <2> QED BY <2>2, <2>3, PlaceKeeps
<1> HIDE DEF T
<1>6. Nat \subseteq T
  BY <1>4, <1>5, NaturalsAreInductive
<1>7. PlanOK(f[Len(pieces)]) /\ f[Len(pieces)].rows = g[Len(pieces)]
  BY <1>1, <1>6 DEF T
<1>8. ASSUME Len(pieces) # 0 PROVE Len(g[Len(pieces)]) # 0
  <2> DEFINE last == Len(pieces) - 1
  <2>1. last \in Nat /\ last <= Len(pieces) /\ Len(pieces) \in 1 .. Len(pieces)
    BY <1>1, <1>8
  <2>2. g[Len(pieces)] = PlaceByScan(g[last], pieces[Len(pieces)])
    BY <1>3, <2>1 DEF Scanned
  <2>3. AreRows(g[last])
    BY <1>6, <2>1 DEF T, PlanOK
  <2> HIDE DEF last
  <2> QED BY <2>2, <2>3, ScanAddsRow
<1> QED BY <1>2, <1>3, <1>7, <1>8 DEF PlanOK

-----------------------------------------------------------------------------
LEMMA QuotientFits ==
  ASSUME NEW D \in Nat, NEW S \in Nat \ {0}, NEW m \in Nat
  PROVE  (D \div S) \in Nat /\ (m <= D \div S => m * S \in Nat /\ m * S <= D)
<1>1. (D \div S) \in Nat /\ (D \div S) * S <= D
  OBVIOUS
<1>2. \A q \in Nat : m <= q => m * S <= q * S /\ m * S \in Nat /\ q * S \in Nat
  OBVIOUS
<1> QED BY <1>1, <1>2

\* The documents of an order: every document once.
AreDocuments(order) ==
  /\ docs \in Seq(Nat)
  /\ Len(order) \in Nat \ {0} /\ DOMAIN order = 1 .. Len(order)
  /\ \A i \in 1 .. Len(order) : order[i] \in DOMAIN docs
  /\ \A d \in DOMAIN docs : \E i \in 1 .. Len(order) : order[i] = d
  /\ \A i, j \in 1 .. Len(order) : order[i] = order[j] => i = j

Pieces == [doc : DOMAIN docs, start : Nat, count : 0 .. SeqLen,
           continues : BOOLEAN, ends : BOOLEAN]

\* A document is cut into so many pieces; the k-th is this.
Cuts(d) == IF docs[d] = 0 THEN 1 ELSE (docs[d] - 1) \div SeqLen + 1
Cut(d, k) == Piece(d, (k - 1) * SeqLen)

LEMMA CutIs ==
  ASSUME docs \in Seq(Nat), NEW d \in DOMAIN docs, NEW k \in 1 .. Cuts(d)
  PROVE  /\ docs[d] \in Nat /\ Cuts(d) \in Nat /\ Cut(d, k) \in Pieces
         /\ Cut(d, k).doc = d /\ Cut(d, k).start = (k - 1) * SeqLen
         /\ Cut(d, k).start <= docs[d] /\ (Cut(d, k).start = docs[d] => docs[d] = 0)
         /\ Cut(d, k).count = AtMost(docs[d] - Cut(d, k).start, SeqLen)
         /\ Cut(d, k).continues = (Cut(d, k).start > 0)
         /\ Cut(d, k).ends = (Cut(d, k).start + Cut(d, k).count = docs[d])
<1> DEFINE start == (k - 1) * SeqLen
           D == docs[d] - 1
<1>1. docs[d] \in Nat /\ SeqLen \in Nat \ {0}
  OBVIOUS
<1>2. Cuts(d) \in Nat /\ start \in Nat /\ start <= docs[d] /\ (start = docs[d] => docs[d] = 0)
  <2>1. CASE docs[d] = 0
    <3>1. k - 1 = 0 /\ Cuts(d) = 1
      BY <1>1, <2>1 DEF Cuts
    <3> QED BY <1>1, <2>1, <3>1
  <2>2. CASE docs[d] # 0
    <3>1. D \in Nat /\ docs[d] = D + 1 /\ Cuts(d) = (D \div SeqLen) + 1
      BY SMTT(30), <1>1, <2>2 DEF Cuts
    <3> HIDE DEF D
    <3>2. (D \div SeqLen) \in Nat
      <4>1. 0 \in Nat
        OBVIOUS
      <4> QED BY <1>1, <3>1, <4>1, QuotientFits
    <3>3. k - 1 \in Nat /\ k - 1 <= D \div SeqLen
      BY <3>1, <3>2
    <3>4. start \in Nat /\ start <= D
      BY <1>1, <3>1, <3>3, QuotientFits
    <3> QED BY SMTT(30), <3>1, <3>2, <3>4
  <2> QED BY <2>1, <2>2
<1> HIDE DEF start
<1>3. AtMost(docs[d] - start, SeqLen) \in 0 .. SeqLen
  BY <1>1, <1>2 DEF AtMost
<1>4. Cut(d, k) = Piece(d, start)
  BY DEF Cut, start
<1>5. /\ Cut(d, k) \in Pieces
      /\ Cut(d, k).doc = d /\ Cut(d, k).start = start
      /\ Cut(d, k).count = AtMost(docs[d] - start, SeqLen)
      /\ Cut(d, k).continues = (start > 0)
      /\ Cut(d, k).ends = (start + Cut(d, k).count = docs[d])
  BY <1>1, <1>2, <1>3, <1>4 DEF Piece, Pieces
<1> QED BY <1>1, <1>2, <1>5 DEF start

LEMMA DocumentPiecesAre ==
  ASSUME docs \in Seq(Nat), NEW d \in DOMAIN docs
  PROVE  /\ DocumentPieces(d) \in Seq(Pieces)
         /\ Len(DocumentPieces(d)) = Cuts(d) /\ Cuts(d) \in Nat \ {0}
         /\ \A k \in 1 .. Cuts(d) : DocumentPieces(d)[k] = Cut(d, k)
<1> DEFINE last == IF docs[d] = 0 THEN 0 ELSE (docs[d] - 1) \div SeqLen
           cut(k) == Cut(d, k)
<1>1. DocumentPieces(d) = [k \in 1 .. Cuts(d) |-> cut(k)]
  <2>1. DocumentPieces(d) = [k \in 1 .. last + 1 |-> cut(k)]
    BY DEF DocumentPieces, Cut
  <2>2. last + 1 = Cuts(d)
    BY DEF Cuts
  <2> HIDE DEF last, cut
  <2> QED BY <2>1, <2>2
<1>2. Cuts(d) \in Nat \ {0}
  <2>1. CASE docs[d] = 0
    BY <2>1 DEF Cuts
  <2>2. CASE docs[d] # 0
    <3> DEFINE D == docs[d] - 1
    <3>1. D \in Nat /\ 0 \in Nat /\ SeqLen \in Nat \ {0}
      BY <2>2
    <3> HIDE DEF D
    <3>2. (D \div SeqLen) \in Nat
      BY <3>1, QuotientFits
    <3>3. Cuts(d) = (D \div SeqLen) + 1
      BY <2>2 DEF Cuts, D
    <3> QED BY <3>2, <3>3
  <2> QED BY <2>1, <2>2
<1>3. \A k \in 1 .. Cuts(d) : cut(k) \in Pieces
  BY CutIs
<1> HIDE DEF cut
<1>4. /\ [k \in 1 .. Cuts(d) |-> cut(k)] \in Seq(Pieces)
      /\ Len([k \in 1 .. Cuts(d) |-> cut(k)]) = Cuts(d)
      /\ \A k \in 1 .. Cuts(d) : [j \in 1 .. Cuts(d) |-> cut(j)][k] = cut(k)
  BY <1>2, <1>3
<1> QED BY <1>1, <1>2, <1>4 DEF cut

\* What planning is given: every piece of every document, once.
LEMMA OrderedPiecesAre ==
  ASSUME NEW order, AreDocuments(order)
  PROVE  LET pieces == PiecesInOrder(order) IN
         /\ ArePieces(pieces) /\ Len(pieces) # 0
         /\ \A n \in 1 .. Len(pieces) :
              \E d \in DOMAIN docs : \E k \in 1 .. Cuts(d) : pieces[n] = Cut(d, k)
         /\ \A d \in DOMAIN docs : \A k \in 1 .. Cuts(d) :
              \E n \in 1 .. Len(pieces) : pieces[n] = Cut(d, k)
         /\ \A n, m \in 1 .. Len(pieces) : pieces[n] = pieces[m] => n = m
<1> DEFINE seqs == [i \in DOMAIN order |-> DocumentPieces(order[i])]
           pieces == PiecesInOrder(order)
<1>1. /\ docs \in Seq(Nat) /\ Len(seqs) \in Nat \ {0} /\ DOMAIN seqs = 1 .. Len(seqs)
      /\ Len(seqs) = Len(order) /\ DOMAIN order = 1 .. Len(order)
  BY DEF AreDocuments
<1>2. \A i \in 1 .. Len(seqs) :
        /\ order[i] \in DOMAIN docs /\ seqs[i] \in Seq(Pieces)
        /\ Len(seqs[i]) = Cuts(order[i]) /\ Cuts(order[i]) \in Nat \ {0}
        /\ \A k \in 1 .. Cuts(order[i]) : seqs[i][k] = Cut(order[i], k)
  <2> TAKE i \in 1 .. Len(seqs)
  <2>1. order[i] \in DOMAIN docs /\ seqs[i] = DocumentPieces(order[i])
    BY <1>1 DEF AreDocuments
  <2> QED BY <1>1, <2>1, DocumentPiecesAre
<1> HIDE DEF seqs
<1>3. \A i \in 1 .. Len(seqs) : Len(seqs[i]) \in Nat
  BY <1>2
<1>4. PICK b : Begins(b, seqs)
  BY <1>1, BeginsExist
<1>5. pieces = FlattenSeq(seqs)
  BY DEF PiecesInOrder, seqs
<1> HIDE DEF pieces
<1>6. Len(pieces) \in Nat /\ Len(pieces) # 0 /\ \A n \in 1 .. Len(pieces) : pieces[n] \in Pieces
  <2>1. \A i \in 1 .. Len(seqs) : seqs[i] \in Seq(Pieces)
    BY <1>2
  <2>2. Len(seqs) \in 1 .. Len(seqs) /\ Len(seqs) # 0 /\ Len(seqs) \in Nat
    BY <1>1
  <2>3. Len(seqs[Len(seqs)]) # 0
    BY <1>2, <2>2
  <2> QED BY <1>1, <1>5, <2>1, <2>2, <2>3, FlattenIsSeq
<1>7. /\ Len(pieces) = b[Len(seqs) + 1]
      /\ \A i \in 1 .. Len(seqs) : \A k \in 1 .. Len(seqs[i]) :
           b[i] + k \in 1 .. Len(pieces) /\ pieces[b[i] + k] = seqs[i][k]
  <2>1. \A i \in 1 .. Len(seqs) : seqs[i] \in Seq(Pieces)
    BY <1>2
  <2>2. Len(seqs) \in Nat
    BY <1>1
  <2>3. Begins(b, seqs) /\ DOMAIN seqs = 1 .. Len(seqs)
    BY <1>1, <1>4
  <2>4. IsJoin(FlattenSeq(seqs), seqs, b)
    BY <2>1, <2>2, <2>3, FlattenIs
  <2> QED BY <1>5, <2>4 DEF IsJoin
<1>8. \A n \in 1 .. Len(pieces) : \E i \in 1 .. Len(seqs) :
        n - b[i] \in 1 .. Cuts(order[i]) /\ pieces[n] = Cut(order[i], n - b[i])
  <2> TAKE n \in 1 .. Len(pieces)
  <2>1. PICK i \in 1 .. Len(seqs) : n - b[i] \in 1 .. Len(seqs[i])
    BY <1>1, <1>3, <1>4, <1>7, BeginsCover
  <2>2. b[i] \in Nat
    <3>1. i \in 1 .. Len(seqs) + 1 /\ Len(seqs) \in Nat
      BY <1>1
    <3> QED BY <3>1, <1>1, <1>3, <1>4, BeginsGrow
  <2>3. b[i] + (n - b[i]) = n
    BY <2>2
  <2>4. pieces[n] = seqs[i][n - b[i]]
    BY <1>7, <2>1, <2>3
  <2>5. seqs[i][n - b[i]] = Cut(order[i], n - b[i]) /\ n - b[i] \in 1 .. Cuts(order[i])
    BY <1>2, <2>1
  <2> QED BY <2>4, <2>5
<1>9. \A n \in 1 .. Len(pieces) :
        \E d \in DOMAIN docs : \E k \in 1 .. Cuts(d) : pieces[n] = Cut(d, k)
  <2> TAKE n \in 1 .. Len(pieces)
  <2>1. PICK i \in 1 .. Len(seqs) :
          n - b[i] \in 1 .. Cuts(order[i]) /\ pieces[n] = Cut(order[i], n - b[i])
    BY <1>8
  <2>2. order[i] \in DOMAIN docs
    BY <1>2
  <2> QED BY <2>1, <2>2
<1>10. ASSUME NEW d \in DOMAIN docs, NEW k \in 1 .. Cuts(d)
       PROVE  \E n \in 1 .. Len(pieces) : pieces[n] = Cut(d, k)
  <2>1. PICK i \in 1 .. Len(seqs) : order[i] = d
    BY <1>1 DEF AreDocuments
  <2>2. k \in 1 .. Len(seqs[i]) /\ seqs[i][k] = Cut(d, k)
    BY <1>2, <2>1
  <2> QED BY SMTT(30), <1>7, <2>2
<1>11. ASSUME NEW n \in 1 .. Len(pieces), NEW m \in 1 .. Len(pieces), pieces[n] = pieces[m]
       PROVE  n = m
  <2>1. PICK i \in 1 .. Len(seqs) :
          n - b[i] \in 1 .. Cuts(order[i]) /\ pieces[n] = Cut(order[i], n - b[i])
    BY <1>8
  <2>2. PICK j \in 1 .. Len(seqs) :
          m - b[j] \in 1 .. Cuts(order[j]) /\ pieces[m] = Cut(order[j], m - b[j])
    BY <1>8
  <2>3. /\ pieces[n].doc = order[i] /\ pieces[n].start = ((n - b[i]) - 1) * SeqLen
        /\ pieces[m].doc = order[j] /\ pieces[m].start = ((m - b[j]) - 1) * SeqLen
    <3> DEFINE x == n - b[i]
               y == m - b[j]
    <3>1. /\ order[i] \in DOMAIN docs /\ order[j] \in DOMAIN docs /\ docs \in Seq(Nat)
          /\ x \in 1 .. Cuts(order[i]) /\ y \in 1 .. Cuts(order[j])
          /\ pieces[n] = Cut(order[i], x) /\ pieces[m] = Cut(order[j], y)
      BY <1>1, <1>2, <2>1, <2>2
    <3> HIDE DEF x, y
    <3>2. /\ Cut(order[i], x).doc = order[i] /\ Cut(order[i], x).start = (x - 1) * SeqLen
          /\ Cut(order[j], y).doc = order[j] /\ Cut(order[j], y).start = (y - 1) * SeqLen
      BY DEF Cut, Piece
    <3> QED BY <3>1, <3>2 DEF x, y
  <2>4. order[i] = order[j] /\ ((n - b[i]) - 1) * SeqLen = ((m - b[j]) - 1) * SeqLen
    BY <1>11, <2>3
  <2>5. i = j
    BY <1>1, <2>4 DEF AreDocuments
  <2>6. b[i] \in Nat
    <3>1. i \in 1 .. Len(seqs) + 1 /\ Len(seqs) \in Nat
      BY <1>1
    <3> QED BY <3>1, <1>1, <1>3, <1>4, BeginsGrow
  <2> DEFINE x == (n - b[i]) - 1
             y == (m - b[i]) - 1
  <2>7. x \in Int /\ y \in Int /\ SeqLen \in Nat \ {0} /\ x * SeqLen = y * SeqLen
    BY SMTT(30), <2>4, <2>5, <2>6
  <2>8. x = y
    <3> HIDE DEF x, y
    <3> QED BY <2>7
  <2> QED BY SMTT(30), <2>6, <2>8
<1>12. ArePieces(pieces)
  <2>1. \A piece \in Pieces : IsPiece(piece)
    BY DEF Pieces, IsPiece
  <2> QED BY <1>6, <2>1 DEF ArePieces
<1> QED BY <1>6, <1>9, <1>10, <1>11, <1>12 DEF pieces


\* The rows of an epoch are the planned ones and empty ones after them.
LEMMA EpochIsPlanned ==
  ASSUME NEW seed, AreDocuments(orders[seed])
  PROVE  LET rows == BuildEpoch(seed)
             scanned == ScannedRows(PiecesInOrder(orders[seed]))
         IN  /\ Len(rows) \in Nat /\ Len(scanned) \in Nat
             /\ SubSeq(rows, 1, Len(scanned)) = scanned
             /\ \A r \in Len(scanned) + 1 .. Len(rows) : rows[r] = <<>>
<1> DEFINE pieces == PiecesInOrder(orders[seed])
           planned == PlannedRows(pieces)
           size == (BatchSize - (Len(planned) % BatchSize)) % BatchSize
           padding == [i \in 1 .. size |-> <<>>]
           rows == planned \o padding
<1>1. planned = ScannedRows(pieces) /\ AreRows(planned)
  BY OrderedPiecesAre, IndexIsBestFit
<1>2. rows = BuildEpoch(seed)
  BY DEF BuildEpoch
<1> HIDE DEF pieces
<1>3. Len(planned) \in Nat /\ planned = [r \in 1 .. Len(planned) |-> planned[r]]
  BY <1>1 DEF AreRows
<1>4. size \in Nat
  <2> HIDE DEF planned
  <2>1. BatchSize \in Nat \ {0}
    OBVIOUS
  <2>2. BatchSize - (Len(planned) % BatchSize) \in Int
    BY <1>3, <2>1
  <2> QED BY <2>1, <2>2
<1> HIDE DEF planned, size
<1>5. Len(padding) = size /\ \A i \in 1 .. size : padding[i] = <<>>
  BY <1>4
<1> HIDE DEF padding
<1>6. /\ Len(rows) = Len(planned) + size
      /\ \A r \in 1 .. Len(rows) :
           rows[r] = IF r <= Len(planned) THEN planned[r] ELSE padding[r - Len(planned)]
  BY <1>3, <1>4, <1>5
<1> HIDE DEF rows
<1>7. SubSeq(rows, 1, Len(planned)) = planned
  <2>1. SubSeq(rows, 1, Len(planned)) = [r \in 1 .. Len(planned) |-> rows[r]]
    BY <1>3, <1>4, <1>6
  <2>2. \A r \in 1 .. Len(planned) : rows[r] = planned[r]
    BY <1>3, <1>4, <1>6
  <2>3. [r \in 1 .. Len(planned) |-> rows[r]] = [r \in 1 .. Len(planned) |-> planned[r]]
    BY <2>2
  <2> QED BY <1>3, <2>1, <2>3
<1>8. ASSUME NEW r \in Len(planned) + 1 .. Len(rows) PROVE rows[r] = <<>>
  <2>1. r \in 1 .. Len(rows) /\ ~(r <= Len(planned)) /\ r - Len(planned) \in 1 .. size
    BY <1>3, <1>4, <1>6
  <2> QED BY <1>5, <1>6, <2>1
<1>9. Len(rows) \in Nat
  BY <1>3, <1>4, <1>6
<1> QED BY <1>1, <1>2, <1>3, <1>7, <1>8, <1>9 DEF pieces

-----------------------------------------------------------------------------
(***************************************************************************)
(* The inductive invariant: the relations of ResumesExactly hold of the    *)
(* loader and of every state saved from it, which is what a restore needs; *)
(* rows are delivered in whole batches, so an epoch ends where the next    *)
(* one is built.                                                           *)
(***************************************************************************)
EpochsBefore(epoch) == Total([e \in 1 .. epoch |-> Len(BuildEpoch(e))])

Placed(s) ==
  IF s.strategy = "flat" THEN s.position = s.draws * BatchSize
  ELSE /\ s.seed \in 1 .. MaxEpochs /\ s.draws = s.seed /\ s.epoch = s.seed - 1
       /\ s.row \in 0 .. Len(BuildEpoch(s.seed)) /\ s.row % BatchSize = 0
       /\ s.position = s.row + EpochsBefore(s.epoch)

CorpusOK == \A e \in 1 .. MaxEpochs : AreDocuments(orders[e])

LoaderOK ==
  /\ loader \in [strategy : {"flat", "packed"}, position : Nat, draws : Nat, epoch : Int,
                 seed : Nat, row : Nat, rows : {loader.rows}]
  /\ Placed(loader)
  /\ loader.rows = IF loader.strategy = "flat" THEN <<>> ELSE BuildEpoch(loader.seed)
  /\ loader.strategy = "flat" => loader.row = 0

StoredOK ==
  /\ stored.dataset \in {"none", "this", "other"}
  /\ stored.dataset = "this" =>
       /\ stored.strategy \in {"flat", "packed"}
       /\ stored.position \in Nat /\ stored.draws \in Nat /\ stored.epoch \in Int
       /\ stored.seed \in Nat /\ stored.row \in Nat
       /\ stored.strategy = "flat" => stored.row = 0
       /\ Placed(stored)

LoaderInv == CorpusOK /\ LoaderOK /\ StoredOK

-----------------------------------------------------------------------------
\* Whole batches.
LEMMA BatchesOf ==
  ASSUME NEW B \in Nat \ {0}, NEW n \in Nat
  PROVE  LET padding == (B - (n % B)) % B IN padding \in Nat /\ (n + padding) % B = 0
<1> DEFINE q == n \div B
           r == n % B
<1>1. q \in Nat /\ r \in 0 .. B - 1 /\ n = B * q + r
  OBVIOUS
<1> HIDE DEF q, r
<1>2. CASE r = 0
  <2>1. (B - r) % B = 0
    BY <1>2
  <2>2. n % B = 0
    BY <1>2 DEF r
  <2> QED BY <2>1, <2>2 DEF r
<1>3. CASE r # 0
  <2>1. B - r \in 1 .. B - 1
    BY <1>1, <1>3
  <2>2. (B - r) % B = B - r
    BY <2>1
  <2>3. n + (B - r) = B * (q + 1) /\ q + 1 \in Nat
    BY <1>1
  <2>4. \A k \in Nat : (B * k) % B = 0
    OBVIOUS
  <2>5. (n + (B - r)) % B = 0
    BY <2>3, <2>4
  <2> QED BY <2>1, <2>2, <2>5 DEF r
<1> QED BY <1>2, <1>3

LEMMA NextBatch ==
  ASSUME NEW B \in Nat \ {0}, NEW row \in Nat, NEW n \in Nat,
         row % B = 0, n % B = 0, row < n
  PROVE  row + B <= n /\ (row + B) % B = 0
<1> DEFINE i == row \div B
           j == n \div B
<1>1. i \in Nat /\ j \in Nat /\ row = B * i /\ n = B * j
  OBVIOUS
<1> HIDE DEF i, j
<1>2. i + 1 <= j
  <2> SUFFICES ASSUME j <= i PROVE FALSE
    BY <1>1
  <2>1. B * j <= B * i
    BY <1>1
  <2> QED BY <1>1, <2>1
<1>3. B * (i + 1) <= B * j /\ B * (i + 1) = B * i + B
  BY <1>1, <1>2
<1>4. \A k \in Nat : (B * k) % B = 0
  OBVIOUS
<1>5. (B * (i + 1)) % B = 0 /\ B * (i + 1) = row + B
  BY <1>1, <1>3, <1>4
<1> QED BY <1>1, <1>3, <1>5

LEMMA EpochIsWhole ==
  ASSUME NEW seed, AreDocuments(orders[seed])
  PROVE  /\ Len(BuildEpoch(seed)) \in Nat /\ Len(BuildEpoch(seed)) % BatchSize = 0
         /\ Len(BuildEpoch(seed)) # 0
<1> DEFINE planned == PlannedRows(PiecesInOrder(orders[seed]))
           size == (BatchSize - (Len(planned) % BatchSize)) % BatchSize
           padding == [i \in 1 .. size |-> <<>>]
<1>1. AreRows(planned) /\ Len(planned) # 0
  BY OrderedPiecesAre, IndexIsBestFit
<1>2. BuildEpoch(seed) = planned \o padding
  BY DEF BuildEpoch
<1> HIDE DEF planned
<1>3. Len(planned) \in Nat
  BY <1>1 DEF AreRows
<1>4. size \in Nat /\ (Len(planned) + size) % BatchSize = 0
  BY <1>3, BatchesOf
<1> HIDE DEF size
<1>5. Len(padding) = size
  BY <1>4
<1> HIDE DEF padding
<1>6. Len(planned \o padding) = Len(planned) + size
  BY <1>3, <1>4, <1>5
<1>7. Len(planned) + size \in Nat /\ Len(planned) + size # 0
  BY <1>1, <1>3, <1>4
<1> QED BY <1>2, <1>4, <1>6, <1>7

\* The rows of one epoch more.
LEMMA EpochsAdd ==
  ASSUME NEW n \in Nat
  PROVE  EpochsBefore(n + 1) = EpochsBefore(n) + Len(BuildEpoch(n + 1))
<1> DEFINE length(e) == Len(BuildEpoch(e))
           s == [e \in 1 .. n |-> length(e)]
           t == [e \in 1 .. n + 1 |-> length(e)]
<1> HIDE DEF length
<1>1. Len(s) = n /\ Len(t) = n + 1 /\ t[n + 1] = length(n + 1)
      /\ \A e \in 1 .. n : t[e] = s[e]
  OBVIOUS
<1> HIDE DEF s, t
<1>2. Total(t) = Total(s) + t[Len(t)]
  BY <1>1, TotalGrows
<1>3. EpochsBefore(n) = Total(s) /\ EpochsBefore(n + 1) = Total(t)
  BY DEF EpochsBefore, s, t, length
<1> QED BY <1>1, <1>2, <1>3 DEF length

LEMMA NoEpochsBefore == EpochsBefore(0) = 0
<1> DEFINE s == [e \in 1 .. 0 |-> Len(BuildEpoch(e))]
<1>1. Len(s) = 0
  OBVIOUS
<1> HIDE DEF s
<1>2. Total(s) = 0
  BY <1>1, TotalOfNone
<1> QED BY <1>2 DEF s, EpochsBefore

LEMMA EpochsAreNat ==
  ASSUME CorpusOK, NEW n \in 0 .. MaxEpochs PROVE EpochsBefore(n) \in Nat
<1> DEFINE length(e) == Len(BuildEpoch(e))
           s == [e \in 1 .. n |-> length(e)]
<1>1. \A e \in 1 .. n : length(e) \in Nat
  <2> TAKE e \in 1 .. n
  <2>1. AreDocuments(orders[e])
    BY DEF CorpusOK
  <2> QED BY <2>1, EpochIsWhole
<1> HIDE DEF length
<1>2. Len(s) = n /\ \A e \in 1 .. n : s[e] \in Nat
  BY <1>1
<1> HIDE DEF s
<1>3. Total(s) \in Nat
  BY <1>2, TotalIsNat
<1> QED BY <1>3 DEF EpochsBefore, s, length

-----------------------------------------------------------------------------
\* A loader, made of its parts.
LoaderParts(strategy, position, draws, epoch, seed, row, rows) ==
  [strategy |-> strategy, position |-> position, draws |-> draws, epoch |-> epoch,
   seed |-> seed, row |-> row, rows |-> rows]

LEMMA EpochStarts ==
  ASSUME NEW l, NEW position, NEW seed \in Nat, NEW row, NEW rows,
         l = LoaderParts("packed", position, seed, seed - 1, seed, row, rows)
  PROVE  StartedEpoch(l) = LoaderParts("packed", position, seed + 1, seed, seed + 1, 0,
                                       BuildEpoch(seed + 1))
<1> DEFINE build == BuildEpoch(seed + 1)
<1>1. l.draws = seed /\ l.epoch + 1 = seed
  BY DEF LoaderParts
<1>2. StartedEpoch(l) = [l EXCEPT !.draws = seed + 1, !.seed = seed + 1, !.row = 0,
                                  !.epoch = seed, !.rows = build]
  BY <1>1 DEF StartedEpoch, LoaderParts
<1> HIDE DEF build
<1>3. StartedEpoch(l) \in [strategy : {"packed"}, position : {position}, draws : {seed + 1},
                           epoch : {seed}, seed : {seed + 1}, row : {0}, rows : {build}]
  BY <1>2 DEF LoaderParts
<1> QED BY <1>3 DEF LoaderParts, build

\* What is built does not change while the documents and their orders do not.
LEMMA EpochsStay ==
  ASSUME UNCHANGED <<docs, orders>>
  PROVE  /\ \A e : BuildEpoch(e)' = BuildEpoch(e)
         /\ BuildEpoch(loader.seed)' = BuildEpoch(loader.seed')
         /\ EpochsBefore(loader.epoch)' = EpochsBefore(loader.epoch')
         /\ BuildEpoch(stored.seed)' = BuildEpoch(stored.seed')
         /\ EpochsBefore(stored.epoch)' = EpochsBefore(stored.epoch')
         /\ CorpusOK' = CorpusOK
<1>1. docs' = docs /\ orders' = orders
  OBVIOUS
<1>2. \A d, start : Piece(d, start)' = Piece(d, start)
  BY <1>1 DEF Piece
<1>3. \A d : DocumentPieces(d)' = DocumentPieces(d)
  BY <1>1, <1>2 DEF DocumentPieces
<1>4. \A order : PiecesInOrder(order)' = PiecesInOrder(order)
  BY <1>3 DEF PiecesInOrder
<1>5. \A e : BuildEpoch(e)' = BuildEpoch(e)
  BY <1>1, <1>4 DEF BuildEpoch
<1>6. BuildEpoch(loader.seed)' = BuildEpoch(loader.seed')
  BY <1>1, <1>4 DEF BuildEpoch
<1>7. EpochsBefore(loader.epoch)' = EpochsBefore(loader.epoch')
  BY <1>5 DEF EpochsBefore
<1>8. CorpusOK' = CorpusOK
  BY <1>1 DEF CorpusOK, AreDocuments
<1>9. BuildEpoch(stored.seed)' = BuildEpoch(stored.seed')
  BY <1>1, <1>4 DEF BuildEpoch
<1>10. EpochsBefore(stored.epoch)' = EpochsBefore(stored.epoch')
  BY <1>5 DEF EpochsBefore
<1> QED BY <1>5, <1>6, <1>7, <1>8, <1>9, <1>10

\* The loader is as the invariant says when it is made of parts that are.
LEMMA PackedIsOK ==
  ASSUME CorpusOK, NEW position, NEW seed \in 1 .. MaxEpochs, NEW row \in Nat,
         row <= Len(BuildEpoch(seed)), row % BatchSize = 0,
         position = row + EpochsBefore(seed - 1),
         loader' = LoaderParts("packed", position, seed, seed - 1, seed, row, BuildEpoch(seed)),
         UNCHANGED <<docs, orders>>
  PROVE  LoaderOK'
<1> DEFINE build == BuildEpoch(seed)
           before == EpochsBefore(seed - 1)
<1>1. MaxEpochs \in Nat /\ seed \in Nat /\ seed - 1 \in 0 .. MaxEpochs
  OBVIOUS
<1>2. before \in Nat
  BY <1>1, EpochsAreNat
<1>3. Len(build) \in Nat
  BY EpochIsWhole DEF CorpusOK
<1>4. /\ loader'.strategy = "packed" /\ loader'.position = position /\ loader'.draws = seed
      /\ loader'.epoch = seed - 1 /\ loader'.seed = seed /\ loader'.row = row
      /\ loader'.rows = build
      /\ loader' \in [strategy : {"packed"}, position : {position}, draws : {seed},
                      epoch : {seed - 1}, seed : {seed}, row : {row}, rows : {build}]
  BY DEF LoaderParts
<1>5. BuildEpoch(loader.seed)' = build
  BY <1>4, EpochsStay
<1>6. EpochsBefore(loader.epoch)' = before
  BY <1>4, EpochsStay
<1> HIDE DEF build, before
<1>7. Placed(loader)'
  <2>1. row \in 0 .. Len(build)
    BY <1>3 DEF build
  <2>2. position = row + before
    BY DEF before
  <2> QED BY <1>1, <1>4, <1>5, <1>6, <2>1, <2>2 DEF Placed
<1>8. loader' \in [strategy : {"flat", "packed"}, position : Nat, draws : Nat, epoch : Int,
                   seed : Nat, row : Nat, rows : {loader'.rows}]
  <2>1. position \in Nat /\ seed - 1 \in Int
    BY <1>1, <1>2 DEF before
  <2> QED BY <1>1, <1>4, <2>1
<1> QED BY <1>4, <1>5, <1>7, <1>8 DEF LoaderOK

LEMMA FlatIsOK ==
  ASSUME NEW draws \in Nat, NEW epoch \in Int, NEW seed \in Nat,
         loader' = LoaderParts("flat", draws * BatchSize, draws, epoch, seed, 0, <<>>)
  PROVE  LoaderOK'
<1> DEFINE none == <<>>
           position == draws * BatchSize
<1>1. position \in Nat
  OBVIOUS
<1> HIDE DEF none, position
<1>2. /\ loader'.strategy = "flat" /\ loader'.position = position /\ loader'.draws = draws
      /\ loader'.row = 0 /\ loader'.rows = none
      /\ loader' \in [strategy : {"flat"}, position : {position}, draws : {draws},
                      epoch : {epoch}, seed : {seed}, row : {0}, rows : {none}]
  BY DEF LoaderParts, none, position
<1>3. Placed(loader)'
  BY <1>2 DEF Placed, position
<1>4. loader' \in [strategy : {"flat", "packed"}, position : Nat, draws : Nat, epoch : Int,
                   seed : Nat, row : Nat, rows : {loader'.rows}]
  BY <1>1, <1>2
<1> QED BY <1>2, <1>3, <1>4 DEF LoaderOK, none

\* A loader that is as the invariant says is made of such parts.
LEMMA PartsOfFlat ==
  ASSUME LoaderOK, loader.strategy = "flat"
  PROVE  /\ loader.draws \in Nat /\ loader.epoch \in Int /\ loader.seed \in Nat
         /\ loader = LoaderParts("flat", loader.draws * BatchSize, loader.draws, loader.epoch,
                                 loader.seed, 0, <<>>)
<1>1. /\ loader \in [strategy : {"flat", "packed"}, position : Nat, draws : Nat, epoch : Int,
                     seed : Nat, row : Nat, rows : {loader.rows}]
      /\ loader.position = loader.draws * BatchSize /\ loader.row = 0 /\ loader.rows = <<>>
  BY DEF LoaderOK, Placed
<1> QED BY <1>1 DEF LoaderParts

LEMMA PartsOfPacked ==
  ASSUME CorpusOK, LoaderOK, loader.strategy = "packed"
  PROVE  /\ loader.seed \in 1 .. MaxEpochs /\ loader.row \in Nat
         /\ Len(BuildEpoch(loader.seed)) \in Nat /\ Len(BuildEpoch(loader.seed)) % BatchSize = 0
         /\ loader.row <= Len(BuildEpoch(loader.seed)) /\ loader.row % BatchSize = 0
         /\ loader.rows = BuildEpoch(loader.seed)
         /\ loader.position = loader.row + EpochsBefore(loader.seed - 1)
         /\ loader.draws = loader.seed
         /\ loader = LoaderParts("packed", loader.position, loader.seed, loader.seed - 1,
                                 loader.seed, loader.row, BuildEpoch(loader.seed))
<1>1. /\ loader \in [strategy : {"flat", "packed"}, position : Nat, draws : Nat, epoch : Int,
                     seed : Nat, row : Nat, rows : {loader.rows}]
      /\ loader.seed \in 1 .. MaxEpochs /\ loader.draws = loader.seed
      /\ loader.epoch = loader.seed - 1
      /\ loader.row \in 0 .. Len(BuildEpoch(loader.seed)) /\ loader.row % BatchSize = 0
      /\ loader.position = loader.row + EpochsBefore(loader.epoch)
      /\ loader.rows = BuildEpoch(loader.seed)
  BY DEF LoaderOK, Placed
<1>2. Len(BuildEpoch(loader.seed)) \in Nat /\ Len(BuildEpoch(loader.seed)) % BatchSize = 0
  BY <1>1, EpochIsWhole DEF CorpusOK
<1>3. loader = LoaderParts("packed", loader.position, loader.seed, loader.seed - 1,
                           loader.seed, loader.row, BuildEpoch(loader.seed))
  BY <1>1 DEF LoaderParts
<1> QED BY <1>1, <1>2, <1>3

LEMMA StoredStays ==
  ASSUME StoredOK, UNCHANGED <<docs, orders, stored>>
  PROVE  StoredOK'
<1>1. /\ BuildEpoch(stored.seed)' = BuildEpoch(stored.seed)
      /\ EpochsBefore(stored.epoch)' = EpochsBefore(stored.epoch)
  BY EpochsStay
<1>2. Placed(stored)' = Placed(stored)
  BY <1>1 DEF Placed
<1> QED BY <1>2 DEF StoredOK

LEMMA OpenedIsOK ==
  ASSUME CorpusOK
  PROVE  /\ Opened("flat") = LoaderParts("flat", 0, 0, -1, 0, 0, <<>>)
         /\ Opened("packed") = LoaderParts("packed", 0, 1, 0, 1, 0, BuildEpoch(1))
<1>1. Opened("flat") = LoaderParts("flat", 0, 0, -1, 0, 0, <<>>)
  BY DEF Opened, Unopened, LoaderParts
<1>2. Unopened("packed") = LoaderParts("packed", 0, 0, 0 - 1, 0, 0, <<>>)
  BY DEF Unopened, LoaderParts
<1>3. Opened("packed") = LoaderParts("packed", 0, 0 + 1, 0, 0 + 1, 0, BuildEpoch(0 + 1))
  <2> DEFINE none == <<>>
             l == Unopened("packed")
  <2>1. Opened("packed") = StartedEpoch(l)
    BY DEF Opened
  <2>2. l = LoaderParts("packed", 0, 0, 0 - 1, 0, 0, none)
    BY <1>2
  <2> HIDE DEF none, l
  <2> QED BY <2>1, <2>2, EpochStarts
<1> QED BY <1>1, <1>3

LEMMA LoaderStarts == LoaderInit => LoaderInv
<1> SUFFICES ASSUME LoaderInit PROVE LoaderInv
  OBVIOUS
<1>1. docs \in Seq(Nat) /\ docs # <<>>
  BY DEF LoaderInit
<1>2. CorpusOK
  <2> SUFFICES ASSUME NEW e \in 1 .. MaxEpochs PROVE AreDocuments(orders[e])
    BY DEF CorpusOK
  <2> DEFINE forth == [i \in DOMAIN docs |-> i]
             back == Reverse(forth)
  <2>1. Len(docs) \in Nat \ {0} /\ DOMAIN docs = 1 .. Len(docs)
    BY <1>1
  <2>2. Len(forth) = Len(docs) /\ DOMAIN forth = 1 .. Len(docs)
        /\ \A i \in 1 .. Len(docs) : forth[i] = i
    BY <2>1
  <2>3. orders[e] \in {back, forth}
    BY DEF LoaderInit
  <2> HIDE DEF forth
  <2>4. Len(back) = Len(docs) /\ DOMAIN back = 1 .. Len(docs)
        /\ \A i \in 1 .. Len(docs) : back[i] = forth[(Len(docs) - i) + 1]
    BY <2>1, <2>2 DEF Reverse
  <2>5. \A i \in 1 .. Len(docs) : /\ (Len(docs) - i) + 1 \in 1 .. Len(docs)
                                    /\ (Len(docs) - ((Len(docs) - i) + 1)) + 1 = i
    BY <2>1
  <2>8. \A i \in 1 .. Len(docs) : back[i] = (Len(docs) - i) + 1
    BY <2>2, <2>4, <2>5
  <2> HIDE DEF back
  <2>6. CASE orders[e] = forth
    BY <1>1, <2>1, <2>2, <2>6 DEF AreDocuments
  <2>7. CASE orders[e] = back
    <3>1. /\ Len(back) = Len(docs) /\ DOMAIN back = 1 .. Len(back)
          /\ \A i \in 1 .. Len(back) : back[i] \in DOMAIN docs
      BY <2>1, <2>4, <2>5, <2>8
    <3>2. \A d \in DOMAIN docs : \E i \in 1 .. Len(back) : back[i] = d
      BY <2>1, <2>4, <2>5, <2>8
    <3>3. \A i, j \in 1 .. Len(back) : back[i] = back[j] => i = j
      BY <2>1, <2>4, <2>8
    <3>4. AreDocuments(back)
      BY <1>1, <2>1, <3>1, <3>2, <3>3 DEF AreDocuments
    <3> QED BY <2>7, <3>4
  <2> QED BY <2>3, <2>6, <2>7
<1>3. LoaderOK
  <2> DEFINE none == <<>>
             build == BuildEpoch(1)
  <2>1. \/ loader = LoaderParts("flat", 0, 0, -1, 0, 0, none)
        \/ loader = LoaderParts("packed", 0, 1, 0, 1, 0, build)
    BY <1>2, OpenedIsOK DEF LoaderInit
  <2>2. Len(BuildEpoch(1)) \in Nat /\ EpochsBefore(0) = 0 /\ 1 \in 1 .. MaxEpochs
    <3>1. 1 \in 1 .. MaxEpochs
      OBVIOUS
    <3> QED BY <1>2, <3>1, EpochIsWhole, NoEpochsBefore DEF CorpusOK
  <2> HIDE DEF none, build
  <2>3. CASE loader = LoaderParts("flat", 0, 0, -1, 0, 0, none)
    <3>1. loader \in [strategy : {"flat"}, position : {0}, draws : {0}, epoch : {-1},
                      seed : {0}, row : {0}, rows : {none}]
      BY <2>3 DEF LoaderParts
    <3>2. Placed(loader)
      BY <3>1 DEF Placed
    <3> QED BY <3>1, <3>2 DEF LoaderOK, none
  <2>4. CASE loader = LoaderParts("packed", 0, 1, 0, 1, 0, build)
    <3>1. loader \in [strategy : {"packed"}, position : {0}, draws : {1}, epoch : {0},
                      seed : {1}, row : {0}, rows : {build}]
      BY <2>4 DEF LoaderParts
    <3>2. 0 % BatchSize = 0
      OBVIOUS
    <3>3. Placed(loader)
      BY <2>2, <3>1, <3>2 DEF Placed
    <3> QED BY <3>1, <3>3 DEF LoaderOK, build
  <2> QED BY <2>1, <2>3, <2>4
<1>4. StoredOK
  BY DEF LoaderInit, NoState, StateOf, StoredOK
<1> QED BY <1>2, <1>3, <1>4 DEF LoaderInv

LEMMA NextFlatBatchKeeps ==
  ASSUME LoaderInv, NextFlatBatch PROVE LoaderInv'
<1>1. UNCHANGED <<docs, orders, stored>> /\ loader.strategy = "flat"
  BY DEF NextFlatBatch
<1>2. CorpusOK' /\ StoredOK'
  BY <1>1, EpochsStay, StoredStays DEF LoaderInv
<1> DEFINE none == <<>>
           draws == loader.draws
<1>3. /\ draws \in Nat /\ loader.epoch \in Int /\ loader.seed \in Nat
      /\ loader = LoaderParts("flat", draws * BatchSize, draws, loader.epoch,
                              loader.seed, 0, none)
  BY <1>1, PartsOfFlat DEF LoaderInv
<1>4. loader' = [loader EXCEPT !.draws = draws + 1, !.position = loader.position + BatchSize]
  BY DEF NextFlatBatch
<1>5. loader.position + BatchSize = (draws + 1) * BatchSize
  <2>1. loader.position = draws * BatchSize
    BY <1>3 DEF LoaderParts
  <2> HIDE DEF draws
  <2> QED BY <1>3, <2>1
<1> HIDE DEF none, draws
<1>6. loader' \in [strategy : {"flat"}, position : {(draws + 1) * BatchSize},
                   draws : {draws + 1}, epoch : {loader.epoch}, seed : {loader.seed},
                   row : {0}, rows : {none}]
  <2> DEFINE position == (draws + 1) * BatchSize
             old == draws * BatchSize
             epoch == loader.epoch
             seed == loader.seed
  <2>1. loader' = [loader EXCEPT !.draws = draws + 1, !.position = position]
    BY <1>4, <1>5
  <2>2. loader = LoaderParts("flat", old, draws, epoch, seed, 0, none)
    BY <1>3
  <2> HIDE DEF position, old, epoch, seed
  <2>3. loader' \in [strategy : {"flat"}, position : {position}, draws : {draws + 1},
                     epoch : {epoch}, seed : {seed}, row : {0}, rows : {none}]
    BY <2>1, <2>2 DEF LoaderParts
  <2> QED BY <2>3 DEF position, epoch, seed
<1>7. loader' = LoaderParts("flat", (draws + 1) * BatchSize, draws + 1, loader.epoch,
                            loader.seed, 0, none)
  BY <1>6 DEF LoaderParts
<1>8. LoaderOK'
  <2> DEFINE next == draws + 1
  <2>1. next \in Nat /\ loader.epoch \in Int /\ loader.seed \in Nat
    BY <1>3
  <2>2. loader' = LoaderParts("flat", next * BatchSize, next, loader.epoch, loader.seed, 0, <<>>)
    BY <1>7 DEF none
  <2> HIDE DEF next
  <2> QED BY <2>1, <2>2, FlatIsOK
<1> QED BY <1>2, <1>8 DEF LoaderInv

LEMMA NextPackedBatchKeeps ==
  ASSUME LoaderInv, NextPackedBatch PROVE LoaderInv'
<1> DEFINE seed == loader.seed
           build == BuildEpoch(seed)
           row == loader.row
           position == loader.position
<1>1. /\ UNCHANGED <<docs, orders, stored>> /\ loader.strategy = "packed"
      /\ row = Len(loader.rows) => loader.draws < MaxEpochs
      /\ LET l == IF row = Len(loader.rows) THEN StartedEpoch(loader) ELSE loader
         IN  loader' = [l EXCEPT !.row = @ + BatchSize, !.position = @ + BatchSize]
  BY DEF NextPackedBatch
<1>2. CorpusOK /\ CorpusOK' /\ StoredOK'
  BY <1>1, EpochsStay, StoredStays DEF LoaderInv
<1>3. /\ seed \in 1 .. MaxEpochs /\ row \in Nat
      /\ Len(build) \in Nat /\ Len(build) % BatchSize = 0
      /\ row <= Len(build) /\ row % BatchSize = 0
      /\ loader.rows = build
      /\ position = row + EpochsBefore(seed - 1)
      /\ loader.draws = seed
      /\ loader = LoaderParts("packed", position, seed, seed - 1, seed, row, build)
  BY <1>1, PartsOfPacked DEF LoaderInv
<1>4. BatchSize \in Nat \ {0} /\ MaxEpochs \in Nat
  OBVIOUS
<1> HIDE DEF seed, row, position
<1>5. CASE row = Len(loader.rows)
  <2> DEFINE next == seed + 1
             new == BuildEpoch(next)
             l == StartedEpoch(loader)
  <2>1. next \in 1 .. MaxEpochs /\ next - 1 = seed /\ seed - 1 \in Nat /\ (seed - 1) + 1 = seed
    <3>1. loader.draws < MaxEpochs /\ loader.draws = seed
      BY <1>1, <1>3, <1>5
    <3> QED BY <1>3, <1>4, <3>1
  <2>2. Len(new) \in Nat /\ Len(new) % BatchSize = 0 /\ Len(new) # 0
    BY <1>2, <2>1, EpochIsWhole DEF CorpusOK
  <2> HIDE DEF build
  <2>3. l = LoaderParts("packed", position, next, seed, next, 0, new)
    BY <1>3, EpochStarts
  <2>4. loader' = [l EXCEPT !.row = @ + BatchSize, !.position = @ + BatchSize]
    BY <1>1, <1>5
  <2> HIDE DEF next, l, new
  <2>5. loader' \in [strategy : {"packed"}, position : {position + BatchSize}, draws : {next},
                     epoch : {seed}, seed : {next}, row : {0 + BatchSize}, rows : {new}]
    BY <2>3, <2>4 DEF LoaderParts
  <2>6. loader' = LoaderParts("packed", position + BatchSize, next, next - 1, next, BatchSize, new)
    BY <1>4, <2>1, <2>5 DEF LoaderParts
  <2>7. BatchSize <= Len(new) /\ BatchSize % BatchSize = 0
    <3>1. 0 % BatchSize = 0 /\ 0 \in Nat /\ 0 < Len(new) /\ 0 + BatchSize = BatchSize
      BY <1>4, <2>2
    <3> QED BY <1>4, <2>2, <3>1, NextBatch
  <2>8. position + BatchSize = BatchSize + EpochsBefore(next - 1)
    <3>1. EpochsBefore((seed - 1) + 1) = EpochsBefore(seed - 1) + Len(BuildEpoch((seed - 1) + 1))
      BY <2>1, EpochsAdd
    <3>2. EpochsBefore(seed) = EpochsBefore(seed - 1) + Len(build)
      BY <2>1, <3>1 DEF build
    <3>3. EpochsBefore(seed - 1) \in Nat
      <4>1. seed - 1 \in 0 .. MaxEpochs
        BY <1>3, <1>4
      <4> QED BY <1>2, <4>1, EpochsAreNat
    <3>4. position = Len(build) + EpochsBefore(seed - 1) /\ Len(build) \in Nat
      BY <1>3, <1>5
    <3>5. position + BatchSize = BatchSize + EpochsBefore(seed)
      BY <1>4, <3>2, <3>3, <3>4
    <3> QED BY <2>1, <3>5
  <2>9. LoaderOK'
    BY <1>1, <1>2, <1>4, <2>1, <2>6, <2>7, <2>8, PackedIsOK DEF new
  <2> QED BY <1>2, <2>9 DEF LoaderInv
<1>6. CASE row # Len(loader.rows)
  <2> DEFINE far == row + BatchSize
             on == position + BatchSize
  <2>1. loader' = [loader EXCEPT !.row = @ + BatchSize, !.position = @ + BatchSize]
    BY <1>1, <1>6
  <2>2. far <= Len(build) /\ far % BatchSize = 0 /\ far \in Nat
    <3> DEFINE n == Len(build)
    <3>1. row \in Nat /\ n \in Nat /\ row % BatchSize = 0 /\ n % BatchSize = 0 /\ row < n
      BY <1>3, <1>6
    <3> HIDE DEF n
    <3>2. row + BatchSize <= n /\ (row + BatchSize) % BatchSize = 0
      BY <1>4, <3>1, NextBatch
    <3>3. far \in Nat
      BY <1>4, <3>1
    <3> QED BY <3>2, <3>3 DEF n
  <2>3. on = far + EpochsBefore(seed - 1)
    <3>1. seed - 1 \in 0 .. MaxEpochs
      BY <1>3, <1>4
    <3>2. EpochsBefore(seed - 1) \in Nat
      BY <1>2, <3>1, EpochsAreNat
    <3> QED BY <1>3, <1>4, <3>2
  <2>4. loader' \in [strategy : {"packed"}, position : {on}, draws : {seed},
                     epoch : {seed - 1}, seed : {seed}, row : {far}, rows : {build}]
    <3> DEFINE epoch == seed - 1
    <3>1. loader = LoaderParts("packed", position, seed, epoch, seed, row, build)
      BY <1>3
    <3> HIDE DEF build, epoch
    <3>2. loader' \in [strategy : {"packed"}, position : {on}, draws : {seed},
                       epoch : {epoch}, seed : {seed}, row : {far}, rows : {build}]
      BY <2>1, <3>1 DEF LoaderParts
    <3> QED BY <3>2 DEF epoch
  <2> HIDE DEF far, on
  <2>5. loader' = LoaderParts("packed", on, seed, seed - 1, seed, far, build)
    <3> HIDE DEF build
    <3> QED BY <2>4 DEF LoaderParts
  <2>6. LoaderOK'
    BY <1>1, <1>2, <1>3, <2>2, <2>3, <2>5, PackedIsOK
  <2> QED BY <1>2, <2>6 DEF LoaderInv
<1> QED BY <1>5, <1>6

LEMMA SaveKeeps ==
  ASSUME LoaderInv, SaveLoader \/ SaveElsewhere PROVE LoaderInv'
<1>1. UNCHANGED <<docs, orders, loader>>
  BY DEF SaveLoader, SaveElsewhere
<1>2. /\ BuildEpoch(loader.seed)' = BuildEpoch(loader.seed)
      /\ EpochsBefore(loader.epoch)' = EpochsBefore(loader.epoch)
      /\ BuildEpoch(stored.seed)' = BuildEpoch(stored.seed')
      /\ EpochsBefore(stored.epoch)' = EpochsBefore(stored.epoch')
      /\ CorpusOK'
  BY <1>1, EpochsStay DEF LoaderInv
<1>3. Placed(loader) /\ Placed(loader)' = Placed(loader)
  BY <1>1, <1>2 DEF Placed, LoaderInv, LoaderOK
<1>4. LoaderOK'
  BY <1>1, <1>2, <1>3 DEF LoaderOK, LoaderInv
<1>5. CASE SaveLoader
  <2>1. /\ stored'.dataset = "this" /\ stored'.strategy = loader.strategy
        /\ stored'.position = loader.position /\ stored'.draws = loader.draws
        /\ stored'.epoch = loader.epoch /\ stored'.seed = loader.seed
        /\ stored'.row = loader.row
    BY <1>5 DEF SaveLoader, StateOf
  <2>2. Placed(stored)'
    BY <1>2, <1>3, <2>1 DEF Placed
  <2>3. /\ loader.strategy \in {"flat", "packed"} /\ loader.position \in Nat
        /\ loader.draws \in Nat /\ loader.epoch \in Int /\ loader.seed \in Nat
        /\ loader.row \in Nat /\ (loader.strategy = "flat" => loader.row = 0)
    BY DEF LoaderInv, LoaderOK
  <2>4. StoredOK'
    BY <2>1, <2>2, <2>3 DEF StoredOK
  <2> QED BY <1>2, <1>4, <2>4 DEF LoaderInv
<1>6. CASE SaveElsewhere
  <2>1. stored'.dataset = "other"
    BY <1>6 DEF SaveElsewhere, StateOf
  <2>2. StoredOK'
    BY <2>1 DEF StoredOK
  <2> QED BY <1>2, <1>4, <2>2 DEF LoaderInv
<1> QED BY <1>5, <1>6

LEMMA ReopenKeeps ==
  ASSUME LoaderInv, ReopenLoader PROVE LoaderInv'
<1>1. UNCHANGED <<docs, orders, stored>> /\ loader' = Opened(loader.strategy)
  BY DEF ReopenLoader
<1>2. CorpusOK /\ CorpusOK' /\ StoredOK' /\ loader.strategy \in {"flat", "packed"}
  BY <1>1, EpochsStay, StoredStays DEF LoaderInv, LoaderOK
<1>3. CASE loader.strategy = "flat"
  <2> DEFINE none == <<>>
  <2>1. loader' = LoaderParts("flat", 0, 0, -1, 0, 0, none)
    BY <1>1, <1>2, <1>3, OpenedIsOK
  <2>2. 0 \in Nat /\ -1 \in Int /\ 0 * BatchSize = 0
    OBVIOUS
  <2> HIDE DEF none
  <2>3. loader' = LoaderParts("flat", 0 * BatchSize, 0, -1, 0, 0, none)
    BY <2>1, <2>2
  <2>4. LoaderOK'
    BY <2>2, <2>3, FlatIsOK DEF none
  <2> QED BY <1>2, <2>4 DEF LoaderInv
<1>4. CASE loader.strategy = "packed"
  <2> DEFINE build == BuildEpoch(1)
  <2>1. loader' = LoaderParts("packed", 0, 1, 1 - 1, 1, 0, build)
    BY <1>1, <1>2, <1>4, OpenedIsOK
  <2>2. 1 \in 1 .. MaxEpochs /\ 0 \in Nat /\ 0 % BatchSize = 0
    OBVIOUS
  <2>3. 0 <= Len(build)
    BY <1>2, <2>2, EpochIsWhole DEF CorpusOK
  <2>4. 0 = 0 + EpochsBefore(1 - 1)
    BY NoEpochsBefore
  <2>5. LoaderOK'
    BY <1>1, <1>2, <2>1, <2>2, <2>3, <2>4, PackedIsOK
  <2> QED BY <1>2, <2>5 DEF LoaderInv
<1> QED BY <1>2, <1>3, <1>4

LEMMA RestoreKeeps ==
  ASSUME LoaderInv, RestoreLoader PROVE LoaderInv'
<1> DEFINE seed == stored.seed
           draws == stored.draws
           epoch == stored.epoch
           row == stored.row
           position == stored.position
           rows == IF stored.strategy = "packed" THEN BuildEpoch(seed) ELSE <<>>
<1>1. /\ UNCHANGED <<docs, orders, stored>>
      /\ loader' = LoaderParts(stored.strategy, position, draws, epoch, seed, row, rows)
      /\ stored.dataset = "this" /\ stored.strategy = loader.strategy
  BY DEF RestoreLoader, StateFits, LoaderParts
<1>2. CorpusOK /\ CorpusOK' /\ StoredOK'
  BY <1>1, EpochsStay, StoredStays DEF LoaderInv
<1>3. /\ stored.strategy \in {"flat", "packed"}
      /\ stored.position \in Nat /\ draws \in Nat /\ epoch \in Int /\ seed \in Nat /\ row \in Nat
      /\ stored.strategy = "flat" => row = 0
      /\ Placed(stored)
  BY <1>1 DEF LoaderInv, StoredOK
<1>4. CASE stored.strategy = "flat"
  <2>1. loader' = LoaderParts("flat", position, draws, epoch, seed, 0, <<>>)
    BY <1>1, <1>3, <1>4
  <2>2. position = draws * BatchSize
    BY <1>3, <1>4 DEF Placed
  <2> HIDE DEF position, draws, epoch, seed
  <2>3. loader' = LoaderParts("flat", draws * BatchSize, draws, epoch, seed, 0, <<>>)
    BY <2>1, <2>2
  <2>4. LoaderOK'
    BY <1>3, <2>3, FlatIsOK
  <2> QED BY <1>2, <2>4 DEF LoaderInv
<1>5. CASE stored.strategy = "packed"
  <2> DEFINE build == BuildEpoch(seed)
  <2>1. /\ seed \in 1 .. MaxEpochs /\ draws = seed /\ epoch = seed - 1
        /\ row \in 0 .. Len(build) /\ row % BatchSize = 0
        /\ position = row + EpochsBefore(epoch)
    BY <1>3, <1>5 DEF Placed
  <2>2. loader' = LoaderParts("packed", position, draws, epoch, seed, row, build)
    BY <1>1, <1>5
  <2> HIDE DEF position, draws, epoch, seed, row, rows, build
  <2>3. loader' = LoaderParts("packed", position, seed, seed - 1, seed, row, build)
    BY <2>1, <2>2
  <2>4. row <= Len(build) /\ position = row + EpochsBefore(seed - 1)
    BY <2>1
  <2>5. LoaderOK'
    BY <1>1, <1>2, <1>3, <2>1, <2>3, <2>4, PackedIsOK DEF build
  <2> QED BY <1>2, <2>5 DEF LoaderInv
<1> QED BY <1>3, <1>4, <1>5

LEMMA LoaderInvAlways == LoaderSpec => []LoaderInv
<1>1. LoaderInv /\ [LoaderNext]_loaderVars => LoaderInv'
  <2> SUFFICES ASSUME LoaderInv, [LoaderNext]_loaderVars PROVE LoaderInv'
    OBVIOUS
  <2>1. CASE UNCHANGED loaderVars
    <3>1. UNCHANGED <<docs, orders, loader, stored>>
      BY <2>1 DEF loaderVars
    <3>2. /\ BuildEpoch(loader.seed)' = BuildEpoch(loader.seed)
          /\ EpochsBefore(loader.epoch)' = EpochsBefore(loader.epoch)
          /\ CorpusOK'
      BY <3>1, EpochsStay DEF LoaderInv
    <3>3. Placed(loader) /\ Placed(loader)' = Placed(loader)
      BY <3>1, <3>2 DEF Placed, LoaderInv, LoaderOK
    <3>4. LoaderOK'
      BY <3>1, <3>2, <3>3 DEF LoaderOK, LoaderInv
    <3>5. StoredOK'
      BY <3>1, StoredStays DEF LoaderInv
    <3> QED BY <3>2, <3>4, <3>5 DEF LoaderInv
  <2> QED BY <2>1, NextFlatBatchKeeps, NextPackedBatchKeeps, SaveKeeps, ReopenKeeps,
             RestoreKeeps DEF LoaderNext
<1> QED BY LoaderStarts, <1>1, PTL DEF LoaderSpec

\* After any saves, restarts and restores, a loader that has delivered so
\* many rows is the loader that delivered them in one go.
THEOREM ResumesExactlyHolds == LoaderSpec => []ResumesExactly
<1>1. LoaderInv => ResumesExactly
  <2> SUFFICES ASSUME LoaderInv PROVE ResumesExactly
    OBVIOUS
  <2>1. CASE loader.strategy = "flat"
    BY <2>1 DEF ResumesExactly, LoaderInv, LoaderOK, Placed
  <2>2. CASE loader.strategy = "packed"
    <3>1. /\ loader.seed \in 1 .. MaxEpochs /\ loader.draws = loader.seed
          /\ loader.epoch = loader.seed - 1
          /\ loader.position = loader.row + EpochsBefore(loader.epoch)
          /\ loader.rows = BuildEpoch(loader.seed)
      BY <2>2 DEF LoaderInv, LoaderOK, Placed
    <3>2. loader.draws = loader.epoch + 1 /\ loader.seed = loader.epoch + 1
      BY <3>1
    <3> QED BY <2>2, <3>1, <3>2 DEF ResumesExactly, EpochsBefore
  <2> QED BY <2>1, <2>2 DEF LoaderInv, LoaderOK
<1> QED BY LoaderInvAlways, <1>1, PTL

\* The rows of the running epoch are those of the reference planner.
THEOREM PlanIsBestFitHolds == LoaderSpec => []PlanIsBestFit
<1>1. LoaderInv => PlanIsBestFit
  <2> SUFFICES ASSUME LoaderInv, loader.strategy = "packed"
               PROVE  LET scanned == ScannedRows(PiecesInOrder(orders[loader.seed])) IN
                      /\ SubSeq(loader.rows, 1, Len(scanned)) = scanned
                      /\ \A r \in Len(scanned) + 1 .. Len(loader.rows) : loader.rows[r] = <<>>
    BY DEF PlanIsBestFit
  <2>1. loader.seed \in 1 .. MaxEpochs /\ loader.rows = BuildEpoch(loader.seed)
    BY DEF LoaderInv, LoaderOK, Placed
  <2>2. AreDocuments(orders[loader.seed])
    BY <2>1 DEF LoaderInv, CorpusOK
  <2> QED BY <2>1, <2>2, EpochIsPlanned
<1> QED BY LoaderInvAlways, <1>1, PTL

-----------------------------------------------------------------------------
(***************************************************************************)
(* Every piece is planned once.                                            *)
(***************************************************************************)
IsAt(rows, r, k, piece) == r \in DOMAIN rows /\ k \in DOMAIN rows[r] /\ rows[r][k] = piece

\* The rows hold the first m pieces, each at one place; a piece that goes on
\* with a document is the first of its row.
OnePlaceEach(rows, pieces, m) ==
  /\ \A n \in 1 .. m : \E r, k : IsAt(rows, r, k, pieces[n])
  /\ \A r, k, piece : IsAt(rows, r, k, piece) => \E n \in 1 .. m : piece = pieces[n]
  /\ \A r, k, q, l, piece : IsAt(rows, r, k, piece) /\ IsAt(rows, q, l, piece) => r = q /\ k = l
  /\ \A r, k, piece : IsAt(rows, r, k, piece) /\ k # 1 => ~piece.continues

LEMMA PlaceShape ==
  ASSUME NEW plan, PlanOK(plan), NEW piece, IsPiece(piece)
  PROVE  \/ PlaceByScan(plan.rows, piece) = Append(plan.rows, <<piece>>)
         \/ /\ ~piece.continues
            /\ \E row \in DOMAIN plan.rows :
                 PlaceByScan(plan.rows, piece) = [plan.rows EXCEPT ![row] = Append(@, piece)]
<1> DEFINE fitting == {c \in plan.open : c >= PackedSize(piece)}
           c == Least(fitting)
           row == Least(plan.waiting[c])
           fits == {r \in DOMAIN plan.rows : Remaining(plan.rows[r], piece) >= 0}
           best == {r \in fits : \A s \in fits :
                      Remaining(plan.rows[r], piece) <= Remaining(plan.rows[s], piece)}
<1>1. /\ fitting = {} <=> fits = {}
      /\ fitting # {} => c \in fitting /\ row \in plan.waiting[c] /\ row = Least(best)
  BY SameRowIsBest
<1>2. CASE piece.continues \/ fits = {}
  BY <1>2 DEF PlaceByScan
<1>3. CASE ~(piece.continues \/ fits = {})
  <2>1. PlaceByScan(plan.rows, piece) = [plan.rows EXCEPT ![Least(best)] = Append(@, piece)]
    BY <1>3 DEF PlaceByScan
  <2>2. c \in plan.open /\ row \in plan.waiting[c] /\ row = Least(best)
    <3>1. fitting # {}
      <4> HIDE DEF fits, fitting
      <4> QED BY <1>1, <1>3
    <3> HIDE DEF best
    <3> QED BY <1>1, <3>1
  <2> HIDE DEF c, row, fits, fitting, best
  <2>3. row \in DOMAIN plan.rows
    <3>1. c \in 1 .. RowTokens
      BY <2>2 DEF PlanOK, IndexOK
    <3> QED BY <2>2, <3>1 DEF PlanOK, IndexOK
  <2>4. PlaceByScan(plan.rows, piece) = [plan.rows EXCEPT ![row] = Append(@, piece)]
    BY <2>1, <2>2
  <2> QED BY <1>3, <2>3, <2>4
<1> QED BY <1>2, <1>3

LEMMA PlaceAddsOne ==
  ASSUME NEW plan, PlanOK(plan), NEW piece, IsPiece(piece)
  PROVE  \E r, k :
           /\ \A q, l, other : IsAt(PlaceByScan(plan.rows, piece), q, l, other) <=>
                IsAt(plan.rows, q, l, other) \/ (q = r /\ l = k /\ other = piece)
           /\ \A other : ~IsAt(plan.rows, r, k, other)
           /\ k # 1 => ~piece.continues
<1> DEFINE rows == plan.rows
           next == PlaceByScan(rows, piece)
           single == <<piece>>
<1>1. /\ Len(rows) \in Nat /\ DOMAIN rows = 1 .. Len(rows)
      /\ \A r \in 1 .. Len(rows) : Len(rows[r]) \in Nat /\ DOMAIN rows[r] = 1 .. Len(rows[r])
  BY DEF PlanOK, AreRows, IsRow
<1>2. CASE next = Append(rows, single)
  <2> DEFINE r == Len(rows) + 1
  <2>1. DOMAIN single = {1} /\ single[1] = piece
    OBVIOUS
  <2> HIDE DEF single
  <2>2. /\ DOMAIN Append(rows, single) = 1 .. r /\ Append(rows, single)[r] = single
        /\ \A q \in 1 .. Len(rows) : Append(rows, single)[q] = rows[q]
    BY <1>1
  <2> HIDE DEF next, rows
  <2>3. /\ DOMAIN next = 1 .. r /\ next[r] = single /\ \A q \in DOMAIN rows : next[q] = rows[q]
    BY <1>1, <1>2, <2>2
  <2>4. \A q : q \in 1 .. r <=> q \in DOMAIN rows \/ q = r
    BY <1>1
  <2>5. r \notin DOMAIN rows
    BY <1>1
  <2> HIDE DEF r
  <2>6. ASSUME NEW q, NEW l, NEW other
        PROVE  IsAt(next, q, l, other) <=> IsAt(rows, q, l, other) \/ (q = r /\ l = 1 /\ other = piece)
    <3>1. CASE q = r
      BY <2>1, <2>3, <2>4, <2>5, <3>1 DEF IsAt
    <3>2. CASE q # r
      BY <2>3, <2>4, <3>2 DEF IsAt
    <3> QED BY <3>1, <3>2
  <2>7. \A other : ~IsAt(rows, r, 1, other)
    BY <2>5 DEF IsAt
  <2> QED BY <2>6, <2>7 DEF next, rows
<1>3. CASE ~piece.continues /\ \E row \in DOMAIN rows : next = [rows EXCEPT ![row] = Append(@, piece)]
  <2>1. PICK r \in DOMAIN rows : next = [rows EXCEPT ![r] = Append(@, piece)]
    BY <1>3
  <2> DEFINE old == rows[r]
             new == Append(old, piece)
             k == Len(old) + 1
  <2>2. next = [rows EXCEPT ![r] = new]
    BY <2>1
  <2> HIDE DEF next, rows
  <2>3. Len(old) \in Nat /\ DOMAIN old = 1 .. Len(old)
    BY <1>1
  <2> HIDE DEF old
  <2>4. /\ DOMAIN new = 1 .. k /\ new[k] = piece /\ \A l \in DOMAIN old : new[l] = old[l]
        /\ \A l : l \in 1 .. k <=> l \in DOMAIN old \/ l = k
        /\ k \notin DOMAIN old
    BY <2>3
  <2> HIDE DEF new, k
  <2>5. /\ DOMAIN next = DOMAIN rows /\ next[r] = new
        /\ \A q \in DOMAIN rows : q # r => next[q] = rows[q]
    BY <2>2
  <2>6. ASSUME NEW q, NEW l, NEW other
        PROVE  IsAt(next, q, l, other) <=> IsAt(rows, q, l, other) \/ (q = r /\ l = k /\ other = piece)
    <3>1. CASE q = r
      <4>1. IsAt(next, q, l, other) <=> l \in DOMAIN new /\ new[l] = other
        BY <2>5, <3>1 DEF IsAt
      <4>2. IsAt(rows, q, l, other) <=> l \in DOMAIN old /\ old[l] = other
        BY <3>1 DEF IsAt, old
      <4> QED BY <2>4, <3>1, <4>1, <4>2
    <3>2. CASE q # r
      BY <2>5, <3>2 DEF IsAt
    <3> QED BY <3>1, <3>2
  <2>7. \A other : ~IsAt(rows, r, k, other)
    BY <2>4 DEF IsAt, old
  <2> QED BY <1>3, <2>6, <2>7 DEF next, rows
<1> QED BY <1>2, <1>3, PlaceShape

LEMMA PlaceKeepsPieces ==
  ASSUME NEW plan, PlanOK(plan), NEW pieces, ArePieces(pieces), NEW m \in Nat,
         m + 1 <= Len(pieces), OnePlaceEach(plan.rows, pieces, m),
         \A n, l \in 1 .. Len(pieces) : pieces[n] = pieces[l] => n = l
  PROVE  OnePlaceEach(PlaceByScan(plan.rows, pieces[m + 1]), pieces, m + 1)
<1> DEFINE piece == pieces[m + 1]
           next == PlaceByScan(plan.rows, piece)
           rows == plan.rows
<1>1. Len(pieces) \in Nat /\ m + 1 \in 1 .. Len(pieces) /\ IsPiece(piece)
  BY DEF ArePieces
<1>2. PICK r, k :
        /\ \A q, l, other : IsAt(next, q, l, other) <=>
             IsAt(rows, q, l, other) \/ (q = r /\ l = k /\ other = piece)
        /\ \A other : ~IsAt(rows, r, k, other)
        /\ k # 1 => ~piece.continues
  <2> HIDE DEF piece
  <2>1. \E r, k :
          /\ \A q, l, other : IsAt(PlaceByScan(plan.rows, piece), q, l, other) <=>
               IsAt(plan.rows, q, l, other) \/ (q = r /\ l = k /\ other = piece)
          /\ \A other : ~IsAt(plan.rows, r, k, other)
          /\ k # 1 => ~piece.continues
    BY <1>1, PlaceAddsOne
  <2> QED BY <2>1
<1>3. /\ \A n \in 1 .. m : \E q, l : IsAt(rows, q, l, pieces[n])
      /\ \A q, l, other : IsAt(rows, q, l, other) => \E n \in 1 .. m : other = pieces[n]
      /\ \A q, l, q2, l2, other : IsAt(rows, q, l, other) /\ IsAt(rows, q2, l2, other)
           => q = q2 /\ l = l2
      /\ \A q, l, other : IsAt(rows, q, l, other) /\ l # 1 => ~other.continues
  BY DEF OnePlaceEach
<1>4. \A n : n \in 1 .. m + 1 <=> n \in 1 .. m \/ n = m + 1
  BY <1>1
<1>5. \A q, l : ~IsAt(rows, q, l, piece)
  <2> SUFFICES ASSUME NEW q, NEW l, IsAt(rows, q, l, piece) PROVE FALSE
    OBVIOUS
  <2>1. PICK n \in 1 .. m : piece = pieces[n]
    <3> HIDE DEF piece, rows
    <3> QED BY <1>3
  <2>2. n \in 1 .. Len(pieces) /\ n # m + 1
    BY <1>1
  <2> QED BY <1>1, <2>1, <2>2
<1> HIDE DEF piece, next, rows
<1>6. \A n \in 1 .. m + 1 : \E q, l : IsAt(next, q, l, pieces[n])
  <2> TAKE n \in 1 .. m + 1
  <2>1. CASE n \in 1 .. m
    <3>1. PICK q, l : IsAt(rows, q, l, pieces[n])
      BY <1>3, <2>1
    <3> QED BY <1>2, <3>1
  <2>2. CASE n = m + 1
    <3>1. IsAt(next, r, k, pieces[n])
      BY <1>2, <2>2 DEF piece
    <3> QED BY <3>1
  <2> QED BY <1>4, <2>1, <2>2
<1>7. ASSUME NEW q, NEW l, NEW other, IsAt(next, q, l, other)
      PROVE  \E n \in 1 .. m + 1 : other = pieces[n]
  <2>1. CASE IsAt(rows, q, l, other)
    <3>1. PICK n \in 1 .. m : other = pieces[n]
      BY <1>3, <2>1
    <3> QED BY <1>4, <3>1
  <2>2. CASE other = piece
    <3>1. m + 1 \in 1 .. m + 1 /\ other = pieces[m + 1]
      BY <1>4, <2>2 DEF piece
    <3> QED BY <3>1
  <2> QED BY <1>2, <1>7, <2>1, <2>2
<1>8. ASSUME NEW q, NEW l, NEW q2, NEW l2, NEW other,
             IsAt(next, q, l, other), IsAt(next, q2, l2, other)
      PROVE  q = q2 /\ l = l2
  <2>1. CASE other = piece
    BY <1>2, <1>5, <1>8, <2>1
  <2>2. CASE other # piece
    <3>1. IsAt(rows, q, l, other) /\ IsAt(rows, q2, l2, other)
      BY <1>2, <1>8, <2>2
    <3> QED BY <1>3, <3>1
  <2> QED BY <2>1, <2>2
<1>9. ASSUME NEW q, NEW l, NEW other, IsAt(next, q, l, other), l # 1
      PROVE  ~other.continues
  BY <1>2, <1>3, <1>9
<1> QED BY <1>6, <1>7, <1>8, <1>9 DEF OnePlaceEach, next, piece, rows

\* The planner puts every piece in one place, and fills no row too far.
THEOREM EachPieceIsPlanned ==
  ASSUME NEW pieces, ArePieces(pieces),
         \A n, l \in 1 .. Len(pieces) : pieces[n] = pieces[l] => n = l
  PROVE  LET rows == PlannedRows(pieces) IN
         /\ OnePlaceEach(rows, pieces, Len(pieces))
         /\ \A r \in DOMAIN rows : Filled(rows[r]) \in 1 .. RowTokens
<1>1. Len(pieces) \in Nat /\ \A n \in 1 .. Len(pieces) : IsPiece(pieces[n])
  BY DEF ArePieces
<1>2. PICK f : Planned(f, pieces) /\ PlannedRows(pieces) = f[Len(pieces)].rows
  BY <1>1, PlannedRowsAre
<1> DEFINE T == {n \in Nat : n <= Len(pieces) =>
                               PlanOK(f[n]) /\ OnePlaceEach(f[n].rows, pieces, n)}
<1>3. 0 \in T
  <2>1. f[0] = NoRows /\ PlanOK(NoRows) /\ NoRows.rows = <<>>
    BY <1>2, NoRowsIsPlan DEF Planned
  <2> DEFINE none == <<>>
  <2>2. DOMAIN none = {} /\ \A n : n \notin 1 .. 0
    OBVIOUS
  <2> HIDE DEF none
  <2>3. \A r, k, piece : ~IsAt(none, r, k, piece)
    BY <2>2 DEF IsAt
  <2>4. OnePlaceEach(none, pieces, 0)
    BY <2>2, <2>3 DEF OnePlaceEach
  <2> QED BY <2>1, <2>4 DEF none
<1>4. ASSUME NEW n \in Nat, n \in T PROVE n + 1 \in T
  <2> SUFFICES ASSUME n + 1 <= Len(pieces)
               PROVE  PlanOK(f[n + 1]) /\ OnePlaceEach(f[n + 1].rows, pieces, n + 1)
    OBVIOUS
  <2>1. n + 1 \in 1 .. Len(pieces) /\ (n + 1) - 1 = n /\ n <= Len(pieces)
    BY <1>1
  <2>2. f[n + 1] = Place(f[n], pieces[n + 1])
    BY <1>2, <2>1 DEF Planned
  <2>3. PlanOK(f[n]) /\ OnePlaceEach(f[n].rows, pieces, n) /\ IsPiece(pieces[n + 1])
    BY <1>1, <1>4, <2>1
  <2>4. PlanOK(f[n + 1]) /\ f[n + 1].rows = PlaceByScan(f[n].rows, pieces[n + 1])
    BY <2>2, <2>3, PlaceKeeps
  <2>5. OnePlaceEach(PlaceByScan(f[n].rows, pieces[n + 1]), pieces, n + 1)
    BY <2>3, PlaceKeepsPieces
  <2> QED BY <2>4, <2>5
<1> HIDE DEF T
<1>5. Nat \subseteq T
  BY <1>3, <1>4, NaturalsAreInductive
<1>6. PlanOK(f[Len(pieces)]) /\ OnePlaceEach(f[Len(pieces)].rows, pieces, Len(pieces))
  BY <1>1, <1>5 DEF T
<1> QED BY <1>2, <1>6 DEF PlanOK, IndexOK

-----------------------------------------------------------------------------
(***************************************************************************)
(* What a row becomes.                                                     *)
(***************************************************************************)
LEMMA TotalSame ==
  ASSUME NEW s, NEW t, Len(s) \in Nat, Len(t) = Len(s), \A n \in 1 .. Len(s) : t[n] = s[n]
  PROVE  Total(t) = Total(s)
<1>1. CASE Len(s) = 0
  BY <1>1, TotalOfNone
<1>2. CASE Len(s) # 0
  <2> DEFINE last == Len(s) - 1
             p == [n \in 1 .. last |-> s[n]]
  <2>1. last \in Nat /\ Len(s) = last + 1 /\ Len(p) = last /\ \A n \in 1 .. last : p[n] = s[n]
    BY <1>2
  <2> HIDE DEF last, p
  <2>2. Len(s) = Len(p) + 1 /\ Len(t) = Len(p) + 1 /\ Len(p) \in Nat
        /\ (\A n \in 1 .. Len(p) : s[n] = p[n]) /\ (\A n \in 1 .. Len(p) : t[n] = p[n])
    BY <2>1
  <2>3. Total(s) = Total(p) + s[Len(s)]
    BY <2>2, TotalGrows
  <2>4. Total(t) = Total(p) + t[Len(t)]
    BY <2>2, TotalGrows
  <2>5. Len(s) \in 1 .. Len(s)
    BY <1>2
  <2> QED BY <2>3, <2>4, <2>5
<1> QED BY <1>1, <1>2

LEMMA OffsetsAre ==
  ASSUME NEW row, Len(row) \in Nat, DOMAIN row = 1 .. Len(row)
  PROVE  /\ PieceOffset(row, 1) = 0 /\ PieceOffset(row, Len(row) + 1) = Filled(row)
         /\ \A k \in 1 .. Len(row) : PieceOffset(row, k + 1) = PieceOffset(row, k) + PackedSize(row[k])
<1> DEFINE p(k) == SubSeq(row, 1, k - 1)
<1>1. \A k \in 1 .. Len(row) + 1 :
        /\ Len(p(k)) = k - 1 /\ DOMAIN p(k) = 1 .. k - 1
        /\ \A n \in 1 .. k - 1 : p(k)[n] = row[n]
  OBVIOUS
<1> HIDE DEF p
<1>2. \A k \in 1 .. Len(row) + 1 :
        /\ Len(Sizes(p(k))) = k - 1
        /\ \A n \in 1 .. k - 1 : Sizes(p(k))[n] = PackedSize(row[n])
  <2> TAKE k \in 1 .. Len(row) + 1
  <2>1. Len(p(k)) = k - 1 /\ k - 1 \in Nat /\ DOMAIN p(k) = 1 .. Len(p(k))
    BY <1>1
  <2>2. /\ Len(Sizes(p(k))) = Len(p(k))
        /\ \A n \in 1 .. Len(p(k)) : Sizes(p(k))[n] = PackedSize(p(k)[n])
    BY <2>1, SizesOfRow
  <2> QED BY <1>1, <2>1, <2>2
<1>3. \A k : PieceOffset(row, k) = Total(Sizes(p(k)))
  BY DEF PieceOffset, p
<1>4. PieceOffset(row, 1) = 0
  <2>1. Len(Sizes(p(1))) = 0
    BY <1>2
  <2> QED BY <1>3, <2>1, TotalOfNone
<1>5. PieceOffset(row, Len(row) + 1) = Filled(row)
  <2> DEFINE s == Sizes(row)
             t == Sizes(p(Len(row) + 1))
  <2>1. Len(row) + 1 \in 1 .. Len(row) + 1 /\ (Len(row) + 1) - 1 = Len(row)
    OBVIOUS
  <2>2. Len(t) = Len(row) /\ \A n \in 1 .. Len(row) : t[n] = PackedSize(row[n])
    BY <1>2, <2>1
  <2>3. Len(s) = Len(row) /\ \A n \in 1 .. Len(row) : s[n] = PackedSize(row[n])
    BY SizesOfRow
  <2> HIDE DEF s, t
  <2>4. Total(t) = Total(s)
    BY <2>2, <2>3, TotalSame
  <2> QED BY <1>3, <2>4 DEF s, t, Filled
<1>6. ASSUME NEW k \in 1 .. Len(row)
      PROVE  PieceOffset(row, k + 1) = PieceOffset(row, k) + PackedSize(row[k])
  <2> DEFINE s == Sizes(p(k))
             t == Sizes(p(k + 1))
  <2>1. k \in 1 .. Len(row) + 1 /\ k + 1 \in 1 .. Len(row) + 1 /\ (k + 1) - 1 = k /\ k - 1 \in Nat
    OBVIOUS
  <2>2. Len(s) = k - 1 /\ \A n \in 1 .. k - 1 : s[n] = PackedSize(row[n])
    BY <1>2, <2>1
  <2>3. Len(t) = k /\ \A n \in 1 .. k : t[n] = PackedSize(row[n])
    BY <1>2, <2>1
  <2> HIDE DEF s, t
  <2>4. Len(t) = Len(s) + 1 /\ Len(s) \in Nat /\ t[Len(t)] = PackedSize(row[k])
        /\ \A n \in 1 .. Len(s) : t[n] = s[n]
    BY <2>1, <2>2, <2>3
  <2>5. Total(t) = Total(s) + t[Len(t)]
    BY <2>4, TotalGrows
  <2> QED BY <1>3, <2>4, <2>5 DEF s, t
<1> QED BY <1>4, <1>5, <1>6

TokenPairs == Nat \X Nat

LEMMA TokensOfPiece ==
  ASSUME docs \in Seq(Nat), NEW piece \in Pieces
  PROVE  /\ PieceTokens(piece) \in Seq(TokenPairs)
         /\ Len(PieceTokens(piece)) = PackedSize(piece) /\ PackedSize(piece) = piece.count + 1
         /\ piece.count \in Nat
         /\ PieceTokens(piece)[1] = IF piece.continues THEN <<piece.doc, piece.start>> ELSE Bos
         /\ \A i \in 1 .. piece.count : PieceTokens(piece)[i + 1] = <<piece.doc, piece.start + i>>
<1> DEFINE first == IF piece.continues THEN <<piece.doc, piece.start>> ELSE Bos
           token(i) == <<piece.doc, piece.start + i>>
           rest == [i \in 1 .. piece.count |-> token(i)]
           head == <<first>>
<1>1. piece.doc \in Nat /\ piece.start \in Nat /\ piece.count \in Nat
  BY DEF Pieces
<1>2. first \in TokenPairs /\ \A i \in 1 .. piece.count : token(i) \in TokenPairs
  BY <1>1 DEF Bos, TokenPairs
<1>3. PieceTokens(piece) = head \o rest
  BY DEF PieceTokens
<1> HIDE DEF first, token
<1>4. rest \in Seq(TokenPairs) /\ Len(rest) = piece.count
      /\ \A i \in 1 .. piece.count : rest[i] = token(i)
  <2> DEFINE n == piece.count
             t == [i \in 1 .. n |-> token(i)]
  <2>1. n \in Nat /\ \A i \in 1 .. n : token(i) \in TokenPairs
    BY <1>1, <1>2
  <2> HIDE DEF n
  <2>2. t \in Seq(TokenPairs) /\ Len(t) = n /\ \A i \in 1 .. n : t[i] = token(i)
    BY <2>1
  <2> QED BY <2>2 DEF n
<1>5. head \in Seq(TokenPairs) /\ Len(head) = 1 /\ head[1] = first
  BY <1>2
<1> HIDE DEF rest, head
<1>6. /\ head \o rest \in Seq(TokenPairs) /\ Len(head \o rest) = 1 + piece.count
      /\ \A j \in 1 .. 1 + piece.count :
           (head \o rest)[j] = IF j <= 1 THEN head[j] ELSE rest[j - 1]
  <2>1. /\ head \o rest \in Seq(TokenPairs) /\ Len(head \o rest) = Len(head) + Len(rest)
        /\ \A j \in 1 .. Len(head) + Len(rest) :
             (head \o rest)[j] = IF j <= Len(head) THEN head[j] ELSE rest[j - Len(head)]
    BY <1>4, <1>5, ConcatProperties
  <2> QED BY <1>4, <1>5, <2>1
<1>7. (head \o rest)[1] = first
  BY <1>1, <1>5, <1>6
<1>8. \A i \in 1 .. piece.count : (head \o rest)[i + 1] = token(i)
  <2> TAKE i \in 1 .. piece.count
  <2>1. i + 1 \in 1 .. 1 + piece.count /\ ~(i + 1 <= 1) /\ (i + 1) - 1 = i
    BY <1>1
  <2>2. (head \o rest)[i + 1] = rest[(i + 1) - 1]
    BY <1>6, <2>1
  <2> QED BY <1>4, <2>1, <2>2
<1>9. PackedSize(piece) = piece.count + 1 /\ Len(head \o rest) = piece.count + 1
  BY <1>1, <1>6 DEF PackedSize
<1> DEFINE all == head \o rest
<1> HIDE DEF all
<1>10. /\ all \in Seq(TokenPairs) /\ Len(all) = PackedSize(piece) /\ all[1] = first
       /\ \A i \in 1 .. piece.count : all[i + 1] = token(i)
  BY <1>6, <1>7, <1>8, <1>9 DEF all
<1>11. PieceTokens(piece) = all
  BY <1>3 DEF all
<1> QED BY <1>1, <1>9, <1>10, <1>11 DEF first, token

\* A row of pieces that does not overflow.
IsPacked(row) ==
  /\ docs \in Seq(Nat)
  /\ Len(row) \in Nat /\ DOMAIN row = 1 .. Len(row)
  /\ \A k \in 1 .. Len(row) : row[k] \in Pieces
  /\ Filled(row) \in 0 .. RowTokens

LEMMA WindowIs ==
  ASSUME NEW row, IsPacked(row)
  PROVE  /\ \A k \in 1 .. Len(row) + 1 : PieceOffset(row, k) \in 0 .. Filled(row)
         /\ \A k \in 1 .. Len(row) : PieceOffset(row, k + 1) = PieceOffset(row, k) + (row[k].count + 1)
         /\ PieceOffset(row, Len(row) + 1) = Filled(row)
         /\ \A k \in 1 .. Len(row) : \A j \in 1 .. row[k].count + 1 :
              Window(row)[PieceOffset(row, k) + j] = PieceTokens(row[k])[j]
         /\ \A p \in Filled(row) + 1 .. RowTokens : Window(row)[p] = Bos
<1> DEFINE seqs == [k \in DOMAIN row |-> PieceTokens(row[k])]
           b == [k \in 1 .. Len(row) + 1 |-> PieceOffset(row, k)]
           tokens == FlattenSeq(seqs)
<1>1. Len(row) \in Nat /\ DOMAIN row = 1 .. Len(row) /\ RowTokens \in Nat /\ Filled(row) \in 0 .. RowTokens
  BY DEF IsPacked
<1>2. Len(seqs) = Len(row) /\ DOMAIN seqs = 1 .. Len(row)
      /\ \A k \in 1 .. Len(row) : seqs[k] = PieceTokens(row[k])
  BY <1>1
<1>3. \A k \in 1 .. Len(row) :
        /\ PieceTokens(row[k]) \in Seq(TokenPairs) /\ Len(PieceTokens(row[k])) = row[k].count + 1
        /\ PackedSize(row[k]) = row[k].count + 1 /\ row[k].count \in Nat
  BY TokensOfPiece DEF IsPacked
<1>4. /\ PieceOffset(row, 1) = 0 /\ PieceOffset(row, Len(row) + 1) = Filled(row)
      /\ \A k \in 1 .. Len(row) : PieceOffset(row, k + 1) = PieceOffset(row, k) + (row[k].count + 1)
  BY <1>1, <1>3, OffsetsAre
<1>5. \A k \in 1 .. Len(row) + 1 : b[k] = PieceOffset(row, k)
  OBVIOUS
<1> HIDE DEF seqs, b
<1>6. Begins(b, seqs)
  <2>1. \A k \in 1 .. Len(row) : k \in 1 .. Len(row) + 1 /\ k + 1 \in 1 .. Len(row) + 1
    BY <1>1
  <2>2. 1 \in 1 .. Len(row) + 1
    BY <1>1
  <2>3. b[1] = 0
    BY <1>4, <1>5, <2>2
  <2>4. ASSUME NEW k \in 1 .. Len(seqs) PROVE b[k + 1] = b[k] + Len(seqs[k])
    <3>1. k \in 1 .. Len(row) /\ b[k] = PieceOffset(row, k) /\ b[k + 1] = PieceOffset(row, k + 1)
      BY <1>2, <1>5, <2>1
    <3>2. Len(seqs[k]) = row[k].count + 1
      BY <1>2, <1>3, <3>1
    <3> QED BY <1>4, <3>1, <3>2
  <2> QED BY <2>3, <2>4 DEF Begins
<1>7. \A k \in 1 .. Len(seqs) : seqs[k] \in Seq(TokenPairs) /\ Len(seqs[k]) = row[k].count + 1
                                /\ Len(seqs[k]) \in Nat
  BY <1>2, <1>3
<1>8. /\ Len(tokens) = b[Len(seqs) + 1]
      /\ \A k \in 1 .. Len(seqs) : \A j \in 1 .. Len(seqs[k]) :
           b[k] + j \in 1 .. Len(tokens) /\ tokens[b[k] + j] = seqs[k][j]
  <2>1. Len(seqs) \in Nat /\ DOMAIN seqs = 1 .. Len(seqs)
    BY <1>1, <1>2
  <2>2. \A k \in 1 .. Len(seqs) : seqs[k] \in Seq(TokenPairs)
    BY <1>7
  <2>3. IsJoin(FlattenSeq(seqs), seqs, b)
    BY <1>6, <2>1, <2>2, FlattenIs
  <2> QED BY <2>3 DEF IsJoin
<1>9. Len(tokens) = Filled(row)
  <2>1. Len(row) + 1 \in 1 .. Len(row) + 1
    BY <1>1
  <2> QED BY <1>2, <1>4, <1>5, <1>8, <2>1
<1>10. Window(row) = [p \in 1 .. RowTokens |-> IF p <= Len(tokens) THEN tokens[p] ELSE Bos]
  BY DEF Window, seqs
<1> HIDE DEF tokens
<1>11. ASSUME NEW k \in 1 .. Len(row), NEW j \in 1 .. row[k].count + 1
       PROVE  Window(row)[PieceOffset(row, k) + j] = PieceTokens(row[k])[j]
  <2>1. k \in 1 .. Len(seqs) /\ j \in 1 .. Len(seqs[k]) /\ b[k] = PieceOffset(row, k)
    <3>1. k \in 1 .. Len(row) + 1
      BY <1>1
    <3> QED BY <1>2, <1>5, <1>7, <3>1
  <2> DEFINE p == b[k] + j
  <2>2. p \in 1 .. Len(tokens) /\ tokens[p] = seqs[k][j]
    BY <1>8, <2>1
  <2> HIDE DEF p
  <2>3. p \in 1 .. RowTokens /\ p <= Len(tokens)
    BY <1>1, <1>9, <2>2
  <2>4. Window(row)[p] = tokens[p]
    BY <1>10, <2>3
  <2> QED BY <1>2, <2>1, <2>2, <2>4 DEF p
<1>12. ASSUME NEW p \in Filled(row) + 1 .. RowTokens PROVE Window(row)[p] = Bos
  <2>1. p \in 1 .. RowTokens /\ ~(p <= Len(tokens))
    BY <1>1, <1>9
  <2> QED BY <1>10, <2>1
<1>13. ASSUME NEW k \in 1 .. Len(row) + 1 PROVE PieceOffset(row, k) \in 0 .. Filled(row)
  <2>1. Len(seqs) \in Nat /\ \A n \in 1 .. Len(seqs) : Len(seqs[n]) \in Nat
    BY <1>1, <1>2, <1>7
  <2>2. /\ \A n \in 1 .. Len(seqs) + 1 : b[n] \in Nat
        /\ \A n \in 1 .. Len(seqs), m \in 1 .. Len(seqs) + 1 :
             n < m => b[n] + Len(seqs[n]) <= b[m]
    BY <1>6, <2>1, BeginsGrow
  <2>3. b[k] = PieceOffset(row, k) /\ b[k] \in Nat
    BY <1>2, <1>5, <2>2
  <2>4. CASE k = Len(row) + 1
    BY <1>1, <1>4, <2>3, <2>4
  <2>5. CASE k # Len(row) + 1
    <3> DEFINE end == Len(row) + 1
    <3>1. k \in 1 .. Len(seqs) /\ end \in 1 .. Len(seqs) + 1 /\ k < end
      BY <1>1, <1>2, <2>5
    <3>2. b[k] + Len(seqs[k]) <= b[end] /\ Len(seqs[k]) \in Nat /\ b[end] \in Nat
      BY <2>1, <2>2, <3>1
    <3>3. b[end] = Filled(row)
      BY <1>2, <1>4, <1>5, <3>1
    <3> HIDE DEF end
    <3>4. b[k] <= Filled(row)
      BY <1>1, <2>3, <3>2, <3>3
    <3> QED BY <1>1, <2>3, <3>4
  <2> QED BY <2>4, <2>5
<1> QED BY <1>4, <1>11, <1>12, <1>13

\* The scored positions: those of the tokens a piece brings, and the last of
\* a piece that ends its document, unless it ends the row.
LEMMA ScoredIs ==
  ASSUME NEW row, Len(row) \in Nat, DOMAIN row = 1 .. Len(row)
  PROVE  \A t : t \in Scored(row) <=>
           \E k \in 1 .. Len(row) :
             \/ t \in PieceOffset(row, k) + 1 .. PieceOffset(row, k) + row[k].count
             \/ row[k].ends /\ t = PieceOffset(row, k + 1) /\ t < RowTokens
<1> DEFINE brought(k) == PieceOffset(row, k) + 1 .. PieceOffset(row, k) + row[k].count
           ending == {k \in DOMAIN row : row[k].ends /\ PieceOffset(row, k + 1) < RowTokens}
           A == UNION {brought(k) : k \in DOMAIN row}
           B == {PieceOffset(row, k + 1) : k \in ending}
<1>1. Scored(row) = A \cup B
  BY DEF Scored
<1> HIDE DEF brought
<1>2. \A t : t \in A <=> \E k \in DOMAIN row : t \in brought(k)
  OBVIOUS
<1>3. \A t : t \in B <=>
        \E k \in DOMAIN row : row[k].ends /\ t = PieceOffset(row, k + 1) /\ t < RowTokens
  OBVIOUS
<1> HIDE DEF A, B
<1>4. ASSUME NEW t
      PROVE  t \in Scored(row) <=>
               \/ \E k \in DOMAIN row : t \in brought(k)
               \/ \E k \in DOMAIN row : row[k].ends /\ t = PieceOffset(row, k + 1) /\ t < RowTokens
  BY <1>1, <1>2, <1>3
<1> QED BY <1>4 DEF brought

\* The tokens a piece brings: each is the target of the position before it,
\* which holds the token before it in its document.
LEMMA BroughtTokens ==
  ASSUME NEW row, IsPacked(row), NEW k \in 1 .. Len(row), NEW j \in 1 .. row[k].count
  PROVE  LET t == PieceOffset(row, k) + j
             piece == row[k] IN
         /\ t \in 1 .. SeqLen
         /\ Window(row)[t + 1] = <<piece.doc, piece.start + j>>
         /\ Window(row)[t] = IF j > 1 THEN <<piece.doc, piece.start + (j - 1)>>
                             ELSE IF piece.continues THEN <<piece.doc, piece.start>> ELSE Bos
<1> DEFINE piece == row[k]
           at == PieceOffset(row, k)
           t == at + j
<1>1. /\ Len(row) \in Nat /\ piece \in Pieces /\ docs \in Seq(Nat)
      /\ Filled(row) \in 0 .. RowTokens /\ SeqLen \in Nat /\ RowTokens = SeqLen + 1
      /\ k \in 1 .. Len(row) + 1 /\ k + 1 \in 1 .. Len(row) + 1
  BY DEF IsPacked
<1>2. /\ piece.count \in Nat
      /\ PieceTokens(piece)[1] = IF piece.continues THEN <<piece.doc, piece.start>> ELSE Bos
      /\ \A i \in 1 .. piece.count : PieceTokens(piece)[i + 1] = <<piece.doc, piece.start + i>>
  BY <1>1, TokensOfPiece
<1>3. /\ at \in 0 .. Filled(row) /\ PieceOffset(row, k + 1) \in 0 .. Filled(row)
      /\ PieceOffset(row, k + 1) = at + (piece.count + 1)
      /\ \A i \in 1 .. piece.count + 1 : Window(row)[at + i] = PieceTokens(piece)[i]
  BY <1>1, WindowIs
<1> HIDE DEF piece, at
<1>4. j \in 1 .. piece.count /\ j + 1 \in 1 .. piece.count + 1 /\ j \in 1 .. piece.count + 1
  BY <1>2 DEF piece
<1>5. t \in 1 .. SeqLen /\ t + 1 = at + (j + 1)
  <2> DEFINE end == PieceOffset(row, k + 1)
             count == piece.count
             filled == Filled(row)
  <2>1. /\ end \in 0 .. filled /\ filled \in 0 .. SeqLen + 1 /\ end = at + (count + 1)
        /\ at \in 0 .. filled /\ count \in Nat /\ j \in 1 .. count /\ SeqLen \in Nat
    BY <1>1, <1>2, <1>3, <1>4
  <2> HIDE DEF end, count, filled
  <2> QED BY <2>1
<1>6. Window(row)[t + 1] = <<piece.doc, piece.start + j>>
  BY <1>2, <1>3, <1>4, <1>5
<1>7. Window(row)[t] = PieceTokens(piece)[j]
  BY <1>3, <1>4
<1>8. CASE j > 1
  <2> DEFINE i == j - 1
  <2>1. i \in 1 .. piece.count /\ i + 1 = j
    BY <1>2, <1>4, <1>8
  <2> HIDE DEF i
  <2>2. PieceTokens(piece)[j] = <<piece.doc, piece.start + i>>
    BY <1>2, <2>1
  <2> QED BY <1>5, <1>6, <1>7, <1>8, <2>2 DEF i, piece, at
<1>9. CASE ~(j > 1)
  <2>1. j = 1
    BY <1>2, <1>4, <1>9
  <2> QED BY <1>2, <1>5, <1>6, <1>7, <1>9, <2>1 DEF piece, at
<1> QED BY <1>8, <1>9

\* After the end of a document comes BOS.
LEMMA EndIsBos ==
  ASSUME NEW row, IsPacked(row), NEW k \in 1 .. Len(row), PieceOffset(row, k + 1) < RowTokens,
         \A l \in 1 .. Len(row) : l # 1 => ~row[l].continues
  PROVE  LET t == PieceOffset(row, k + 1)
             piece == row[k] IN
         /\ Window(row)[t + 1] = Bos
         /\ Window(row)[t] = IF piece.count > 0 THEN <<piece.doc, piece.start + piece.count>>
                             ELSE IF piece.continues THEN <<piece.doc, piece.start>> ELSE Bos
<1> DEFINE piece == row[k]
           at == PieceOffset(row, k)
           t == PieceOffset(row, k + 1)
<1>1. /\ Len(row) \in Nat /\ piece \in Pieces /\ docs \in Seq(Nat)
      /\ Filled(row) \in 0 .. RowTokens /\ RowTokens \in Nat
      /\ k \in 1 .. Len(row) + 1 /\ k + 1 \in 1 .. Len(row) + 1
  BY DEF IsPacked
<1>2. /\ piece.count \in Nat
      /\ PieceTokens(piece)[1] = IF piece.continues THEN <<piece.doc, piece.start>> ELSE Bos
      /\ \A i \in 1 .. piece.count : PieceTokens(piece)[i + 1] = <<piece.doc, piece.start + i>>
  BY <1>1, TokensOfPiece
<1>3. /\ t \in 0 .. Filled(row) /\ t = at + (piece.count + 1)
      /\ \A i \in 1 .. piece.count + 1 : Window(row)[at + i] = PieceTokens(piece)[i]
      /\ PieceOffset(row, Len(row) + 1) = Filled(row)
      /\ \A p \in Filled(row) + 1 .. RowTokens : Window(row)[p] = Bos
  BY <1>1, WindowIs
<1>4. Window(row)[t + 1] = Bos
  <2>1. CASE k = Len(row)
    <3>1. t = Filled(row)
      BY <1>3, <2>1
    <3>2. t + 1 \in Filled(row) + 1 .. RowTokens
      BY <1>1, <1>3, <3>1
    <3> QED BY <1>3, <3>2
  <2>2. CASE k # Len(row)
    <3> DEFINE l == k + 1
    <3>1. l \in 1 .. Len(row) /\ l # 1
      BY <1>1, <2>2
    <3>2. row[l] \in Pieces /\ ~row[l].continues
      BY <3>1 DEF IsPacked
    <3>3. PieceTokens(row[l])[1] = Bos /\ row[l].count \in Nat
      BY <1>1, <3>2, TokensOfPiece
    <3>4. 1 \in 1 .. row[l].count + 1
      BY <3>3
    <3>5. Window(row)[PieceOffset(row, l) + 1] = PieceTokens(row[l])[1]
      BY <3>1, <3>4, WindowIs
    <3> QED BY <3>3, <3>5
  <2> QED BY <2>1, <2>2
<1> HIDE DEF piece, at, t
<1>5. Window(row)[t] = PieceTokens(piece)[piece.count + 1]
  <2>1. piece.count + 1 \in 1 .. piece.count + 1
    BY <1>2
  <2> QED BY <1>3, <2>1
<1>6. CASE piece.count > 0
  <2>1. piece.count \in 1 .. piece.count
    BY <1>2, <1>6
  <2>2. PieceTokens(piece)[piece.count + 1] = <<piece.doc, piece.start + piece.count>>
    BY <1>2, <2>1
  <2> QED BY <1>4, <1>5, <1>6, <2>2 DEF t, piece
<1>7. CASE ~(piece.count > 0)
  <2>1. piece.count + 1 = 1
    BY <1>2, <1>7
  <2> QED BY <1>2, <1>4, <1>5, <1>7, <2>1 DEF t, piece
<1> QED BY <1>6, <1>7

-----------------------------------------------------------------------------
\* A token lies in one piece of its document.
LEMMA QuotientBounds ==
  ASSUME NEW D \in Nat, NEW S \in Nat \ {0}
  PROVE  (D \div S) \in Nat /\ (D \div S) * S <= D /\ D < (D \div S) * S + S
  OBVIOUS

LEMMA TimesOrders ==
  ASSUME NEW x \in Nat, NEW y \in Nat, NEW S \in Nat \ {0}, x * S < y * S + S
  PROVE  x <= y
<1> SUFFICES ASSUME y + 1 <= x PROVE FALSE
  OBVIOUS
<1>1. (y + 1) * S <= x * S /\ (y + 1) * S = y * S + S
  OBVIOUS
<1>2. x * S \in Nat /\ y * S + S \in Nat
  OBVIOUS
<1> QED BY <1>1, <1>2

LEMMA TokenHasPiece ==
  ASSUME docs \in Seq(Nat), NEW d \in DOMAIN docs, NEW i \in 1 .. docs[d]
  PROVE  \E k \in 1 .. Cuts(d) : i - Cut(d, k).start \in 1 .. Cut(d, k).count
<1> DEFINE D == docs[d] - 1
           e == i - 1
           q == e \div SeqLen
           Q == D \div SeqLen
           k == q + 1
<1>1. docs[d] \in Nat /\ D \in Nat /\ e \in Nat /\ e <= D /\ SeqLen \in Nat \ {0} /\ docs[d] # 0
      /\ i = e + 1 /\ docs[d] = D + 1
  OBVIOUS
<1> HIDE DEF D, e
<1>2. q \in Nat /\ q * SeqLen <= e /\ e < q * SeqLen + SeqLen
  BY <1>1, QuotientBounds
<1>3. Q \in Nat /\ D < Q * SeqLen + SeqLen
  BY <1>1, QuotientBounds
<1> HIDE DEF q, Q
<1>4. q <= Q
  <2>1. q * SeqLen \in Nat /\ Q * SeqLen \in Nat
    BY <1>1, <1>2, <1>3
  <2>2. q * SeqLen < Q * SeqLen + SeqLen
    BY <1>1, <1>2, <1>3, <2>1
  <2> QED BY <1>1, <1>2, <1>3, <2>2, TimesOrders
<1>5. k \in 1 .. Cuts(d)
  <2>1. Cuts(d) = Q + 1
    BY <1>1 DEF Cuts, Q, D
  <2> QED BY <1>2, <1>3, <1>4, <2>1
<1>6. /\ Cut(d, k).start = (k - 1) * SeqLen
      /\ Cut(d, k).count = AtMost(docs[d] - Cut(d, k).start, SeqLen)
  BY DEF Cut, Piece
<1>7. k - 1 = q
  BY <1>2
<1>8. Cut(d, k).start = q * SeqLen /\ q * SeqLen \in Nat
  BY <1>1, <1>2, <1>6, <1>7
<1> DEFINE start == q * SeqLen
<1> HIDE DEF start, k
<1>9. i - start \in 1 .. AtMost(docs[d] - start, SeqLen)
  BY <1>1, <1>2, <1>8 DEF AtMost, start
<1> QED BY <1>5, <1>6, <1>8, <1>9 DEF start

LEMMA TokenHasOnePiece ==
  ASSUME docs \in Seq(Nat), NEW d \in DOMAIN docs, NEW i \in Nat,
         NEW k \in 1 .. Cuts(d), i - Cut(d, k).start \in 1 .. Cut(d, k).count,
         NEW l \in 1 .. Cuts(d), i - Cut(d, l).start \in 1 .. Cut(d, l).count
  PROVE  k = l
<1> DEFINE x == k - 1
           y == l - 1
<1>1. Cuts(d) \in Nat /\ SeqLen \in Nat \ {0}
  BY DocumentPiecesAre
<1>2. x \in Nat /\ y \in Nat
  BY <1>1
<1>3. /\ Cut(d, k).start = x * SeqLen /\ Cut(d, k) \in Pieces
      /\ Cut(d, l).start = y * SeqLen /\ Cut(d, l) \in Pieces
  BY CutIs
<1>4. Cut(d, k).count \in 0 .. SeqLen /\ Cut(d, l).count \in 0 .. SeqLen
  BY <1>3 DEF Pieces
<1> HIDE DEF x, y
<1>5. x * SeqLen \in Nat /\ y * SeqLen \in Nat
  BY <1>1, <1>2
<1>6. x * SeqLen < i /\ i <= x * SeqLen + SeqLen /\ y * SeqLen < i /\ i <= y * SeqLen + SeqLen
  <2> DEFINE X == x * SeqLen
             Y == y * SeqLen
             m == Cut(d, k).count
             n == Cut(d, l).count
  <2>1. /\ X \in Nat /\ Y \in Nat /\ m \in 0 .. SeqLen /\ n \in 0 .. SeqLen
        /\ i - X \in 1 .. m /\ i - Y \in 1 .. n /\ SeqLen \in Nat
    BY <1>1, <1>3, <1>4, <1>5
  <2> HIDE DEF X, Y, m, n
  <2>2. X < i /\ i <= X + SeqLen /\ Y < i /\ i <= Y + SeqLen
    BY <2>1
  <2> QED BY <2>2 DEF X, Y
<1>7. x * SeqLen < y * SeqLen + SeqLen /\ y * SeqLen < x * SeqLen + SeqLen
  BY SMTT(30), <1>1, <1>5, <1>6
<1>8. x <= y /\ y <= x
  BY <1>1, <1>2, <1>7, TimesOrders
<1>9. x = y
  BY <1>2, <1>8
<1> QED BY <1>9 DEF x, y

-----------------------------------------------------------------------------
LEMMA PlacesHold ==
  ASSUME NEW rows, NEW pieces, NEW m, OnePlaceEach(rows, pieces, m),
         NEW r, NEW k, NEW piece, IsAt(rows, r, k, piece)
  PROVE  /\ \E n \in 1 .. m : piece = pieces[n]
         /\ k # 1 => ~piece.continues
         /\ \A q, l : IsAt(rows, q, l, piece) => q = r /\ l = k
BY DEF OnePlaceEach

\* The rows of an epoch hold every piece of every document once.
LEMMA EpochHolds ==
  ASSUME NEW seed, AreDocuments(orders[seed])
  PROVE  LET rows == BuildEpoch(seed)
             pieces == PiecesInOrder(orders[seed])
         IN  /\ OnePlaceEach(rows, pieces, Len(pieces))
             /\ \A r \in DOMAIN rows : IsPacked(rows[r])
<1> DEFINE pieces == PiecesInOrder(orders[seed])
           planned == PlannedRows(pieces)
           size == (BatchSize - (Len(planned) % BatchSize)) % BatchSize
           none == <<>>
           padding == [i \in 1 .. size |-> none]
           rows == planned \o padding
<1>1. /\ ArePieces(pieces)
      /\ \A n \in 1 .. Len(pieces) :
           \E d \in DOMAIN docs : \E k \in 1 .. Cuts(d) : pieces[n] = Cut(d, k)
      /\ \A n, m \in 1 .. Len(pieces) : pieces[n] = pieces[m] => n = m
  BY OrderedPiecesAre
<1>2. rows = BuildEpoch(seed) /\ docs \in Seq(Nat)
  BY DEF BuildEpoch, AreDocuments
<1> HIDE DEF pieces
<1>3. AreRows(planned)
  BY <1>1, IndexIsBestFit
<1>4. /\ OnePlaceEach(planned, pieces, Len(pieces))
      /\ \A r \in DOMAIN planned : Filled(planned[r]) \in 1 .. RowTokens
  BY <1>1, EachPieceIsPlanned
<1> HIDE DEF planned
<1>5. Len(planned) \in Nat /\ DOMAIN planned = 1 .. Len(planned) /\ planned = [r \in 1 .. Len(planned) |-> planned[r]]
  BY <1>3 DEF AreRows
<1>6. size \in Nat
  <2>1. BatchSize \in Nat \ {0}
    OBVIOUS
  <2> QED BY <1>5, <2>1, BatchesOf
<1>7. Len(none) = 0 /\ DOMAIN none = {} /\ DOMAIN none = 1 .. Len(none)
  OBVIOUS
<1> HIDE DEF size, none
<1>8. Len(padding) = size /\ \A i \in 1 .. size : padding[i] = none
  BY <1>6
<1> HIDE DEF padding
<1>9. /\ DOMAIN rows = 1 .. Len(planned) + size
      /\ \A r \in 1 .. Len(planned) + size :
           rows[r] = IF r <= Len(planned) THEN planned[r] ELSE padding[r - Len(planned)]
  BY <1>5, <1>6, <1>8
<1> HIDE DEF rows
<1>10. /\ \A r \in DOMAIN planned : r \in DOMAIN rows /\ rows[r] = planned[r]
       /\ \A r \in DOMAIN rows : r \in DOMAIN planned \/ rows[r] = none
  <2>1. ASSUME NEW r \in DOMAIN planned PROVE r \in DOMAIN rows /\ rows[r] = planned[r]
    BY <1>5, <1>6, <1>9
  <2>2. ASSUME NEW r \in DOMAIN rows, r \notin DOMAIN planned PROVE rows[r] = none
    <3>1. r \in 1 .. Len(planned) + size /\ ~(r <= Len(planned)) /\ r - Len(planned) \in 1 .. size
      BY <1>5, <1>6, <1>9, <2>2
    <3> QED BY <1>8, <1>9, <3>1
  <2> QED BY <2>1, <2>2
<1>11. \A r, k, piece : IsAt(rows, r, k, piece) <=> IsAt(planned, r, k, piece)
  BY <1>7, <1>10 DEF IsAt
<1>12. OnePlaceEach(rows, pieces, Len(pieces))
  <2> HIDE DEF rows
  <2> QED BY <1>4, <1>11 DEF OnePlaceEach
<1>13. ASSUME NEW r \in DOMAIN rows PROVE IsPacked(rows[r])
  <2>1. CASE r \in DOMAIN planned
    <3>1. rows[r] = planned[r] /\ Filled(rows[r]) \in 1 .. RowTokens
      BY <1>4, <1>10, <2>1
    <3>2. Len(rows[r]) \in Nat /\ DOMAIN rows[r] = 1 .. Len(rows[r])
      BY <1>3, <1>5, <2>1, <3>1 DEF AreRows, IsRow
    <3>3. ASSUME NEW k \in 1 .. Len(rows[r]) PROVE rows[r][k] \in Pieces
      <4>1. IsAt(rows, r, k, rows[r][k])
        BY <3>2 DEF IsAt
      <4>2. PICK n \in 1 .. Len(pieces) : rows[r][k] = pieces[n]
        <5> DEFINE piece == rows[r][k]
        <5> HIDE DEF rows, piece
        <5>1. IsAt(rows, r, k, piece)
          BY <4>1 DEF piece
        <5>2. \E n \in 1 .. Len(pieces) : piece = pieces[n]
          BY <1>12, <5>1, PlacesHold
        <5> QED BY <5>2 DEF piece
      <4>3. PICK d \in DOMAIN docs : \E l \in 1 .. Cuts(d) : pieces[n] = Cut(d, l)
        BY <1>1
      <4> QED BY <1>2, <4>2, <4>3, CutIs
    <3>4. Filled(rows[r]) \in 0 .. RowTokens
      BY <3>1
    <3> QED BY <1>2, <3>2, <3>3, <3>4 DEF IsPacked
  <2>2. CASE r \notin DOMAIN planned
    <3>1. rows[r] = none
      BY <1>10, <2>2
    <3>2. Filled(none) = 0
      <4>1. Len(Sizes(none)) = 0
        BY <1>7, SizesOfRow
      <4> QED BY <4>1, TotalOfNone DEF Filled
    <3>3. Len(none) \in Nat /\ \A k \in 1 .. Len(none) : none[k] \in Pieces
      BY <1>7
    <3>4. Filled(none) \in 0 .. RowTokens
      BY <3>2
    <3>5. IsPacked(none)
      BY <1>2, <1>7, <3>3, <3>4 DEF IsPacked
    <3> QED BY <3>1, <3>5
  <2> QED BY <2>1, <2>2
<1> QED BY <1>2, <1>12, <1>13 DEF pieces

\* Arithmetic of a token's position in its piece.
LEMMA PositionInPiece ==
  ASSUME NEW i \in Nat, NEW start \in Nat, NEW count \in Nat, i - start \in 1 .. count
  PROVE  i - start \in Nat /\ i - start # 0 /\ i = start + (i - start)
OBVIOUS

Before(i, start, j) ==
  /\ j > 1 => start + (j - 1) = i - 1 /\ i # 1
  /\ ~(j > 1) /\ start > 0 => start = i - 1 /\ i # 1
  /\ ~(j > 1) /\ ~(start > 0) => i = 1

LEMMA PositionBefore ==
  ASSUME NEW i \in Nat, NEW start \in Nat, NEW j \in Nat, j # 0, i = start + j
  PROVE  Before(i, start, j)
BY DEF Before

LEMMA PositionAfter ==
  ASSUME NEW i \in Nat, NEW start \in Nat, NEW j \in Int, start + j = i, NEW count \in Nat,
         j \in 1 .. count
  PROVE  j \in Nat /\ i - start = j
OBVIOUS

LEMMA NothingLeft ==
  ASSUME NEW length \in Nat, NEW start \in Nat, start <= length,
         AtMost(length - start, SeqLen) = 0
  PROVE  start = length
<1>1. SeqLen \in Nat \ {0} /\ length - start \in Nat
  OBVIOUS
<1> QED BY <1>1 DEF AtMost

LEMMA DocumentIsNat == ASSUME docs \in Seq(Nat), NEW d \in DOMAIN docs PROVE d \in Nat \ {0}
OBVIOUS

\* Rows that hold every piece of every document once predict every token
\* once.
LEMMA RowsTeachOnce ==
  ASSUME docs \in Seq(Nat), NEW pieces, OnePlaceEach(loader.rows, pieces, Len(pieces)),
         \A r \in DOMAIN loader.rows : IsPacked(loader.rows[r]),
         \A n \in 1 .. Len(pieces) :
           \E d \in DOMAIN docs : \E k \in 1 .. Cuts(d) : pieces[n] = Cut(d, k),
         \A d \in DOMAIN docs : \A k \in 1 .. Cuts(d) :
           \E n \in 1 .. Len(pieces) : pieces[n] = Cut(d, k)
  PROVE  EveryTokenPredictedOnce
<1> DEFINE rows == loader.rows
\* Every prediction is of a token that a piece brings, or of the BOS after
\* the end of a document.
<1>1. ASSUME NEW p \in Predictions
      PROVE  /\ p = <<p[1], p[2]>> /\ p[1] \in DOMAIN rows
             /\ \E k \in 1 .. Len(rows[p[1]]) :
                  \/ p[2] - PieceOffset(rows[p[1]], k) \in 1 .. rows[p[1]][k].count
                  \/ /\ rows[p[1]][k].ends /\ p[2] = PieceOffset(rows[p[1]], k + 1)
                     /\ p[2] < RowTokens
  <2> DEFINE row == rows[p[1]]
  <2>1. p \in (DOMAIN rows) \X (1 .. SeqLen) /\ p[2] \in Scored(row)
    BY DEF Predictions
  <2>2. p = <<p[1], p[2]>> /\ p[1] \in DOMAIN rows /\ p[2] \in 1 .. SeqLen
    BY <2>1
  <2>3. IsPacked(row)
    BY <2>2
  <2> HIDE DEF rows, row
  <2>4. Len(row) \in Nat /\ DOMAIN row = 1 .. Len(row)
    BY <2>3 DEF IsPacked
  <2>5. PICK k \in 1 .. Len(row) :
          \/ p[2] \in PieceOffset(row, k) + 1 .. PieceOffset(row, k) + row[k].count
          \/ row[k].ends /\ p[2] = PieceOffset(row, k + 1) /\ p[2] < RowTokens
    BY <2>1, <2>4, ScoredIs
  <2>6. p[2] \in PieceOffset(row, k) + 1 .. PieceOffset(row, k) + row[k].count
          => p[2] - PieceOffset(row, k) \in 1 .. row[k].count
    <3>1. PieceOffset(row, k) \in Nat
      <4>1. k \in 1 .. Len(row) + 1
        BY <2>4
      <4>2. PieceOffset(row, k) \in 0 .. Filled(row)
        BY <2>3, <4>1, WindowIs
      <4> QED BY <4>2
    <3>2. row[k].count \in Nat
      BY <2>3 DEF IsPacked, Pieces
    <3> QED BY SMTT(30), <2>2, <3>1, <3>2
  <2>7. /\ p = <<p[1], p[2]>> /\ p[1] \in DOMAIN rows
        /\ \E l \in 1 .. Len(row) :
             \/ p[2] - PieceOffset(row, l) \in 1 .. row[l].count
             \/ row[l].ends /\ p[2] = PieceOffset(row, l + 1) /\ p[2] < RowTokens
    BY <2>2, <2>5, <2>6
  <2> QED BY <2>7 DEF row
<1>2. ASSUME NEW r \in DOMAIN rows, NEW k \in 1 .. Len(rows[r])
      PROVE  /\ IsAt(rows, r, k, rows[r][k])
             /\ \E d \in DOMAIN docs : \E l \in 1 .. Cuts(d) : rows[r][k] = Cut(d, l)
             /\ k # 1 => ~rows[r][k].continues
  <2> DEFINE piece == rows[r][k]
  <2>1. r \in DOMAIN rows /\ k \in DOMAIN rows[r]
    BY DEF IsPacked
  <2>2. OnePlaceEach(rows, pieces, Len(pieces))
    OBVIOUS
  <2> HIDE DEF rows, piece
  <2>3. IsAt(rows, r, k, piece)
    BY <2>1 DEF IsAt, piece
  <2>4. (\E n \in 1 .. Len(pieces) : piece = pieces[n]) /\ (k # 1 => ~piece.continues)
    BY <2>2, <2>3, PlacesHold
  <2>5. PICK n \in 1 .. Len(pieces) : piece = pieces[n]
    BY <2>4
  <2>6. \E d \in DOMAIN docs : \E l \in 1 .. Cuts(d) : piece = Cut(d, l)
    BY <2>5
  <2> QED BY <2>3, <2>4, <2>6 DEF piece
\* What the prediction of a token that a piece brings says.
<1>3. ASSUME NEW p, p[1] \in DOMAIN rows, p[2] \in Nat, NEW k \in 1 .. Len(rows[p[1]]),
             p[2] - PieceOffset(rows[p[1]], k) \in 1 .. rows[p[1]][k].count
      PROVE  LET piece == rows[p[1]][k]
                 j == p[2] - PieceOffset(rows[p[1]], k)
             IN  /\ p[2] \in 1 .. SeqLen
                 /\ Target2(p) = <<piece.doc, piece.start + j>>
                 /\ From(p) = IF j > 1 THEN <<piece.doc, piece.start + (j - 1)>>
                              ELSE IF piece.continues THEN <<piece.doc, piece.start>> ELSE Bos
  <2> DEFINE row == rows[p[1]]
             j == p[2] - PieceOffset(row, k)
             piece == row[k]
  <2>1. IsPacked(row)
    BY <1>3
  <2>2. Target2(p) = Window(row)[p[2] + 1] /\ From(p) = Window(row)[p[2]]
    BY DEF Target2, From
  <2>3. k \in 1 .. Len(row) /\ j \in 1 .. row[k].count
    BY <1>3
  <2> HIDE DEF rows, row
  <2>4. /\ PieceOffset(row, k) + j \in 1 .. SeqLen
        /\ Window(row)[(PieceOffset(row, k) + j) + 1] = <<piece.doc, piece.start + j>>
        /\ Window(row)[PieceOffset(row, k) + j] =
             IF j > 1 THEN <<piece.doc, piece.start + (j - 1)>>
             ELSE IF piece.continues THEN <<piece.doc, piece.start>> ELSE Bos
    <3> HIDE DEF j
    <3> QED BY <2>1, <2>3, BroughtTokens
  <2>5. PieceOffset(row, k) + j = p[2]
    <3>1. Len(row) \in Nat /\ Filled(row) \in Nat
      BY <2>1 DEF IsPacked
    <3>2. k \in 1 .. Len(row) + 1
      BY <2>3, <3>1
    <3>3. PieceOffset(row, k) \in 0 .. Filled(row)
      BY <2>1, <3>2, WindowIs
    <3>4. PieceOffset(row, k) \in Nat /\ p[2] \in Nat
      BY <1>3, <3>1, <3>3
    <3> QED BY <3>4
  <2> QED BY <2>2, <2>4, <2>5 DEF row
\* A token that a piece brings is predicted.
<1>4. ASSUME NEW r \in DOMAIN rows, NEW k \in 1 .. Len(rows[r]), NEW j \in 1 .. rows[r][k].count
      PROVE  /\ <<r, PieceOffset(rows[r], k) + j>> \in Predictions
             /\ PieceOffset(rows[r], k) + j \in Nat
             /\ (PieceOffset(rows[r], k) + j) - PieceOffset(rows[r], k) = j
  <2> DEFINE row == rows[r]
             t == PieceOffset(row, k) + j
  <2>1. IsPacked(row) /\ k \in 1 .. Len(row) /\ j \in 1 .. row[k].count
    OBVIOUS
  <2>2. Predictions = {p \in (DOMAIN rows) \X (1 .. SeqLen) : p[2] \in Scored(rows[p[1]])}
    BY DEF Predictions
  <2> HIDE DEF row
  <2>3. /\ Len(row) \in Nat /\ DOMAIN row = 1 .. Len(row) /\ row[k].count \in Nat
        /\ Filled(row) \in Nat /\ k \in 1 .. Len(row) + 1
    BY <2>1 DEF IsPacked, Pieces
  <2>4. t \in 1 .. SeqLen
    BY <2>1, BroughtTokens
  <2>5. PieceOffset(row, k) \in Nat
    <3>1. PieceOffset(row, k) \in 0 .. Filled(row)
      BY <2>1, <2>3, WindowIs
    <3> QED BY <2>3, <3>1
  <2>6. t \in PieceOffset(row, k) + 1 .. PieceOffset(row, k) + row[k].count /\ t - PieceOffset(row, k) = j
    BY SMTT(30), <2>1, <2>3, <2>5
  <2>7. t \in Scored(row)
    BY <2>1, <2>3, <2>6, ScoredIs
  <2> HIDE DEF t
  <2>8. <<r, t>> \in (DOMAIN rows) \X (1 .. SeqLen)
    BY <2>4
  <2>9. <<r, t>> \in Predictions
    BY <2>2, <2>7, <2>8 DEF row
  <2>10. t \in Nat
    BY <2>4
  <2> QED BY <2>6, <2>9, <2>10 DEF t, row
\* The prediction after a piece that ends its document.
<1>5. ASSUME NEW p, p[1] \in DOMAIN rows, NEW k \in 1 .. Len(rows[p[1]]),
             p[2] = PieceOffset(rows[p[1]], k + 1), p[2] < RowTokens
      PROVE  LET piece == rows[p[1]][k]
             IN  /\ Target2(p) = Bos
                 /\ From(p) = IF piece.count > 0 THEN <<piece.doc, piece.start + piece.count>>
                              ELSE IF piece.continues THEN <<piece.doc, piece.start>> ELSE Bos
  <2> DEFINE row == rows[p[1]]
             piece == row[k]
  <2>1. IsPacked(row)
    BY <1>5
  <2>2. Target2(p) = Window(row)[p[2] + 1] /\ From(p) = Window(row)[p[2]]
    BY DEF Target2, From
  <2>3. \A l \in 1 .. Len(row) : l # 1 => ~row[l].continues
    BY <1>2, <1>5
  <2>4. k \in 1 .. Len(row) /\ p[2] = PieceOffset(row, k + 1) /\ PieceOffset(row, k + 1) < RowTokens
    BY <1>5
  <2> HIDE DEF rows, row
  <2>5. /\ Window(row)[PieceOffset(row, k + 1) + 1] = Bos
        /\ Window(row)[PieceOffset(row, k + 1)] =
             IF piece.count > 0 THEN <<piece.doc, piece.start + piece.count>>
             ELSE IF piece.continues THEN <<piece.doc, piece.start>> ELSE Bos
    BY <2>1, <2>3, <2>4, EndIsBos
  <2> QED BY <2>2, <2>4, <2>5 DEF row
\* The prediction of a token is the one its piece brings.
<1>6. ASSUME NEW p \in Predictions, NEW d \in DOMAIN docs, NEW i \in 1 .. docs[d],
             Target2(p) = <<d, i>>
      PROVE  \E k \in 1 .. Len(rows[p[1]]) :
               /\ p[2] - PieceOffset(rows[p[1]], k) \in 1 .. rows[p[1]][k].count
               /\ rows[p[1]][k].doc = d
               /\ rows[p[1]][k].start + (p[2] - PieceOffset(rows[p[1]], k)) = i
  <2>1. p[1] \in DOMAIN rows /\ p[2] \in Nat
    BY DEF Predictions
  <2>2. PICK k \in 1 .. Len(rows[p[1]]) :
          \/ p[2] - PieceOffset(rows[p[1]], k) \in 1 .. rows[p[1]][k].count
          \/ /\ rows[p[1]][k].ends /\ p[2] = PieceOffset(rows[p[1]], k + 1)
             /\ p[2] < RowTokens
    BY <1>1
  <2>3. <<d, i>> # Bos
    BY DEF Bos
  <2> HIDE DEF rows
  <2>4. ~(p[2] = PieceOffset(rows[p[1]], k + 1) /\ p[2] < RowTokens)
    BY <1>5, <1>6, <2>1, <2>3
  <2>5. p[2] - PieceOffset(rows[p[1]], k) \in 1 .. rows[p[1]][k].count
    BY <2>2, <2>4
  <2> DEFINE doc == rows[p[1]][k].doc
             place == rows[p[1]][k].start + (p[2] - PieceOffset(rows[p[1]], k))
  <2>6. Target2(p) = <<doc, place>>
    BY <1>3, <2>1, <2>5
  <2> HIDE DEF doc, place
  <2>7. doc = d /\ place = i
    BY <1>6, <2>6
  <2> QED BY <2>5, <2>7 DEF doc, place
<1>7. ASSUME NEW d \in DOMAIN docs, NEW i \in 1 .. docs[d]
      PROVE  \E p \in Predictions :
               /\ Target2(p) = <<d, i>> /\ From(p) = (IF i = 1 THEN Bos ELSE <<d, i - 1>>)
               /\ \A q \in Predictions : Target2(q) = Target2(p) => q = p
  <2>1. PICK l \in 1 .. Cuts(d) : i - Cut(d, l).start \in 1 .. Cut(d, l).count
    BY TokenHasPiece
  <2> DEFINE piece == Cut(d, l)
             j == i - piece.start
  <2>2. /\ piece \in Pieces /\ piece.doc = d /\ piece.start \in Nat /\ piece.count \in Nat
        /\ piece.continues = (piece.start > 0)
    BY CutIs DEF Pieces
  <2>3. PICK n \in 1 .. Len(pieces) : pieces[n] = piece
    OBVIOUS
  <2>4. PICK r, k : IsAt(rows, r, k, piece)
    <3> HIDE DEF rows, piece
    <3>1. OnePlaceEach(rows, pieces, Len(pieces))
      BY DEF rows
    <3>2. \E r, k : IsAt(rows, r, k, pieces[n])
      BY <2>3, <3>1 DEF OnePlaceEach
    <3> QED BY <2>3, <3>2
  <2>13. docs[d] \in Nat /\ i \in 1 .. docs[d] /\ i \in Nat
    BY CutIs
  <2>5. r \in DOMAIN rows /\ k \in 1 .. Len(rows[r]) /\ rows[r][k] = piece
    BY <2>4 DEF IsAt, IsPacked
  <2>6. OnePlaceEach(rows, pieces, Len(pieces))
    OBVIOUS
  <2> HIDE DEF rows
  <2> DEFINE at == PieceOffset(rows[r], k)
             p == <<r, at + j>>
  <2>7. j \in 1 .. rows[r][k].count /\ j \in Nat /\ i = piece.start + j /\ j # 0
    <3>1. j \in 1 .. piece.count
      BY <2>1
    <3> HIDE DEF piece
    <3>2. j \in Nat /\ j # 0 /\ i = piece.start + j
      BY <2>2, <2>13, <3>1, PositionInPiece
    <3> QED BY <2>5, <3>1, <3>2
  <2>8. p \in Predictions /\ p[1] = r /\ p[2] = at + j /\ p[2] \in Nat /\ p[2] - at = j
    BY <1>4, <2>5, <2>7
  <2> HIDE DEF piece, j, p, at
  <2>9. /\ Target2(p) = <<piece.doc, piece.start + j>>
        /\ From(p) = IF j > 1 THEN <<piece.doc, piece.start + (j - 1)>>
                     ELSE IF piece.continues THEN <<piece.doc, piece.start>> ELSE Bos
    BY <1>3, <2>5, <2>7, <2>8 DEF at
  <2>10. Target2(p) = <<d, i>>
    BY <2>2, <2>7, <2>9
  <2>11. From(p) = (IF i = 1 THEN Bos ELSE <<d, i - 1>>)
    <3>1. /\ j > 1 => piece.start + (j - 1) = i - 1 /\ i # 1
          /\ ~(j > 1) /\ piece.start > 0 => piece.start = i - 1 /\ i # 1
          /\ ~(j > 1) /\ ~(piece.start > 0) => i = 1
      <4> DEFINE start == piece.start
      <4>1. start \in Nat /\ i \in Nat /\ j \in Nat /\ j # 0 /\ i = start + j
        BY <2>2, <2>7, <2>13
      <4> HIDE DEF start
      <4>2. Before(i, start, j)
        BY <4>1, PositionBefore
      <4> QED BY <4>2 DEF start, Before
    <3>2. CASE j > 1
      BY <2>2, <2>9, <3>1, <3>2
    <3>3. CASE ~(j > 1) /\ piece.start > 0
      BY <2>2, <2>9, <3>1, <3>3
    <3>4. CASE ~(j > 1) /\ ~(piece.start > 0)
      BY <2>2, <2>9, <3>1, <3>4
    <3> QED BY <3>2, <3>3, <3>4
  <2>12. ASSUME NEW q \in Predictions, Target2(q) = Target2(p) PROVE q = p
    <3>1. q = <<q[1], q[2]>> /\ q[1] \in DOMAIN rows /\ q[2] \in Nat
      <4>1. q = <<q[1], q[2]>> /\ q[1] \in DOMAIN rows
        BY <1>1
      <4>2. q \in (DOMAIN loader.rows) \X (1 .. SeqLen)
        BY DEF Predictions
      <4>3. q[2] \in Nat
        BY <4>2
      <4> QED BY <4>1, <4>3
    <3>2. PICK m \in 1 .. Len(rows[q[1]]) :
            /\ q[2] - PieceOffset(rows[q[1]], m) \in 1 .. rows[q[1]][m].count
            /\ rows[q[1]][m].doc = d
            /\ rows[q[1]][m].start + (q[2] - PieceOffset(rows[q[1]], m)) = i
      BY <1>6, <2>10, <2>12
    <3> DEFINE other == rows[q[1]][m]
               there == PieceOffset(rows[q[1]], m)
               v == q[2] - there
    <3>3. v \in 1 .. other.count /\ other.doc = d /\ other.start + v = i
      BY <3>2
    <3>4. /\ IsAt(rows, q[1], m, other)
          /\ \E e \in DOMAIN docs : \E x \in 1 .. Cuts(e) : other = Cut(e, x)
      BY <1>2, <3>1, <3>2
    <3>5. there \in Nat
      <4>1. IsPacked(rows[q[1]])
        BY <3>1 DEF rows
      <4> DEFINE row == rows[q[1]]
      <4> HIDE DEF row
      <4>2. Len(row) \in Nat /\ Filled(row) \in Nat
        BY <4>1 DEF IsPacked, row
      <4>3. m \in 1 .. Len(row) + 1
        <5>1. m \in 1 .. Len(row)
          BY <3>2 DEF row
        <5> QED BY <4>2, <5>1
      <4>4. PieceOffset(row, m) \in 0 .. Filled(row)
        BY <4>1, <4>3, WindowIs DEF row
      <4> QED BY <4>2, <4>4 DEF row
    <3>6. q[2] = there + v
      BY <3>1, <3>5
    <3> HIDE DEF other, there, v
    <3>7. PICK e \in DOMAIN docs : \E x \in 1 .. Cuts(e) : other = Cut(e, x)
      BY <3>4
    <3>14. PICK x \in 1 .. Cuts(e) : other = Cut(e, x)
      BY <3>7
    <3>8. other.start \in Nat /\ other.count \in Nat /\ e = d
      <4> DEFINE cut == Cut(e, x)
      <4>1. cut \in Pieces /\ cut.doc = e
        BY ZenonT(60), <3>14, CutIs
      <4> HIDE DEF cut
      <4>2. cut.start \in Nat /\ cut.count \in Nat
        BY <4>1 DEF Pieces
      <4>3. other = cut
        BY <3>14 DEF cut
      <4> QED BY <3>3, <4>1, <4>2, <4>3
    <3>9. v \in Nat /\ i - other.start = v
      <4> DEFINE start == other.start
                 count == other.count
      <4>1. start \in Nat /\ count \in Nat /\ i \in Nat /\ v \in 1 .. count /\ start + v = i
        BY <2>13, <3>3, <3>8
      <4> HIDE DEF start, count
      <4>2. v \in Int
        BY <4>1
      <4>3. v \in Nat /\ i - start = v
        BY <4>1, <4>2, PositionAfter
      <4> QED BY <4>3 DEF start
    <3>10. x = l
      <4>1. i - Cut(d, x).start \in 1 .. Cut(d, x).count
        BY <3>3, <3>14, <3>8, <3>9
      <4>2. i - Cut(d, l).start \in 1 .. Cut(d, l).count
        BY <2>1
      <4>3. x \in 1 .. Cuts(d) /\ i \in Nat
        BY <3>14, <3>8
      <4> QED BY ZenonT(60), <4>1, <4>2, <4>3, TokenHasOnePiece
    <3>11. other = piece
      BY <3>14, <3>8, <3>10 DEF piece
    <3>12. q[1] = r /\ m = k
      <4>1. IsAt(rows, q[1], m, piece)
        BY <3>4, <3>11
      <4>2. \A row, place : IsAt(rows, row, place, piece) => row = r /\ place = k
        BY <2>4, <2>6, PlacesHold
      <4> QED BY <4>1, <4>2
    <3>13. there = at /\ v = j
      <4>1. there = at
        BY <3>12 DEF there, at
      <4>2. v = j
        BY <3>9, <3>11 DEF j
      <4> QED BY <4>1, <4>2
    <3> QED BY <3>1, <3>6, <3>12, <3>13 DEF p
  <2> QED BY <2>8, <2>10, <2>11, <2>12
<1>8. ASSUME NEW p \in Predictions, Target2(p) = Bos
      PROVE  From(p) = Bos \/ From(p) = <<From(p)[1], docs[From(p)[1]]>>
  <2>1. p[1] \in DOMAIN rows /\ p[2] \in Nat
    BY DEF Predictions
  <2> HIDE DEF rows
  <2>2. PICK k \in 1 .. Len(rows[p[1]]) :
          \/ p[2] - PieceOffset(rows[p[1]], k) \in 1 .. rows[p[1]][k].count
          \/ /\ rows[p[1]][k].ends /\ p[2] = PieceOffset(rows[p[1]], k + 1)
             /\ p[2] < RowTokens
    BY <1>1
  <2> DEFINE piece == rows[p[1]][k]
             j == p[2] - PieceOffset(rows[p[1]], k)
  <2>3. PICK d \in DOMAIN docs : \E l \in 1 .. Cuts(d) : piece = Cut(d, l)
    BY <1>2, <2>1
  <2>10. PICK l \in 1 .. Cuts(d) : piece = Cut(d, l)
    BY <2>3
  <2>4. /\ piece.doc = d /\ d \in Nat \ {0} /\ docs[d] \in Nat
        /\ piece.start \in Nat /\ piece.count \in Nat
        /\ piece.start <= docs[d] /\ (piece.start = docs[d] => docs[d] = 0)
        /\ piece.count = AtMost(docs[d] - piece.start, SeqLen)
        /\ (piece.start = 0 => ~piece.continues)
        /\ piece.ends = (piece.start + piece.count = docs[d])
    <3> DEFINE cut == Cut(d, l)
    <3>1. /\ cut.doc = d /\ cut \in Pieces /\ docs[d] \in Nat
          /\ cut.start <= docs[d] /\ (cut.start = docs[d] => docs[d] = 0)
          /\ cut.count = AtMost(docs[d] - cut.start, SeqLen)
          /\ cut.continues = (cut.start > 0)
          /\ cut.ends = (cut.start + cut.count = docs[d])
      BY CutIs
    <3> HIDE DEF cut, piece
    <3>2. cut.start \in Nat /\ cut.count \in Nat /\ (cut.start = 0 => ~cut.continues)
      <4>1. cut.start \in Nat /\ cut.count \in Nat
        BY <3>1 DEF Pieces
      <4>2. cut.start = 0 => ~(cut.start > 0)
        BY <4>1
      <4> QED BY <3>1, <4>1, <4>2
    <3>3. piece = cut
      BY <2>10 DEF cut
    <3>4. d \in Nat \ {0}
      BY DocumentIsNat
    <3> QED BY <3>1, <3>2, <3>3, <3>4
  <2>5. j \notin 1 .. piece.count
    <3> SUFFICES ASSUME j \in 1 .. piece.count PROVE FALSE
      OBVIOUS
    <3>1. Target2(p) = <<piece.doc, piece.start + j>>
      BY <1>3, <2>1
    <3> HIDE DEF piece, j
    <3>2. piece.doc # 0
      BY <2>4
    <3> QED BY SMTT(30), <1>8, <3>1, <3>2 DEF Bos
  <2>6. piece.ends /\ p[2] = PieceOffset(rows[p[1]], k + 1) /\ p[2] < RowTokens
    BY <2>2, <2>5
  <2>7. From(p) = IF piece.count > 0 THEN <<piece.doc, piece.start + piece.count>>
                  ELSE IF piece.continues THEN <<piece.doc, piece.start>> ELSE Bos
    BY <1>5, <2>1, <2>6
  <2> HIDE DEF piece
  <2>8. CASE piece.count > 0
    <3>1. From(p) = <<d, docs[d]>>
      BY <2>4, <2>6, <2>7, <2>8
    <3>2. From(p)[1] = d
      BY <3>1
    <3> QED BY <3>1, <3>2
  <2>9. CASE ~(piece.count > 0)
    <3>1. piece.count = 0
      BY <2>4, <2>9
    <3>2. piece.start = docs[d]
      BY <2>4, <3>1, NothingLeft
    <3>3. piece.start = 0
      BY <2>4, <3>2
    <3>4. ~piece.continues
      BY <2>4, <3>3
    <3> QED BY <2>7, <2>9, <3>4
  <2> QED BY <2>8, <2>9
<1> QED BY <1>7, <1>8 DEF EveryTokenPredictedOnce

-----------------------------------------------------------------------------
(***************************************************************************)
(* The windows of two shards of a and b tokens.                            *)
(***************************************************************************)
LEMMA LengthsAre ==
  ASSUME docs \in Seq(Nat)
  PROVE  \E a, b \in Nat : Lengths2 = <<a, b>>
<1> DEFINE first == SubSeq(docs, 1, AtMost(FirstShard, Len(docs)))
           second == SubSeq(docs, FirstShard + 1, Len(docs))
<1>1. AtMost(FirstShard, Len(docs)) \in 0 .. Len(docs) /\ FirstShard \in Nat /\ Len(docs) \in Nat
  BY DEF AtMost
<1>2. first \in Seq(Nat) /\ second \in Seq(Nat)
  <2>1. first \in Seq(Nat)
    BY <1>1, SubSeqProperties
  <2>2. second \in Seq(Nat)
    BY <1>1, SubSeqProperties
  <2> QED BY <2>1, <2>2
<1> HIDE DEF first, second
<1>3. /\ Len(first) \in Nat /\ \A n \in 1 .. Len(first) : first[n] \in Nat
      /\ Len(second) \in Nat /\ \A n \in 1 .. Len(second) : second[n] \in Nat
  BY <1>2
<1>4. Total(first) \in Nat /\ Total(second) \in Nat
  BY <1>3, TotalIsNat
<1>5. Lengths2 = <<Total(first), Total(second)>>
  BY DEF Lengths2, first, second
<1> QED BY <1>4, <1>5

LEMMA TotalOfOneOrTwo ==
  /\ \A s : Len(s) = 1 /\ s[1] \in Nat => Total(s) = s[1]
  /\ \A s : Len(s) = 2 /\ s[1] \in Nat /\ s[2] \in Nat => Total(s) = s[1] + s[2]
<1>1. ASSUME NEW s, Len(s) = 1, s[1] \in Nat PROVE Total(s) = s[1]
  <2>4. Len(s) \in Nat
    BY <1>1
  <2>1. PICK f : Summed(f, s) /\ Total(s) = f[1]
    BY <1>1, <2>4, TotalIsSum
  <2>2. 1 \in 1 .. Len(s) /\ 1 - 1 = 0
    BY <1>1
  <2>3. f[0] = 0 /\ f[1] = f[0] + s[1]
    BY <2>1, <2>2 DEF Summed
  <2> QED BY <1>1, <2>1, <2>3
<1>2. ASSUME NEW s, Len(s) = 2, s[1] \in Nat, s[2] \in Nat PROVE Total(s) = s[1] + s[2]
  <2>4. Len(s) \in Nat
    BY <1>2
  <2>1. PICK f : Summed(f, s) /\ Total(s) = f[2]
    BY <1>2, <2>4, TotalIsSum
  <2>2. 1 \in 1 .. Len(s) /\ 1 - 1 = 0 /\ 2 \in 1 .. Len(s) /\ 2 - 1 = 1
    BY <1>2
  <2>3. f[0] = 0 /\ f[1] = f[0] + s[1] /\ f[2] = f[1] + s[2]
    BY <2>1, <2>2 DEF Summed
  <2> QED BY <1>2, <2>1, <2>3
<1> QED BY <1>1, <1>2

LEMMA StartsAre ==
  ASSUME NEW a \in Nat, NEW b \in Nat, Lengths2 = <<a, b>>
  PROVE  /\ Starts(a) \in Nat /\ Starts(b) \in Nat
         /\ DOMAIN CumulativeStarts = {1, 2} /\ CumulativeStarts[1] = Starts(a)
         /\ CumulativeStarts[2] = Starts(a) + Starts(b)
         /\ ValidStarts = Starts(a) + Starts(b)
<1> DEFINE s1 == [i \in 1 .. 1 |-> Starts(Lengths2[i])]
           s2 == [i \in 1 .. 2 |-> Starts(Lengths2[i])]
           C == CumulativeStarts
<1>1. Starts(a) \in Nat /\ Starts(b) \in Nat
  <2>1. SeqLen \in Nat
    OBVIOUS
  <2> QED BY <2>1 DEF Starts
<1>2. Lengths2[1] = a /\ Lengths2[2] = b /\ DOMAIN Lengths2 = {1, 2} /\ {1, 2} = 1 .. 2
  OBVIOUS
<1>3. DOMAIN C = {1, 2} /\ C[1] = Total(s1) /\ C[2] = Total(s2) /\ Len(C) = 2
  <2>1. C = [s \in 1 .. 2 |-> Total([i \in 1 .. s |-> Starts(Lengths2[i])])]
    BY <1>2 DEF CumulativeStarts
  <2>2. 1 \in 1 .. 2 /\ 2 \in 1 .. 2
    OBVIOUS
  <2> HIDE DEF C
  <2>3. C[1] = Total(s1) /\ C[2] = Total(s2) /\ DOMAIN C = 1 .. 2
    BY <2>1, <2>2
  <2>4. Len(C) = 2
    BY <2>1
  <2> QED BY <1>2, <2>3, <2>4
<1>4. /\ Len(s1) = 1 /\ s1[1] = Starts(a)
      /\ Len(s2) = 2 /\ s2[1] = Starts(a) /\ s2[2] = Starts(b)
  BY <1>2
<1> HIDE DEF s1, s2
<1>5. Total(s2) = Starts(a) + Starts(b)
  BY <1>1, <1>4, TotalOfOneOrTwo
<1>6. Total(s1) = Starts(a)
  BY <1>1, <1>4, TotalOfOneOrTwo
<1>7. ValidStarts = C[2]
  BY <1>3 DEF ValidStarts
<1> QED BY <1>1, <1>3, <1>5, <1>6, <1>7

LEMMA LocateIs ==
  ASSUME NEW a \in Nat, NEW b \in Nat, Lengths2 = <<a, b>>, NEW o \in 0 .. ValidStarts - 1
  PROVE  Locate(o) = IF o < Starts(a) THEN <<1, o>> ELSE <<2, o - Starts(a)>>
<1> DEFINE C == CumulativeStarts
           below == {s \in DOMAIN C : C[s] <= o}
<1>1. /\ Starts(a) \in Nat /\ Starts(b) \in Nat /\ DOMAIN C = {1, 2} /\ C[1] = Starts(a)
      /\ C[2] = Starts(a) + Starts(b) /\ ValidStarts = Starts(a) + Starts(b)
  BY StartsAre
<1>2. Locate(o) = <<Cardinality(below) + 1,
                    o - (IF Cardinality(below) + 1 = 1 THEN 0
                         ELSE C[(Cardinality(below) + 1) - 1])>>
  BY DEF Locate
<1> DEFINE A == Starts(a)
           B == Starts(b)
           V == ValidStarts
<1> HIDE DEF C, A, B, V
<1>3. A \in Nat /\ B \in Nat /\ C[1] = A /\ C[2] = A + B /\ V = A + B /\ DOMAIN C = {1, 2}
  BY <1>1 DEF A, B, V
<1>4. o \in 0 .. V - 1
  BY DEF V
<1>5. o \in Nat /\ o < A + B
  BY <1>3, <1>4
<1>6. 2 \notin below /\ (1 \in below <=> A <= o) /\ \A x \in below : x = 1 \/ x = 2
  BY <1>3, <1>5
<1>7. CASE o < A
  <2>1. below = {}
    BY <1>3, <1>5, <1>6, <1>7
  <2> HIDE DEF below
  <2>2. Cardinality(below) = 0
    BY <2>1, FS_EmptySet
  <2>3. Locate(o) = <<1, o>>
    BY <1>2, <1>5, <2>2
  <2> QED BY <1>7, <2>3 DEF A
<1>8. CASE ~(o < A)
  <2>1. below = {1}
    BY <1>3, <1>5, <1>6, <1>8
  <2> HIDE DEF below
  <2>2. Cardinality(below) = 1
    BY <2>1, FS_Singleton
  <2>3. Locate(o) = <<2, o - A>>
    BY <1>2, <1>3, <1>5, <2>2
  <2> QED BY <1>8, <2>3 DEF A
<1> QED BY <1>7, <1>8

LEMMA WindowsAreDrawn == docs \in Seq(Nat) => WindowsAreUniform
<1> SUFFICES ASSUME docs \in Seq(Nat) PROVE WindowsAreUniform
  OBVIOUS
<1>1. PICK a, b \in Nat : Lengths2 = <<a, b>>
  BY LengthsAre
<1> DEFINE A == Starts(a)
           B == Starts(b)
           V == ValidStarts
           first == {1} \X (0 .. A - 1)
           second == {2} \X (0 .. B - 1)
           windows == UNION {{s} \X (0 .. Starts(Lengths2[s]) - 1) : s \in DOMAIN Lengths2}
           offsets == 0 .. V - 1
           drawn == {Locate(o) : o \in offsets}
<1>2. A \in Nat /\ B \in Nat /\ V = A + B
  BY <1>1, StartsAre
<1>3. windows = first \cup second
  <2>1. DOMAIN Lengths2 = {1, 2} /\ Starts(Lengths2[1]) = A /\ Starts(Lengths2[2]) = B
    BY <1>1
  <2> HIDE DEF A, B
  <2> DEFINE of(s) == {s} \X (0 .. Starts(Lengths2[s]) - 1)
  <2>2. of(1) = first /\ of(2) = second
    BY <2>1
  <2>3. windows = UNION {of(s) : s \in {1, 2}}
    BY <2>1
  <2> HIDE DEF of, first, second, windows
  <2>4. UNION {of(s) : s \in {1, 2}} = of(1) \cup of(2)
    OBVIOUS
  <2> QED BY <2>2, <2>3, <2>4
<1>4. \A o \in offsets : Locate(o) = IF o < A THEN <<1, o>> ELSE <<2, o - A>>
  BY <1>1, LocateIs
<1> HIDE DEF A, B, V, windows
<1>5. drawn = windows
  <2>1. ASSUME NEW o \in offsets PROVE Locate(o) \in first \cup second
    <3>1. o \in 0 .. (A + B) - 1
      BY <1>2
    <3>2. CASE o < A
      <4>1. o \in 0 .. A - 1 /\ Locate(o) = <<1, o>>
        BY <1>2, <1>4, <3>1, <3>2
      <4> QED BY <4>1
    <3>3. CASE ~(o < A)
      <4>1. o - A \in 0 .. B - 1 /\ Locate(o) = <<2, o - A>>
        BY <1>2, <1>4, <3>1, <3>3
      <4> QED BY <4>1
    <3> QED BY <3>2, <3>3
  <2>2. ASSUME NEW w \in first \cup second PROVE \E o \in offsets : w = Locate(o)
    <3>1. CASE w \in first
      <4>1. PICK o \in 0 .. A - 1 : w = <<1, o>>
        BY <3>1
      <4>2. o \in offsets /\ o < A
        BY <1>2, <4>1
      <4> QED BY <1>4, <4>1, <4>2
    <3>2. CASE w \in second
      <4>1. PICK o \in 0 .. B - 1 : w = <<2, o>>
        BY <3>2
      <4>2. o + A \in offsets /\ ~(o + A < A) /\ (o + A) - A = o
        BY <1>2, <4>1
      <4>3. w = Locate(o + A)
        BY <1>4, <4>1, <4>2
      <4> QED BY <4>2, <4>3
    <3> QED BY <3>1, <3>2
  <2> HIDE DEF first, second, offsets
  <2> QED BY <1>3, <2>1, <2>2
<1>6. Cardinality(offsets) = A + B
  <2>1. 0 \in Int /\ V - 1 \in Int
    BY <1>2
  <2>2. Cardinality(offsets) = IF 0 > V - 1 THEN 0 ELSE ((V - 1) - 0) + 1
    BY <2>1, FS_Interval
  <2> QED BY <1>2, <2>2
<1>7. Cardinality(windows) = A + B
  <2> DEFINE X == 0 .. A - 1
             Y == 0 .. B - 1
  <2>1. IsFiniteSet(X) /\ Cardinality(X) = A
    <3>1. 0 \in Int /\ A - 1 \in Int
      BY <1>2
    <3>2. Cardinality(X) = IF 0 > A - 1 THEN 0 ELSE ((A - 1) - 0) + 1
      BY <3>1, FS_Interval
    <3> QED BY <1>2, <3>1, <3>2, FS_Interval
  <2>2. IsFiniteSet(Y) /\ Cardinality(Y) = B
    <3>1. 0 \in Int /\ B - 1 \in Int
      BY <1>2
    <3>2. Cardinality(Y) = IF 0 > B - 1 THEN 0 ELSE ((B - 1) - 0) + 1
      BY <3>1, FS_Interval
    <3> QED BY <1>2, <3>1, <3>2, FS_Interval
  <2> HIDE DEF X, Y
  <2>3. /\ IsFiniteSet(first) /\ Cardinality(first) = 1 * A
        /\ IsFiniteSet(second) /\ Cardinality(second) = 1 * B
    <3>1. /\ IsFiniteSet({1} \X X) /\ Cardinality({1} \X X) = Cardinality({1}) * A
          /\ IsFiniteSet({2} \X Y) /\ Cardinality({2} \X Y) = Cardinality({2}) * B
      BY <2>1, <2>2, FS_Product, FS_Singleton
    <3>2. Cardinality({1}) = 1 /\ Cardinality({2}) = 1
      BY FS_Singleton
    <3> QED BY <3>1, <3>2 DEF X, Y
  <2>4. first \cap second = {}
    OBVIOUS
  <2> HIDE DEF first, second
  <2>5. Cardinality(first \cup second)
          = Cardinality(first) + Cardinality(second) - Cardinality(first \cap second)
    BY <2>3, FS_Union
  <2>6. Cardinality(first \cap second) = 0
    BY <2>4, FS_EmptySet
  <2> QED BY <1>2, <1>3, <2>3, <2>5, <2>6
<1>8. drawn = windows /\ Cardinality(offsets) = Cardinality(windows)
  BY <1>5, <1>6, <1>7
<1> QED BY <1>8 DEF WindowsAreUniform, windows, V

\* What the loaders deliver is the corpus: every window of the flat loader is
\* drawn by one offset, and an epoch of packed rows predicts every token once,
\* from the token before it.
THEOREM BatchesAreExactHolds == LoaderSpec => []BatchesAreExact
<1>1. LoaderInv => BatchesAreExact
  <2> SUFFICES ASSUME LoaderInv PROVE BatchesAreExact
    OBVIOUS
  <2>1. CASE loader.strategy = "flat"
    <3>1. 1 \in 1 .. MaxEpochs
      OBVIOUS
    <3>2. docs \in Seq(Nat)
      BY <3>1 DEF LoaderInv, CorpusOK, AreDocuments
    <3> QED BY <2>1, <3>2, WindowsAreDrawn DEF BatchesAreExact
  <2>2. CASE loader.strategy = "packed"
    <3> DEFINE pieces == PiecesInOrder(orders[loader.seed])
               rows == loader.rows
    <3>1. loader.seed \in 1 .. MaxEpochs /\ rows = BuildEpoch(loader.seed)
      BY <2>2 DEF LoaderInv, LoaderOK, Placed
    <3>2. AreDocuments(orders[loader.seed])
      BY <3>1 DEF LoaderInv, CorpusOK
    <3>3. docs \in Seq(Nat)
      BY <3>2 DEF AreDocuments
    <3>4. /\ \A n \in 1 .. Len(pieces) :
               \E d \in DOMAIN docs : \E k \in 1 .. Cuts(d) : pieces[n] = Cut(d, k)
          /\ \A d \in DOMAIN docs : \A k \in 1 .. Cuts(d) :
               \E n \in 1 .. Len(pieces) : pieces[n] = Cut(d, k)
      BY <3>2, OrderedPiecesAre
    <3>5. OnePlaceEach(rows, pieces, Len(pieces)) /\ \A r \in DOMAIN rows : IsPacked(rows[r])
      BY <3>1, <3>2, EpochHolds
    <3> HIDE DEF pieces
    <3>6. EveryTokenPredictedOnce
      BY <3>3, <3>4, <3>5, RowsTeachOnce
    <3> QED BY <2>2, <3>6 DEF BatchesAreExact
  <2> QED BY <2>1, <2>2 DEF LoaderInv, LoaderOK
<1> QED BY LoaderInvAlways, <1>1, PTL

\* The three together: a loader resumes where it was, plans as the reference
\* does and delivers the corpus.
THEOREM LoaderIsExactHolds == LoaderSpec => []LoaderIsExact
<1>1. ResumesExactly /\ PlanIsBestFit /\ BatchesAreExact => LoaderIsExact
  BY DEF LoaderIsExact
<1> QED BY ResumesExactlyHolds, PlanIsBestFitHolds, BatchesAreExactHolds, <1>1, PTL

\* The loader and its checkpoints have their types, and a row to come is one
\* of the epoch's.
THEOREM LoaderTypeHolds == LoaderSpec => []LoaderTypeOK
<1>1. LoaderInv => LoaderTypeOK
  <2> SUFFICES ASSUME LoaderInv PROVE LoaderTypeOK
    OBVIOUS
  <2>1. /\ loader.strategy \in {"flat", "packed"} /\ loader.position \in Nat
        /\ loader.draws \in Nat /\ stored.dataset \in {"none", "this", "other"}
    BY DEF LoaderInv, LoaderOK, StoredOK
  <2>2. CASE loader.strategy = "flat"
    <3> DEFINE none == <<>>
    <3>1. Len(none) = 0
      OBVIOUS
    <3> HIDE DEF none
    <3>2. loader.rows = none /\ loader.row = 0
      BY <2>2 DEF LoaderInv, LoaderOK, none
    <3> QED BY <2>1, <3>1, <3>2 DEF LoaderTypeOK
  <2>3. CASE loader.strategy = "packed"
    <3>1. loader.rows = BuildEpoch(loader.seed) /\ loader.row \in 0 .. Len(BuildEpoch(loader.seed))
      BY <2>3 DEF LoaderInv, LoaderOK, Placed
    <3> QED BY <2>1, <3>1 DEF LoaderTypeOK
  <2> QED BY <2>1, <2>2, <2>3
<1> QED BY LoaderInvAlways, <1>1, PTL
=============================================================================
