--------------------------- MODULE ShardDownload ---------------------------
(***************************************************************************)
(* The ClimbMix downloader (data/climbmix.py).  A command makes a planned  *)
(* list of shards ready, one after the other: each is streamed into a      *)
(* `.part` file, resumed with a range request where an earlier attempt or  *)
(* an earlier process stopped, and renamed when it has its declared size.  *)
(*                                                                         *)
(* A file is the sequence of the remote bytes in it, a byte being its      *)
(* position in the shard.  The server may answer a request in any way that *)
(* is true of the shard: it ignores ranges, answers other ranges, loses    *)
(* headers, cuts or overruns bodies.                                       *)
(***************************************************************************)
EXTENDS Integers, Sequences

CONSTANTS ValidationIndex,  \* CLIMBMIX_FINAL_VALIDATION_SHARD_INDEX (6542)
          ShardSize,        \* bytes of a shard
          MaxAttempts,      \* --max-attempts
          MaxDownloads      \* bound on the download commands explored

ASSUME ShardAssumption ==
  ValidationIndex \in Nat /\ ShardSize \in Nat \ {0}
ASSUME AttemptsAssumption == MaxAttempts \in Nat \ {0}
ASSUME DownloadsAssumption == MaxDownloads \in Nat

VARIABLES published,  \* the contents of each shard's destination
          partial,    \* and of its .part file; empty when there is none
          fetch,      \* the running command: targets left, attempt, response
          downloads   \* number of download commands so far

downloadVars == <<published, partial, fetch, downloads>>

Shards  == 0 .. ValidationIndex
Absent  == <<>>
Overrun == 0   \* a byte beyond the shard
Bytes(n) == [i \in 1 .. n |-> i]
Whole    == Bytes(ShardSize)

(***************************************************************************)
(* Responses.  `range` is what a valid Content-Range names, <<>> without   *)
(* one: first byte, last byte and total of a 206, the total of a 416.      *)
(* Other statuses that raise are OpenFails.                                *)
(***************************************************************************)
Response(status, range, length) ==
  [status |-> status, range |-> range, length |-> length]

Lengths == {0, 1, ShardSize}   \* 0: missing or not a positive integer

Responses ==
  {Response(200, <<>>, n) : n \in {0, ShardSize}}
  \cup {Response(204, <<>>, 1)}
  \cup {Response(206, <<first, last, ShardSize>>, n) :
          first \in 0 .. ShardSize - 1, last \in 0 .. ShardSize - 1,
          n \in Lengths \cup 1 .. ShardSize}
  \cup {Response(206, <<>>, n) : n \in Lengths}
  \cup {Response(416, range, 0) : range \in {<<>>, <<ShardSize>>}}

\* _response_download_plan: how to open the .part file ("write" truncates it,
\* "append" continues, "keep" leaves it) and the size it must come to, or
\* that the attempt must restart from nothing.
Plan(mode, size) == [mode |-> mode, size |-> size]
Restart == Plan("restart", 0)

UnsatisfiedPlan(response, offset) ==
  IF response.range = <<offset>> THEN Plan("keep", offset) ELSE Restart

FreshPlan(response) ==
  IF response.status = 200 THEN Plan("write", response.length) ELSE Restart

\* Mutant: the range's start is not compared with the offset.
CompatibleRangeAnyStart(range, length, offset) ==
  /\ Len(range) = 3 /\ range[2] >= range[1]
  /\ range[2] + 1 = range[3]
  /\ length = range[2] - range[1] + 1

CompatibleRange(range, length, offset) ==
  /\ Len(range) = 3
  /\ range[1] = offset /\ range[2] >= range[1]
  /\ range[2] + 1 = range[3]
  /\ length = range[2] - range[1] + 1

ResumePlan(response, offset) ==
  CASE response.status = 200 -> Plan("write", response.length)
    [] response.status = 206 /\ CompatibleRange(response.range, response.length, offset)
         -> Plan("append", response.range[3])
    [] OTHER -> Restart

DownloadPlan(response, offset) ==
  CASE response.status = 416 /\ offset # 0 -> UnsatisfiedPlan(response, offset)
    [] ~(response.status = 416 /\ offset # 0) /\ response.length = 0 -> Restart
    [] response.length # 0 /\ offset = 0 -> FreshPlan(response)
    [] OTHER -> ResumePlan(response, offset)

(***************************************************************************)
(* Commands.                                                               *)
(***************************************************************************)
Targets(trainShards, includeVal) ==
  [i \in 1 .. trainShards |-> i - 1]
    \o (IF includeVal THEN <<ValidationIndex>> ELSE <<>>)

Idle == [at |-> "idle", targets |-> <<>>, attempt |-> 0, next |-> 0, left |-> 0,
         size |-> 0, reply |-> "none"]
Ended(reply) == [Idle EXCEPT !.reply = reply]

Target == Head(fetch.targets)
Offset == Len(partial[Target])

\* plan_climbmix_downloads: an empty or overlapping selection is refused
\* before anything happens.
StartDownload(trainShards, includeVal) ==
  /\ fetch.at = "idle" /\ downloads < MaxDownloads
  /\ trainShards <= ValidationIndex
  /\ trainShards # 0 \/ includeVal
  /\ fetch' = [Idle EXCEPT !.at = "target", !.targets = Targets(trainShards, includeVal)]
  /\ downloads' = downloads + 1
  /\ UNCHANGED <<published, partial>>

EndDownload ==
  /\ fetch.at = "target" /\ fetch.targets = <<>>
  /\ fetch' = Ended("ready")
  /\ UNCHANGED <<published, partial, downloads>>

SkipPublished ==
  /\ fetch.at = "target" /\ fetch.targets # <<>>
  /\ published[Target] # Absent
  /\ fetch' = [fetch EXCEPT !.targets = Tail(@)]
  /\ UNCHANGED <<published, partial, downloads>>

BeginTarget ==
  /\ fetch.at = "target" /\ fetch.targets # <<>>
  /\ published[Target] = Absent
  /\ fetch' = [fetch EXCEPT !.at = "open", !.attempt = 1]
  /\ UNCHANGED <<published, partial, downloads>>

\* Mutant: the attempts are not counted.
AfterFailureUncounted ==
  [fetch EXCEPT !.at = "open", !.next = 0, !.left = 0, !.size = 0]

\* What follows a failed attempt: another one after a delay, or the end.
AfterFailure ==
  IF fetch.attempt < MaxAttempts
  THEN [fetch EXCEPT !.at = "open", !.attempt = @ + 1, !.next = 0, !.left = 0, !.size = 0]
  ELSE Ended("failed")

\* The connection fails, times out, or is answered with an error.
OpenFails ==
  /\ fetch.at = "open"
  /\ fetch' = AfterFailure
  /\ UNCHANGED <<published, partial, downloads>>

\* The body of an accepted response starts at the byte its range names, and
\* carries at most one byte more than it declares.
Respond(response) ==
  LET plan == DownloadPlan(response, Offset)
  IN  /\ fetch.at = "open"
      /\ CASE plan.mode = "restart" ->
                /\ partial' = [partial EXCEPT ![Target] = <<>>]
                /\ fetch' = AfterFailure
           [] plan.mode = "keep" ->
                /\ fetch' = [fetch EXCEPT !.at = "sized", !.size = plan.size]
                /\ UNCHANGED partial
           [] OTHER ->
                /\ partial' = IF plan.mode = "write"
                              THEN [partial EXCEPT ![Target] = <<>>] ELSE partial
                /\ fetch' = [fetch EXCEPT
                     !.at = "body", !.size = plan.size, !.left = response.length + 1,
                     !.next = IF plan.mode = "write" THEN 1 ELSE response.range[1] + 1]
      /\ UNCHANGED <<published, downloads>>

\* A chunk is read and written to the .part file.
ReadChunk ==
  /\ fetch.at = "body" /\ fetch.left > 0
  /\ LET byte == IF fetch.next <= ShardSize THEN fetch.next ELSE Overrun
     IN  partial' = [partial EXCEPT ![Target] = Append(@, byte)]
  /\ fetch' = [fetch EXCEPT !.next = @ + 1, !.left = @ - 1]
  /\ UNCHANGED <<published, downloads>>

ReadFails ==
  /\ fetch.at = "body"
  /\ fetch' = AfterFailure
  /\ UNCHANGED <<published, partial, downloads>>

\* The body ends, wherever it does.
EndBody ==
  /\ fetch.at = "body"
  /\ fetch' = [fetch EXCEPT !.at = "sized"]
  /\ UNCHANGED <<published, partial, downloads>>

RejectTruncated ==
  /\ fetch.at = "sized" /\ Offset < fetch.size
  /\ fetch' = AfterFailure
  /\ UNCHANGED <<published, partial, downloads>>

RejectOverrun ==
  /\ fetch.at = "sized" /\ Offset > fetch.size
  /\ partial' = [partial EXCEPT ![Target] = <<>>]
  /\ fetch' = AfterFailure
  /\ UNCHANGED <<published, downloads>>

PublishShard ==
  /\ fetch.at = "sized" /\ Offset = fetch.size
  /\ published' = [published EXCEPT ![Target] = partial[Target]]
  /\ partial' = [partial EXCEPT ![Target] = <<>>]
  /\ fetch' = [Idle EXCEPT !.at = "target", !.targets = Tail(fetch.targets)]
  /\ UNCHANGED downloads

PublishFails ==
  /\ fetch.at = "sized" /\ Offset = fetch.size
  /\ fetch' = Ended("failed")
  /\ UNCHANGED <<published, partial, downloads>>

\* The process dies; files stay as they are.
KillDownload ==
  /\ fetch.at # "idle"
  /\ fetch' = Ended("killed")
  /\ UNCHANGED <<published, partial, downloads>>

DownloadInit ==
  /\ published = [s \in Shards |-> Absent]
  /\ partial = [s \in Shards |-> <<>>]
  /\ fetch = Idle /\ downloads = 0

DownloadStep ==
  \/ EndDownload \/ SkipPublished \/ BeginTarget
  \/ OpenFails \/ \E r \in Responses : Respond(r)
  \/ ReadChunk \/ ReadFails \/ EndBody
  \/ RejectTruncated \/ RejectOverrun \/ PublishShard \/ PublishFails

DownloadNext ==
  \/ \E n \in Shards, v \in BOOLEAN : StartDownload(n, v)
  \/ DownloadStep
  \/ KillDownload

DownloadSpec == DownloadInit /\ [][DownloadNext]_downloadVars

(***************************************************************************)
(* Properties.                                                             *)
(***************************************************************************)
DownloadTypeOK ==
  /\ published \in [Shards -> Seq(0 .. ShardSize)]
  /\ partial \in [Shards -> Seq(0 .. ShardSize)]
  /\ fetch.at \in {"idle", "target", "open", "body", "sized"}
  /\ fetch.targets \in Seq(Shards)
  /\ fetch.attempt \in 0 .. MaxAttempts
  /\ fetch.next \in Nat /\ fetch.left \in Nat /\ fetch.size \in Nat
  /\ fetch.reply \in {"none", "ready", "failed", "killed"}
  /\ downloads \in 0 .. MaxDownloads

\* Whatever the server answered, and wherever attempts and processes ended,
\* a published shard is the remote one, byte for byte.
PublishedIsWhole ==
  \A s \in Shards : published[s] \in {Absent, Whole}
=============================================================================
