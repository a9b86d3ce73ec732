------------------------- MODULE ConversationLoader -------------------------
(***************************************************************************)
(* The loader of supervised finetuning (chat/loader.py): a mixture of      *)
(* finite sources, each repeated a number of times and shuffled anew in    *)
(* every cycle, is pulled through a packing buffer into rows of whole      *)
(* conversations.  Its state is saved between batches.                     *)
(*                                                                         *)
(* A conversation is its rendered size and its first supervised position.  *)
(* What a seed shuffles to is an unknown function of it; an item is the    *)
(* source and the offset in it from which it was pulled.                   *)
(***************************************************************************)
EXTENDS Integers, FiniteSets, SequencesExt

CONSTANTS RowCapacity,      \* max_seq_len + 1
          SftBatchSize,
          PackingBuffer,    \* packing_buffer_size
          Repeats,          \* per source, how often an epoch repeats it
          SourceLength,     \* conversations of each source
          SftCorpora,       \* the contents of the sources explored
          MixtureOrders,    \* the shuffled schedules explored
          MaxSftEpochs      \* bound on epochs

ASSUME ConversationAssumption ==
  /\ {RowCapacity, SftBatchSize, PackingBuffer, SourceLength, MaxSftEpochs} \subseteq Nat \ {0}
  /\ Repeats \in Seq(Nat \ {0})
  /\ \A c \in SftCorpora : \A s \in DOMAIN Repeats : \A i \in 1 .. SourceLength :
       c[s][i].size \in Nat \ {0} /\ c[s][i].first \in Nat
  /\ \A o \in MixtureOrders : o \in Seq(DOMAIN Repeats) /\ \A s \in DOMAIN Repeats :
       Cardinality({i \in DOMAIN o : o[i] = s}) = SourceLength * Repeats[s]

VARIABLES sources,     \* the conversations of each source
          schedules,   \* the schedule that each epoch seed shuffles to
          turning,     \* whether a source's shuffle depends on its cycle
          feed,        \* the loader of the running process
          savedFeed,   \* the loader state of the latest checkpoint
          epochPass,   \* an iteration by iter_epoch
          delivered    \* per global step, the batches emitted for it

feedVars == <<sources, schedules, turning, feed, savedFeed, epochPass, delivered>>
feedInputs == <<sources, schedules, turning>>

SourceIds == DOMAIN Repeats
Limited(x, bound) == IF x > bound THEN bound ELSE x

(***************************************************************************)
(* Items.                                                                  *)
(***************************************************************************)
\* The row of a source at an offset: each cycle has its own shuffle.
RowAt(offset) ==
  LET position == (offset % SourceLength) + 1
      cycle == offset \div SourceLength
  IN  IF turning /\ cycle % 2 = 1 THEN SourceLength + 1 - position ELSE position
ConversationOf(item) == sources[item[1]][RowAt(item[2])]
SizeOf(item) == Limited(ConversationOf(item).size, RowCapacity)
Supervised(item) == ConversationOf(item).first \in 2 .. SizeOf(item)

Schedule(l) == schedules[l.seed]
\* _ConversationMixture: where each source stands at a cursor.
SourceCursor(l, s) ==
  Cardinality({i \in 1 .. l.cursor : Schedule(l)[i] = s})
Exhausted(l) == l.cursor = Len(Schedule(l))
NextItem(l) ==
  LET s == Schedule(l)[l.cursor + 1] IN <<s, SourceCursor(l, s)>>

\* _largest_fitting_index: the first of the largest that fit.
LargestFitting(buffer, room) ==
  {i \in DOMAIN buffer :
     /\ SizeOf(buffer[i]) <= room
     /\ \A j \in DOMAIN buffer : SizeOf(buffer[j]) <= room =>
          \/ SizeOf(buffer[j]) < SizeOf(buffer[i])
          \/ SizeOf(buffer[j]) = SizeOf(buffer[i]) /\ i <= j}

(***************************************************************************)
(* The loader.                                                             *)
(***************************************************************************)
NoStats == [seen |-> 0, skipped |-> 0, packed |-> 0, batches |-> 0, padding |-> 0]

\* _start_next_epoch
EpochStarted(l) ==
  [l EXCEPT !.draws = @ + 1, !.epoch = @ + 1, !.seed = l.draws + 1, !.step = 0,
            !.exhausted = FALSE, !.packed = 0, !.cursor = 0, !.buffer = <<>>]

OpenedFeed ==
  EpochStarted([at |-> "idle", draws |-> 0, epoch |-> -1, seed |-> 0, step |-> 0,
                globalStep |-> 0, exhausted |-> FALSE, packed |-> 0, cursor |-> 0,
                buffer |-> <<>>, stats |-> NoStats, rows |-> <<>>, row |-> <<>>])

\* next_batch begins; an exhausted epoch is followed by the next one.
BeginBatch(l) == [(IF l.exhausted THEN EpochStarted(l) ELSE l) EXCEPT !.at = "rows"]
StartBatch ==
  /\ feed.at = "idle"
  /\ feed.exhausted => feed.epoch + 1 < MaxSftEpochs
  /\ feed' = BeginBatch(feed)
  /\ UNCHANGED <<feedInputs, savedFeed, epochPass, delivered>>

RowSize(row) == FoldLeft(+, 0, [i \in DOMAIN row |-> SizeOf(row[i])])
Room == RowCapacity - RowSize(feed.row)
Filled == Len(feed.buffer) = PackingBuffer \/ Exhausted(feed)
RowWanted == feed.at = "rows" /\ Len(feed.rows) < SftBatchSize /\ Room > 0

\* _pull_next_item: what has no supervised target within a row is skipped.
PullConversation ==
  /\ RowWanted /\ ~Filled
  /\ feed' = [feed EXCEPT !.cursor = @ + 1, !.stats.seen = @ + 1,
       !.buffer = IF Supervised(NextItem(feed)) THEN Append(@, NextItem(feed)) ELSE @,
       !.stats.skipped = IF Supervised(NextItem(feed)) THEN @ ELSE @ + 1]
  /\ UNCHANGED <<feedInputs, savedFeed, epochPass, delivered>>

PackConversation ==
  /\ RowWanted /\ Filled
  /\ \E i \in LargestFitting(feed.buffer, Room) :
       feed' = [feed EXCEPT !.row = Append(@, feed.buffer[i]), !.buffer = RemoveAt(@, i),
                            !.packed = @ + 1, !.stats.packed = @ + 1]
  /\ UNCHANGED <<feedInputs, savedFeed, epochPass, delivered>>

\* The row is full, or nothing buffered fits what is left of it.
CloseRow ==
  /\ feed.at = "rows" /\ feed.row # <<>>
  /\ Room = 0 \/ (Filled /\ LargestFitting(feed.buffer, Room) = {})
  /\ feed' = [feed EXCEPT !.rows = Append(@, feed.row), !.row = <<>>,
                          !.stats.padding = @ + Room]
  /\ UNCHANGED <<feedInputs, savedFeed, epochPass, delivered>>

\* Nothing is left of the epoch: go on to the next one, or refuse an epoch
\* in which nothing was supervised, which ends an iteration by iter_epoch.
SkipToNextEpoch ==
  /\ RowWanted /\ Filled /\ feed.row = <<>> /\ feed.rows = <<>> /\ feed.buffer = <<>>
  /\ feed.epoch + 1 < MaxSftEpochs
  /\ feed' = IF feed.packed = 0 THEN [feed EXCEPT !.at = "idle", !.exhausted = TRUE]
             ELSE BeginBatch([feed EXCEPT !.exhausted = TRUE])
  /\ epochPass' = [epochPass EXCEPT !.active = @ /\ feed.packed # 0]
  /\ UNCHANGED <<feedInputs, savedFeed, delivered>>

BatchIsReady ==
  /\ feed.at = "rows" /\ feed.row = <<>> /\ feed.rows # <<>>
  /\ Len(feed.rows) = SftBatchSize \/ (Filled /\ feed.buffer = <<>>)

\* Padding rows complete the batch, and it is returned.
EmitBatch ==
  /\ BatchIsReady
  /\ LET step == feed.globalStep + 1
         missing == SftBatchSize - Len(feed.rows)
         batch == [epoch |-> feed.epoch, rows |-> feed.rows]
     IN  /\ feed' = [feed EXCEPT !.at = "idle", !.rows = <<>>, !.globalStep = step,
              !.step = @ + 1, !.exhausted = Exhausted(feed) /\ feed.buffer = <<>>,
              !.stats.batches = @ + 1, !.stats.padding = @ + missing * RowCapacity]
         /\ delivered' = IF step > Len(delivered) THEN Append(delivered, {batch})
                         ELSE [delivered EXCEPT ![step] = @ \cup {batch}]
         /\ epochPass' =
              IF ~epochPass.active THEN epochPass
              ELSE [epochPass EXCEPT
                      !.yielded = @ \cup {feed.epoch},
                      !.active = ~(Exhausted(feed) /\ feed.buffer = <<>>)
                                   /\ feed.epoch = epochPass.epoch]
  /\ UNCHANGED <<feedInputs, savedFeed>>

\* iter_epoch: the current epoch, or the next one if that is exhausted.
BeginEpochPass ==
  /\ feed.at = "idle" /\ ~epochPass.active
  /\ feed.exhausted => feed.epoch + 1 < MaxSftEpochs
  /\ feed' = IF feed.exhausted THEN EpochStarted(feed) ELSE feed
  /\ epochPass' = [active |-> TRUE, epoch |-> feed'.epoch, yielded |-> {}]
  /\ UNCHANGED <<feedInputs, savedFeed, delivered>>

StateOfFeed(l) == [l EXCEPT !.at = "saved"]
SaveFeed ==
  /\ feed.at = "idle"
  /\ savedFeed' = StateOfFeed(feed)
  /\ UNCHANGED <<feedInputs, feed, epochPass, delivered>>

NoPass == [active |-> FALSE, epoch |-> -1, yielded |-> {}]

\* The next process opens the loader anew.
ReopenFeed ==
  /\ feed' = OpenedFeed
  /\ epochPass' = NoPass
  /\ UNCHANGED <<feedInputs, savedFeed, delivered>>

\* load_state_dict; the buffer is fetched again by its items, which must
\* have been consumed.
FeedStateFits(s) ==
  /\ s.at = "saved"
  /\ s.step <= s.globalStep /\ s.stats.batches = s.globalStep
  /\ s.packed <= s.stats.packed /\ Len(s.buffer) <= PackingBuffer
  /\ \A item \in ToSet(s.buffer) : item[2] < SourceCursor(s, item[1]) /\ Supervised(item)
  /\ s.exhausted => Exhausted(s) /\ s.buffer = <<>>
  /\ Exhausted(s) /\ s.buffer = <<>> /\ s.packed > 0 => s.exhausted

\* Mutant: the buffer is filled again from the cursor.
RestoreFeedUnbuffered ==
  /\ feed.at = "idle" /\ FeedStateFits(savedFeed)
  /\ feed' = [savedFeed EXCEPT !.at = "idle", !.buffer = <<>>]
  /\ epochPass' = NoPass
  /\ UNCHANGED <<feedInputs, savedFeed, delivered>>

RestoreFeed ==
  /\ feed.at = "idle" /\ FeedStateFits(savedFeed)
  /\ feed' = [savedFeed EXCEPT !.at = "idle"]
  /\ epochPass' = NoPass
  /\ UNCHANGED <<feedInputs, savedFeed, delivered>>

FeedInit ==
  /\ sources \in SftCorpora
  /\ schedules \in [1 .. MaxSftEpochs -> MixtureOrders]
  /\ turning \in BOOLEAN
  /\ feed = OpenedFeed
  /\ savedFeed = feed
  /\ epochPass = NoPass
  /\ delivered = <<>>

FeedNext ==
  \/ StartBatch \/ PullConversation \/ PackConversation \/ CloseRow
  \/ SkipToNextEpoch \/ EmitBatch \/ BeginEpochPass
  \/ SaveFeed \/ ReopenFeed \/ RestoreFeed

FeedSpec == FeedInit /\ [][FeedNext]_feedVars

(***************************************************************************)
(* Properties.                                                             *)
(***************************************************************************)
\* A step has one batch, however often it is reached again after a restart.
StreamIsFixed == \A g \in DOMAIN delivered : Cardinality(delivered[g]) = 1

\* Whatever was pulled has been packed, has been skipped or is buffered, and
\* what an epoch delivers is each supervised item of its mixture, once.
PulledItems(l) ==
  {item \in SourceIds \X (0 .. Len(Schedule(l))) : item[2] < SourceCursor(l, item[1])}
EpochBatches(epoch) ==
  {batch \in UNION {delivered[g] : g \in DOMAIN delivered} : batch.epoch = epoch}
ItemsOf(batch) == FlattenSeq(batch.rows)
PackedIn(epoch) == UNION {ToSet(ItemsOf(batch)) : batch \in EpochBatches(epoch)}
Underway(l) == FlattenSeq(l.rows) \o l.row \o l.buffer
NothingLostOrRepeated ==
  LET wanted == {item \in PulledItems(feed) : Supervised(item)}
      OnceIn(epoch) == \A g, h \in DOMAIN delivered :
        \A one \in delivered[g] \cap EpochBatches(epoch) :
          /\ IsInjective(ItemsOf(one))
          /\ \A other \in delivered[h] \cap EpochBatches(epoch) :
               g # h => ToSet(ItemsOf(one)) \cap ToSet(ItemsOf(other)) = {}
  IN  /\ feed.stats.seen - feed.stats.skipped
           = feed.stats.packed + Len(feed.buffer)
      /\ IsInjective(Underway(feed)) /\ ToSet(Underway(feed)) \subseteq wanted
      /\ feed.exhausted =>
           /\ Cardinality(wanted) = feed.packed
           /\ PackedIn(feed.epoch) = wanted
           /\ OnceIn(feed.epoch)

\* A pass over an epoch yields batches of that epoch only (a buffer of one
\* conversation is the exception: it may hide that only skipped
\* conversations are left).
PassIsOneEpoch == PackingBuffer > 1 => epochPass.yielded \subseteq {epochPass.epoch}

ConversationsAreExact == StreamIsFixed /\ NothingLostOrRepeated /\ PassIsOneEpoch
=============================================================================
