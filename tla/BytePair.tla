------------------------------ MODULE BytePair ------------------------------
(***************************************************************************)
(* Byte-pair training over an incremental index of adjacent pairs          *)
(* (tokenization/optimized_bpe.py), checked against the trainer that       *)
(* recounts everything (tokenization/bpe.py), and the encoder that applies *)
(* the learned merges through a heap of candidates.                        *)
(*                                                                         *)
(* The tokens of all chunks are nodes in one array, linked within their    *)
(* chunk; 0 is _MISSING_NODE.  The heaps are sets of their entries: a      *)
(* second equal entry is stale once the first has been taken.              *)
(***************************************************************************)
EXTENDS Integers, FiniteSets, SequencesExt

CONSTANTS ByteCount,   \* the byte tokens are 0 .. ByteCount - 1
          MaxMerges,   \* bound on the merges of a vocabulary
          BpeCorpora,  \* the training corpora explored: sequences of chunks
          BpeInputs    \* the chunks explored that are encoded

ASSUME BpeAssumption ==
  /\ ByteCount \in Nat \ {0} /\ MaxMerges \in Nat
  /\ \A c \in BpeCorpora : c \in Seq(Seq(0 .. ByteCount - 1))
  /\ BpeInputs \subseteq Seq(0 .. ByteCount - 1)

VARIABLES index,    \* IncrementalPairIndex
          trainer,  \* the training loop, with the chunks of the reference
          encoder   \* _encode_chunk

bpeVars == <<index, trainer, encoder>>

Tokens == 0 .. ByteCount + MaxMerges - 1
Pairs  == Tokens \X Tokens
FirstOf(S) == CHOOSE x \in S : \A y \in S : x <= y

(***************************************************************************)
(* The reference trainer.                                                  *)
(***************************************************************************)
\* merge_pair: left to right, without overlap.
MergedChunk(chunk, pair, token) ==
  LET take(done, t) ==
        IF done # <<>> /\ Last(done) = pair[1] /\ t = pair[2]
        THEN Append(Front(done), token) ELSE Append(done, t)
  IN  FoldLeft(take, <<>>, chunk)

PairCount(chunks, pair) ==
  Cardinality({<<c, i>> \in UNION {{c} \X (1 .. Len(chunks[c]) - 1) : c \in DOMAIN chunks} :
                 <<chunks[c][i], chunks[c][i + 1]>> = pair})

\* The order of selection: the most frequent pair, then the least.
Precedes(count, pair, otherCount, other) ==
  \/ count > otherCount
  \/ /\ count = otherCount
     /\ pair[1] < other[1] \/ (pair[1] = other[1] /\ pair[2] < other[2])

IsBestPair(chunks, pair) ==
  /\ PairCount(chunks, pair) > 0
  /\ \A other \in Pairs \ {pair} :
       Precedes(PairCount(chunks, pair), pair, PairCount(chunks, other), other)

(***************************************************************************)
(* The index.                                                              *)
(***************************************************************************)
PairAt(ix, n) == <<ix.tokens[n], ix.tokens[ix.next[n]]>>
Adjacent(ix, n) ==
  /\ n # 0 /\ ix.active[n]
  /\ ix.next[n] # 0 /\ ix.active[ix.next[n]]

AddOccurrence(ix, n) ==
  IF ~Adjacent(ix, n) \/ n \in ix.occurrences[PairAt(ix, n)] THEN ix
  ELSE [ix EXCEPT !.occurrences[PairAt(ix, n)] = @ \cup {n},
                  !.affected = @ \cup {PairAt(ix, n)}]

\* Mutant: a pair that only lost occurrences is not pushed again.
RemoveOccurrenceUnmarked(ix, n) ==
  IF ~Adjacent(ix, n) THEN ix
  ELSE [ix EXCEPT !.occurrences[PairAt(ix, n)] = @ \ {n}]

\* Raises if the index does not have an occurrence that is there.
RemoveOccurrence(ix, n) ==
  IF ~Adjacent(ix, n) THEN ix
  ELSE [ix EXCEPT !.occurrences[PairAt(ix, n)] = @ \ {n},
                  !.affected = @ \cup {PairAt(ix, n)},
                  !.raised = @ \/ n \notin ix.occurrences[PairAt(ix, n)]]

FreshEntries(occurrences, pairs) ==
  {<<Cardinality(occurrences[p]), p>> : p \in {p \in pairs : occurrences[p] # {}}}

\* __init__
Indexed(chunks) ==
  LET tokens == FlattenSeq(chunks)
      ends == {Len(FlattenSeq(SubSeq(chunks, 1, c))) : c \in DOMAIN chunks}
      linked == [tokens |-> tokens,
                 previous |-> [n \in DOMAIN tokens |-> IF n - 1 \in ends THEN 0 ELSE n - 1],
                 next |-> [n \in DOMAIN tokens |-> IF n \in ends THEN 0 ELSE n + 1],
                 active |-> [n \in DOMAIN tokens |-> TRUE],
                 occurrences |-> [p \in Pairs |-> {}], affected |-> {}, heap |-> {},
                 raised |-> FALSE]
      filled == FoldLeft(AddOccurrence, linked, [n \in DOMAIN tokens |-> n])
  IN  [filled EXCEPT !.heap = FreshEntries(filled.occurrences, Pairs), !.affected = {}]

\* merge_pair at one left node; a node that an earlier merge of the same
\* pair took is passed over.
Mergeable(ix, n, pair) == Adjacent(ix, n) /\ PairAt(ix, n) = pair

MergedAt(ix, left, token) ==
  LET right == ix.next[left]
      previous == ix.previous[left]
      following == ix.next[right]
      removed == FoldLeft(RemoveOccurrence, ix, <<previous, left, right>>)
      relinked ==
        [removed EXCEPT
           !.tokens[left] = token, !.active[right] = FALSE,
           !.next = [@ EXCEPT ![left] = following, ![right] = 0],
           !.previous = [n \in DOMAIN @ |->
              IF n = right THEN 0 ELSE IF n = following THEN left ELSE @[n]]]
  IN  FoldLeft(AddOccurrence, relinked, <<previous, left>>)

(***************************************************************************)
(* The training loop.                                                      *)
(***************************************************************************)
\* best_pair: stale entries are dropped until a current one is the first.
Current(entry) ==
  entry[1] > 0 /\ Cardinality(index.occurrences[entry[2]]) = entry[1]
EarlierEntries(entry) ==
  {e \in index.heap : e # entry /\ Precedes(e[1], e[2], entry[1], entry[2])}

SelectPair ==
  /\ trainer.at = "select" /\ Len(trainer.merges) < MaxMerges
  /\ \E entry \in index.heap :
       /\ Current(entry) /\ \A e \in EarlierEntries(entry) : ~Current(e)
       /\ trainer' = [trainer EXCEPT !.at = "merge", !.pair = entry[2],
            !.left = index.occurrences[entry[2]],
            !.count = Cardinality(index.occurrences[entry[2]])]
       /\ index' = [index EXCEPT !.heap = @ \ EarlierEntries(entry)]
  /\ UNCHANGED encoder

NewToken == ByteCount + Len(trainer.merges)

MergeAtNext ==
  /\ trainer.at = "merge" /\ trainer.left # {}
  /\ LET n == FirstOf(trainer.left)
         merged == IF Mergeable(index, n, trainer.pair)
                   THEN MergedAt(index, n, NewToken) ELSE index
     IN  /\ trainer' = [trainer EXCEPT !.left = @ \ {n},
                          !.at = IF merged.raised THEN "failed" ELSE @]
         /\ index' = merged
  /\ UNCHANGED encoder

\* The affected pairs are pushed with their counts; a heap that has grown
\* out of proportion is rebuilt.
FinishMerge(rebuild) ==
  /\ trainer.at = "merge" /\ trainer.left = {}
  /\ index' = [index EXCEPT !.affected = {},
       !.heap = IF rebuild THEN FreshEntries(index.occurrences, Pairs)
                ELSE @ \cup FreshEntries(index.occurrences, index.affected)]
  /\ trainer' = [trainer EXCEPT !.at = "select",
       !.merges = Append(@, [pair |-> trainer.pair, token |-> NewToken, count |-> trainer.count]),
       !.chunks = [c \in DOMAIN @ |-> MergedChunk(@[c], trainer.pair, NewToken)]]
  /\ UNCHANGED encoder

\* The vocabulary is full; or no pair remains, and the trainer raises.
FinishTraining ==
  /\ trainer.at = "select" /\ Len(trainer.merges) = MaxMerges
  /\ trainer' = [trainer EXCEPT !.at = "trained"]
  /\ UNCHANGED <<index, encoder>>

ExhaustPairs ==
  /\ trainer.at = "select" /\ Len(trainer.merges) < MaxMerges
  /\ ~\E entry \in index.heap : Current(entry)
  /\ trainer' = [trainer EXCEPT !.at = "exhausted"]
  /\ index' = [index EXCEPT !.heap = {}]
  /\ UNCHANGED encoder

(***************************************************************************)
(* The encoder.                                                            *)
(***************************************************************************)
RanksOf(pair) == {r \in DOMAIN trainer.merges : trainer.merges[r].pair = pair}

\* add_candidate
Candidates(values, next, n) ==
  IF n = 0 \/ next[n] = 0 THEN {}
  ELSE {<<r, n, next[n]>> : r \in RanksOf(<<values[n], values[next[n]]>>)}

NoChunk == [at |-> "idle", chunk |-> <<>>, values |-> <<>>, previous |-> <<>>,
            next |-> <<>>, candidates |-> {}]

BeginChunk(chunk) ==
  /\ trainer.at = "trained" /\ encoder.at = "idle"
  /\ LET next == [n \in DOMAIN chunk |-> IF n = Len(chunk) THEN 0 ELSE n + 1]
     IN  encoder' = [at |-> "merge", chunk |-> chunk, values |-> chunk, next |-> next,
                     previous |-> [n \in DOMAIN chunk |-> n - 1],
                     candidates |-> UNION {Candidates(chunk, next, n) : n \in DOMAIN chunk}]
  /\ UNCHANGED <<index, trainer>>

Sooner(c, d) ==
  \/ c[1] < d[1]
  \/ c[1] = d[1] /\ (c[2] < d[2] \/ (c[2] = d[2] /\ c[3] <= d[3]))

\* A candidate is still one if its nodes are linked and make its pair.
Valid(c) ==
  /\ encoder.next[c[2]] = c[3]
  /\ c[1] \in RanksOf(<<encoder.values[c[2]], encoder.values[c[3]]>>)

TakeCandidate ==
  /\ encoder.at = "merge" /\ encoder.candidates # {}
  /\ \E c \in encoder.candidates :
       /\ \A d \in encoder.candidates : Sooner(c, d)
       /\ LET left == c[2]
              right == c[3]
              following == encoder.next[right]
              values == [encoder.values EXCEPT ![left] = trainer.merges[c[1]].token]
              next == [encoder.next EXCEPT ![left] = following, ![right] = 0]
          IN  encoder' =
                IF ~Valid(c) THEN [encoder EXCEPT !.candidates = @ \ {c}]
                ELSE [encoder EXCEPT
                        !.values = values, !.next = next,
                        !.previous = [n \in DOMAIN @ |-> IF n = following THEN left ELSE @[n]],
                        !.candidates = (@ \ {c})
                          \cup Candidates(values, next, encoder.previous[left])
                          \cup Candidates(values, next, left)]
  /\ UNCHANGED <<index, trainer>>

FinishChunk ==
  /\ encoder.at = "merge" /\ encoder.candidates = {}
  /\ encoder' = NoChunk
  /\ UNCHANGED <<index, trainer>>

BpeInit ==
  \E chunks \in BpeCorpora :
    /\ index = Indexed(chunks)
    /\ trainer = [at |-> "select", chunks |-> chunks, merges |-> <<>>,
                  pair |-> <<0, 0>>, left |-> {}, count |-> 0]
    /\ encoder = NoChunk

BpeNext ==
  \/ SelectPair \/ MergeAtNext \/ \E rebuild \in BOOLEAN : FinishMerge(rebuild)
  \/ FinishTraining \/ ExhaustPairs
  \/ \E chunk \in BpeInputs : BeginChunk(chunk)
  \/ TakeCandidate \/ FinishChunk

BpeSpec == BpeInit /\ [][BpeNext]_bpeVars

(***************************************************************************)
(* Properties.                                                             *)
(***************************************************************************)
\* The nodes a list visits from node n, and what they hold.
Visited(next, n) ==
  LET visit(seen, ignored) ==
        IF Last(seen) = 0 THEN seen ELSE Append(seen, next[Last(seen)])
      walk == FoldLeft(visit, <<n>>, [i \in DOMAIN next |-> i])
  IN  SelectSeq(walk, LAMBDA m : m # 0)
Held(values, nodes) == [i \in DOMAIN nodes |-> values[nodes[i]]]

\* The index never loses count: at every moment it knows each adjacency of
\* each pair; between merges it holds the chunks of the reference trainer.
IndexIsExact ==
  /\ \A p \in Pairs : index.occurrences[p] =
       {n \in DOMAIN index.tokens : Adjacent(index, n) /\ PairAt(index, n) = p}
  /\ trainer.at # "merge" =>
       /\ \A p \in Pairs : Cardinality(index.occurrences[p]) = PairCount(trainer.chunks, p)
       /\ FlattenSeq(trainer.chunks) =
            Held(index.tokens, SelectSeq([n \in DOMAIN index.tokens |-> n],
                                         LAMBDA n : index.active[n]))

\* The pair merged, and how often it occurs, are the reference's choice, and
\* the trainer gives up only where the reference does, and raises nowhere.
SelectionIsReference ==
  /\ trainer.at # "failed"
  /\ trainer.at = "merge" =>
       /\ IsBestPair(trainer.chunks, trainer.pair)
       /\ trainer.count = PairCount(trainer.chunks, trainer.pair)
  /\ trainer.at = "exhausted" => \A p \in Pairs : PairCount(trainer.chunks, p) = 0

\* A chunk is encoded as if the merges were applied to it one after another,
\* in the order in which they were learned.
EncodingIsReference ==
  encoder.at = "merge" /\ encoder.candidates = {} =>
    Held(encoder.values, Visited(encoder.next, 1))
      = FoldLeft(LAMBDA chunk, m : MergedChunk(chunk, m.pair, m.token),
                 encoder.chunk, trainer.merges)

\* The optimized trainer and the encoder are the reference algorithms.
TokenizerIsReference == IndexIsExact /\ SelectionIsReference /\ EncodingIsReference
=============================================================================
