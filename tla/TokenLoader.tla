---------------------------- MODULE TokenLoader ----------------------------
(***************************************************************************)
(* The restartable token loaders of pretraining (data/loaders.py): random  *)
(* windows of contiguous tokens ("flat"), or whole documents packed into   *)
(* rows ("packed").  A loader is saved in a checkpoint and restored by the *)
(* next process.                                                           *)
(*                                                                         *)
(* A token is its document and its position in it.  A generator is the     *)
(* number of draws it has made; what the n-th draw of a seed gives, and    *)
(* the document order of an epoch seed, are unknown functions.             *)
(***************************************************************************)
EXTENDS Integers, FiniteSets, SequencesExt

CONSTANTS SeqLen, BatchSize,
          Corpora,    \* the corpora explored: sequences of document lengths
          FirstShard, \* documents in the first of the two shards
          MaxEpochs,  \* bound on the epochs of a packed loader
          MaxBatches  \* bound on the batches of a flat loader

ASSUME LoaderAssumption ==
  /\ {SeqLen, BatchSize, MaxEpochs} \subseteq Nat \ {0}
  /\ MaxBatches \in Nat /\ FirstShard \in Nat
  /\ \A c \in Corpora : c \in Seq(Nat) /\ c # <<>>

VARIABLES docs,     \* token counts of the documents of the split
          orders,   \* the document order that the n-th epoch seed gives
          loader,   \* the loader of the running process
          stored    \* the loader state of the latest checkpoint

loaderVars == <<docs, orders, loader, stored>>

Bos == <<0, 0>>
RowTokens == SeqLen + 1
Least(S) == CHOOSE x \in S : \A y \in S : x <= y
AtMost(x, y) == IF x < y THEN x ELSE y

(***************************************************************************)
(* Flat windows.                                                           *)
(***************************************************************************)
Total(lengths) ==
  LET sum[n \in 0 .. Len(lengths)] == IF n = 0 THEN 0 ELSE sum[n - 1] + lengths[n]
  IN  sum[Len(lengths)]
Lengths2 == <<Total(SubSeq(docs, 1, AtMost(FirstShard, Len(docs)))),
              Total(SubSeq(docs, FirstShard + 1, Len(docs)))>>
Starts(length) == IF length > SeqLen THEN length - SeqLen ELSE 0
CumulativeStarts == [s \in DOMAIN Lengths2 |-> Total([i \in 1 .. s |-> Starts(Lengths2[i])])]
ValidStarts == CumulativeStarts[Len(CumulativeStarts)]

\* Mutant: bisect_left.
LocateLeft(offset) ==
  LET shard == Cardinality({s \in DOMAIN CumulativeStarts : CumulativeStarts[s] < offset}) + 1
  IN  <<shard, offset - (IF shard = 1 THEN 0 ELSE CumulativeStarts[shard - 1])>>

\* The shard and the start in it of a drawn offset (bisect_right).
Locate(offset) ==
  LET shard == Cardinality({s \in DOMAIN CumulativeStarts : CumulativeStarts[s] <= offset}) + 1
  IN  <<shard, offset - (IF shard = 1 THEN 0 ELSE CumulativeStarts[shard - 1])>>

(***************************************************************************)
(* Packing plans.  A piece is a run of a document's tokens, after a prefix *)
(* that is BOS or the token before it; it never exceeds a row.             *)
(***************************************************************************)
Piece(d, start) ==
  LET count == AtMost(docs[d] - start, SeqLen)
  IN  [doc |-> d, start |-> start, count |-> count,
       continues |-> start > 0, ends |-> start + count = docs[d]]
PackedSize(piece) == piece.count + 1
Sizes(row) == [k \in DOMAIN row |-> PackedSize(row[k])]

DocumentPieces(d) ==
  LET last == IF docs[d] = 0 THEN 0 ELSE (docs[d] - 1) \div SeqLen
  IN  [k \in 1 .. last + 1 |-> Piece(d, (k - 1) * SeqLen)]
PiecesInOrder(order) == FlattenSeq([i \in DOMAIN order |-> DocumentPieces(order[i])])

\* _CapacityIndexedRows: the rows, the rows waiting at each residual
\* capacity, and the capacities at which some row waits.
NoRows == [rows |-> <<>>, waiting |-> [c \in 0 .. RowTokens |-> {}], open |-> {}]

Register(plan, capacity, row) ==
  IF capacity = 0 THEN plan
  ELSE [plan EXCEPT !.waiting[capacity] = @ \cup {row}, !.open = @ \cup {capacity}]

AddRow(plan, piece) ==
  Register([plan EXCEPT !.rows = Append(@, <<piece>>)],
           RowTokens - PackedSize(piece), Len(plan.rows) + 1)

\* Mutant: the latest of the rows with the best capacity.
PlaceInLatest(plan, piece) ==
  LET fitting == {c \in plan.open : c >= PackedSize(piece)}
      c == Least(fitting)
      row == CHOOSE r \in plan.waiting[c] : \A other \in plan.waiting[c] : other <= r
      left == plan.waiting[c] \ {row}
  IN  IF fitting = {} THEN AddRow(plan, piece)
      ELSE Register([plan EXCEPT !.rows[row] = Append(@, piece), !.waiting[c] = left,
                                 !.open = IF left = {} THEN @ \ {c} ELSE @],
                    c - PackedSize(piece), row)

PlaceBestFit(plan, piece) ==
  LET fitting == {c \in plan.open : c >= PackedSize(piece)}
      c == Least(fitting)
      row == Least(plan.waiting[c])
      left == plan.waiting[c] \ {row}
  IN  IF fitting = {} THEN AddRow(plan, piece)
      ELSE Register([plan EXCEPT !.rows[row] = Append(@, piece), !.waiting[c] = left,
                                 !.open = IF left = {} THEN @ \ {c} ELSE @],
                    c - PackedSize(piece), row)

Place(plan, piece) ==
  IF piece.continues THEN AddRow(plan, piece) ELSE PlaceBestFit(plan, piece)
PlannedRows(pieces) ==
  LET plan[n \in 0 .. Len(pieces)] ==
        IF n = 0 THEN NoRows ELSE Place(plan[n - 1], pieces[n])
  IN  plan[Len(pieces)].rows

\* _build_epoch: the planned rows, and empty ones up to a whole batch.
BuildEpoch(seed) ==
  LET rows == PlannedRows(PiecesInOrder(orders[seed]))
      padding == (BatchSize - (Len(rows) % BatchSize)) % BatchSize
  IN  rows \o [i \in 1 .. padding |-> <<>>]

(***************************************************************************)
(* What a row becomes: its tokens, and the positions whose next token is a *)
(* training target.                                                        *)
(***************************************************************************)
PieceTokens(piece) ==
  <<IF piece.continues THEN <<piece.doc, piece.start>> ELSE Bos>>
    \o [i \in 1 .. piece.count |-> <<piece.doc, piece.start + i>>]

Window(row) ==
  LET tokens == FlattenSeq([k \in DOMAIN row |-> PieceTokens(row[k])])
  IN  [i \in 1 .. RowTokens |-> IF i <= Len(tokens) THEN tokens[i] ELSE Bos]

\* Where the k-th piece of a row begins.
PieceOffset(row, k) == Total(Sizes(SubSeq(row, 1, k - 1)))

Scored(row) ==
  (UNION {PieceOffset(row, k) + 1 .. PieceOffset(row, k) + row[k].count : k \in DOMAIN row})
    \cup {PieceOffset(row, k + 1) :
            k \in {n \in DOMAIN row : row[n].ends /\ PieceOffset(row, n + 1) < RowTokens}}

(***************************************************************************)
(* The loader.                                                             *)
(***************************************************************************)
\* _start_next_epoch
StartedEpoch(l) ==
  [l EXCEPT !.draws = @ + 1, !.seed = l.draws + 1, !.row = 0, !.epoch = @ + 1,
            !.rows = BuildEpoch(l.draws + 1)]

Unopened(strategy) == [strategy |-> strategy, position |-> 0, draws |-> 0, epoch |-> -1,
                       seed |-> 0, row |-> 0, rows |-> <<>>]
Opened(strategy) ==
  IF strategy = "packed" THEN StartedEpoch(Unopened("packed")) ELSE Unopened("flat")

NextFlatBatch ==
  /\ loader.strategy = "flat" /\ loader.draws < MaxBatches
  /\ loader' = [loader EXCEPT !.draws = @ + 1, !.position = @ + BatchSize]
  /\ UNCHANGED <<docs, orders, stored>>

NextPackedBatch ==
  /\ loader.strategy = "packed"
  /\ loader.row = Len(loader.rows) => loader.draws < MaxEpochs
  /\ LET l == IF loader.row = Len(loader.rows) THEN StartedEpoch(loader) ELSE loader
     IN  loader' = [l EXCEPT !.row = @ + BatchSize, !.position = @ + BatchSize]
  /\ UNCHANGED <<docs, orders, stored>>

\* state_dict, and what identifies the mapped dataset and the settings.
StateOf(l, dataset) ==
  [dataset |-> dataset, strategy |-> l.strategy, position |-> l.position,
   draws |-> l.draws, epoch |-> l.epoch, seed |-> l.seed, row |-> l.row]
NoState == StateOf(Unopened("none"), "none")

SaveLoader ==
  /\ stored' = StateOf(loader, "this")
  /\ UNCHANGED <<docs, orders, loader>>

\* The checkpoint of a run over other data, at another position.
SaveElsewhere ==
  /\ stored = NoState
  /\ stored' = [StateOf(loader, "other") EXCEPT !.position = @ + BatchSize]
  /\ UNCHANGED <<docs, orders, loader>>

\* The process ends; the next one opens the loader anew.
ReopenLoader ==
  /\ loader' = Opened(loader.strategy)
  /\ UNCHANGED <<docs, orders, stored>>

\* load_state_dict; a state that does not fit is refused and changes nothing.
StateFits(state) ==
  /\ state.dataset = "this" /\ state.strategy = loader.strategy
  /\ state.position >= 0 /\ state.position % BatchSize = 0
  /\ state.strategy = "packed" =>
       /\ state.epoch >= 0
       /\ state.row \in 0 .. Len(BuildEpoch(state.seed))
       /\ state.row % BatchSize = 0

\* Mutant: the generator is not restored.
RestoreLoaderNoDraws ==
  /\ StateFits(stored)
  /\ loader' = [strategy |-> stored.strategy, position |-> stored.position,
                draws |-> loader.draws, epoch |-> stored.epoch, seed |-> stored.seed,
                row |-> stored.row,
                rows |-> IF stored.strategy = "packed" THEN BuildEpoch(stored.seed) ELSE <<>>]
  /\ UNCHANGED <<docs, orders, stored>>

RestoreLoader ==
  /\ StateFits(stored)
  /\ loader' = [strategy |-> stored.strategy, position |-> stored.position,
                draws |-> stored.draws, epoch |-> stored.epoch, seed |-> stored.seed,
                row |-> stored.row,
                rows |-> IF stored.strategy = "packed" THEN BuildEpoch(stored.seed) ELSE <<>>]
  /\ UNCHANGED <<docs, orders, stored>>

LoaderInit ==
  /\ docs \in Corpora
  /\ orders \in [1 .. MaxEpochs -> {Reverse([i \in DOMAIN docs |-> i])}
                                     \cup {[i \in DOMAIN docs |-> i]}]
  /\ \/ ValidStarts > 0 /\ loader = Opened("flat")
     \/ loader = Opened("packed")
  /\ stored = NoState

LoaderNext ==
  \/ NextFlatBatch \/ NextPackedBatch
  \/ SaveLoader \/ SaveElsewhere \/ ReopenLoader \/ RestoreLoader

LoaderSpec == LoaderInit /\ [][LoaderNext]_loaderVars

(***************************************************************************)
(* Properties.                                                             *)
(***************************************************************************)
LoaderTypeOK ==
  /\ loader.strategy \in {"flat", "packed"}
  /\ loader.position \in Nat /\ loader.draws \in Nat
  /\ loader.row \in 0 .. Len(loader.rows)
  /\ stored.dataset \in {"none", "this", "other"}

\* The stream is a function of the position: after any sequence of saves,
\* restarts and restores, a loader at a position is the loader that got
\* there without interruption, and will deliver the same batches.
ResumesExactly ==
  IF loader.strategy = "flat"
  THEN loader.position = loader.draws * BatchSize
  ELSE /\ loader.draws = loader.epoch + 1 /\ loader.seed = loader.epoch + 1
       /\ loader.rows = BuildEpoch(loader.seed)
       /\ loader.position = loader.row
            + Total([e \in 1 .. loader.epoch |-> Len(BuildEpoch(e))])

\* Every window of every shard is drawn by exactly one offset.
WindowsAreUniform ==
  LET windows == UNION {{s} \X (0 .. Starts(Lengths2[s]) - 1) : s \in DOMAIN Lengths2}
      offsets == 0 .. ValidStarts - 1
  IN  /\ {Locate(o) : o \in offsets} = windows
      /\ Cardinality(offsets) = Cardinality(windows)

\* Over an epoch every token is predicted exactly once, from the token
\* before it in its document (BOS before the first), and BOS only after the
\* end of a document.
Predictions ==
  { p \in (DOMAIN loader.rows) \X (1 .. SeqLen) : p[2] \in Scored(loader.rows[p[1]]) }
From(p) == Window(loader.rows[p[1]])[p[2]]
Target2(p) == Window(loader.rows[p[1]])[p[2] + 1]

EveryTokenPredictedOnce ==
  /\ \A d \in DOMAIN docs : \A i \in 1 .. docs[d] :
       \E p \in Predictions :
         /\ Target2(p) = <<d, i>> /\ From(p) = (IF i = 1 THEN Bos ELSE <<d, i - 1>>)
         /\ \A q \in Predictions : Target2(q) = Target2(p) => q = p
  /\ \A p \in Predictions : Target2(p) = Bos =>
       From(p) = Bos \/ From(p) = <<From(p)[1], docs[From(p)[1]]>>

\* _place_best_fit_piece: the reference planner, which looks at every row.
Remaining(row, piece) == RowTokens - Total(Sizes(row)) - PackedSize(piece)
PlaceByScan(rows, piece) ==
  LET fits == {r \in DOMAIN rows : Remaining(rows[r], piece) >= 0}
      best == {r \in fits : \A s \in fits : Remaining(rows[r], piece) <= Remaining(rows[s], piece)}
  IN  IF piece.continues \/ fits = {} THEN Append(rows, <<piece>>)
      ELSE [rows EXCEPT ![Least(best)] = Append(@, piece)]
ScannedRows(pieces) ==
  LET scan[n \in 0 .. Len(pieces)] ==
        IF n = 0 THEN <<>> ELSE PlaceByScan(scan[n - 1], pieces[n])
  IN  scan[Len(pieces)]

\* The rows of an epoch, found through the index of capacities, are those of
\* the reference planner, and empty ones after them.
PlanIsBestFit ==
  loader.strategy = "packed" =>
    LET scanned == ScannedRows(PiecesInOrder(orders[loader.seed])) IN
    /\ SubSeq(loader.rows, 1, Len(scanned)) = scanned
    /\ \A r \in Len(scanned) + 1 .. Len(loader.rows) : loader.rows[r] = <<>>

\* What the loaders deliver is the corpus: flat windows are drawn uniformly,
\* packed rows teach each token once.
BatchesAreExact ==
  IF loader.strategy = "flat" THEN WindowsAreUniform ELSE EveryTokenPredictedOnce

\* A loader resumes where it was, plans as the reference does and delivers the
\* corpus.
LoaderIsExact == ResumesExactly /\ PlanIsBestFit /\ BatchesAreExact
=============================================================================
