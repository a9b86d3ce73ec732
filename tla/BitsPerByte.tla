----------------------------- MODULE BitsPerByte -----------------------------
(***************************************************************************)
(* Bits-per-byte validation (evaluation/bpb.py, full_document_bpb.py,      *)
(* nanochat_bpb.py, sft_bpb.py).  A protocol turns documents into rows of  *)
(* T + 1 tokens, a model is run over batches of them, and an accumulator   *)
(* adds up the losses and the bytes of the targets that count.  The losses *)
(* are what they are; which targets count, how often and after which       *)
(* context is what makes two results comparable.                           *)
(*                                                                         *)
(* A cell is a token of a document, <<document, position>>, or BOS.        *)
(***************************************************************************)
EXTENDS Integers, Sequences, FiniteSets, SequencesExt, FiniteSetsExt

CONSTANTS BpbContext,    \* context_length (T)
          BpbRows,       \* device_batch_size
          BpbCorpora,    \* validation documents, by their numbers of tokens
          BpbBuffer,     \* buffer_size of the compatibility packer,
          BpbGroup,      \*   and documents per tokenizer batch
          BpbSteps,      \* batches its token budget allows
          SftValidation, \* finite SFT batches: conversations, targets that count
          SftBudgets     \* max_batches; 0 is None

ASSUME BpbAssumption ==
  /\ {BpbContext, BpbRows, BpbBuffer, BpbGroup, BpbSteps} \subseteq Nat \ {0}
  /\ BpbCorpora \subseteq Seq(Nat) /\ SftBudgets \subseteq Nat
  /\ SftValidation \subseteq Seq([conversations : Nat \ {0}, targets : Nat])

VARIABLES bpbDocs,  \* the documents of this validation
          bpb,      \* the evaluation
          packer,   \* the protocol's rows
          mood      \* the caller's module mode and generator state

bpbVars == <<bpbDocs, bpb, packer, mood>>

BOS      == <<0, 0>>
Width    == BpbContext + 1
BytesIn(cell) == IF cell = BOS THEN 0 ELSE 1 + ((cell[1] + cell[2]) % 2)
Sum(f(_), S) == FoldSet(LAMBDA x, total : f(x) + total, 0, S)
CellsOf(d)   == [i \in 1 .. bpbDocs[d] |-> <<d, i>>]
SourceCells  == UNION {ToSet(CellsOf(d)) : d \in DOMAIN bpbDocs}

(***************************************************************************)
(* BPBAccumulator and evaluate_bpb_batches.                                *)
(***************************************************************************)
NoTotals == [processed |-> 0, tokens |-> 0, bytes |-> 0, seen |-> <<>>]

\* A target counts when its mask is set and it has bytes.  `seen` is history:
\* the counted targets, each with the cell the model saw just before it.
CountedOf(row) ==
  LET at == SetToSortSeq({i \in row.mask : BytesIn(row.cells[i + 1]) > 0}, <)
  IN  [k \in DOMAIN at |-> <<row.cells[at[k]], row.cells[at[k] + 1]>>]

Updated(totals, row) ==
  LET counted == CountedOf(row) IN
  [processed |-> totals.processed + BpbContext,
   tokens    |-> totals.tokens + Len(counted),
   bytes     |-> FoldLeft(LAMBDA n, pair : n + BytesIn(pair[2]), totals.bytes, counted),
   seen      |-> totals.seen \o counted]

\* The model runs in evaluation mode; the batch may draw random numbers.
Evaluating(rows) ==
  /\ bpb' = [bpb EXCEPT !.totals = FoldLeft(Updated, @, rows), !.batches = @ + 1]
  /\ mood' \in [training : {FALSE}, random : {0, 1}]

\* Mutant: only a finished evaluation restores the caller's state.
Restored_AfterResult(result) ==
  mood' = IF result = "error" THEN mood ELSE bpb.saved

\* The finally clause.
Restored(result) == mood' = bpb.saved

EndBpb(result) ==
  /\ bpb' = [bpb EXCEPT !.at = "done", !.result = result]
  /\ Restored(result)
  /\ UNCHANGED <<bpbDocs, packer>>

FailBpb == bpb.at = "batches" /\ EndBpb("error")

(***************************************************************************)
(* full_documents_v1: every token is a target once.                        *)
(***************************************************************************)
Fewest(S) == CHOOSE x \in S : \A y \in S : x <= y
Smaller(m, n) == IF m < n THEN m ELSE n

Pieces(d) ==
  LET n == bpbDocs[d]
      count == IF n = 0 THEN 1 ELSE (n + BpbContext - 1) \div BpbContext
  IN  [k \in 1 .. count |->
        LET start == (k - 1) * BpbContext IN
        [doc |-> d, start |-> start, count |-> Smaller(n - start, BpbContext),
         more |-> k > 1, last |-> k = count]]

Free(row) == Width - FoldLeft(LAMBDA n, piece : n + piece.count + 1, 0, row)

\* _CapacityIndexedRows: a continuation opens a row, a first piece goes to
\* the fullest row that has room, the earliest of them.
PlacePiece(rows, piece) ==
  LET fits == IF piece.more THEN {}
              ELSE {r \in DOMAIN rows : Free(rows[r]) >= piece.count + 1}
      fullest == {r \in fits : \A q \in fits : Free(rows[r]) <= Free(rows[q])}
  IN  IF fits = {} THEN Append(rows, <<piece>>)
      ELSE [rows EXCEPT ![Fewest(fullest)] = Append(@, piece)]

PlanRows == FoldLeft(LAMBDA rows, d : FoldLeft(PlacePiece, rows, Pieces(d)),
                     <<>>, [d \in DOMAIN bpbDocs |-> d])

\* Mutant: a continuation starts like a document.
AddPiece_FromBOS(row, piece) ==
  LET cells == row.cells \o <<BOS>>
                 \o SubSeq(CellsOf(piece.doc), piece.start + 1, piece.start + piece.count)
  IN  [cells |-> cells,
       mask  |-> row.mask \cup (Len(row.cells) + 1 .. Len(row.cells) + piece.count)
                   \cup IF piece.last /\ Len(cells) < Width THEN {Len(cells)} ELSE {}]

\* A piece is preceded by BOS or by the last token of the one before it; the
\* BOS after a document is a target as well, if there is room for it.
AddPiece(row, piece) ==
  LET before == IF piece.more THEN <<piece.doc, piece.start>> ELSE BOS
      cells == row.cells \o <<before>>
                 \o SubSeq(CellsOf(piece.doc), piece.start + 1, piece.start + piece.count)
  IN  [cells |-> cells,
       mask  |-> row.mask \cup (Len(row.cells) + 1 .. Len(row.cells) + piece.count)
                   \cup IF piece.last /\ Len(cells) < Width THEN {Len(cells)} ELSE {}]

RowOf(row) ==
  LET filled == FoldLeft(AddPiece, [cells |-> <<>>, mask |-> {}], row)
      used == Len(filled.cells)
  IN  [filled EXCEPT !.cells =
         [i \in 1 .. Width |-> IF i <= used THEN filled.cells[i] ELSE BOS]]

Padding == [cells |-> [i \in 1 .. Width |-> BOS], mask |-> {}]

FullDocumentBatch ==
  /\ bpb.at = "batches" /\ bpb.protocol = "full"
  /\ LET plan == PlanRows
         from == bpb.batches * BpbRows
     IN  /\ from < Len(plan)
         /\ Evaluating([r \in 1 .. BpbRows |->
              IF from + r <= Len(plan) THEN RowOf(plan[from + r]) ELSE Padding])
  /\ UNCHANGED <<bpbDocs, packer>>

\* A result that does not count every source token and byte once is refused.
FinishFullDocuments ==
  /\ bpb.at = "batches" /\ bpb.protocol = "full"
  /\ bpb.batches * BpbRows >= Len(PlanRows)
  /\ EndBpb(IF /\ bpb.totals.tokens = Cardinality(SourceCells)
               /\ bpb.totals.bytes = Sum(BytesIn, SourceCells)
            THEN "result" ELSE "refused")

(***************************************************************************)
(* nanochat_compat_v1: the reference's buffered best fit with destructive  *)
(* crops, cycling over the documents.                                      *)
(***************************************************************************)
NoPacker == [next |-> 1, buffer |-> <<>>, row |-> <<>>, rows |-> <<>>,
             retained |-> [d \in DOMAIN bpbDocs |-> 0],
             counted |-> 0, countedBytes |-> 0, unique |-> 0, uniqueBytes |-> 0]

Packing == bpb.at = "batches" /\ bpb.protocol = "nanochat" /\ bpb.batches < BpbSteps
           /\ Len(packer.rows) < BpbRows

\* _refill_buffer: whole tokenizer batches, from the top after the last.
Refill ==
  /\ Packing /\ Len(packer.buffer) < BpbBuffer
  /\ LET upTo == Smaller(packer.next + BpbGroup - 1, Len(bpbDocs)) IN
     packer' = [packer EXCEPT
       !.buffer = @ \o [i \in 1 .. upTo - packer.next + 1 |-> packer.next + i - 1],
       !.next = IF upTo = Len(bpbDocs) THEN 1 ELSE upTo + 1]
  /\ UNCHANGED <<bpbDocs, bpb, mood>>

Length(i) == bpbDocs[packer.buffer[i]] + 1
RoomLeft == Width - Len(packer.row)

\* The first of the largest documents that fit, or else of the shortest.
Chosen ==
  LET all == DOMAIN packer.buffer
      fits == {i \in all : Length(i) <= RoomLeft}
  IN  Fewest(IF fits # {} THEN {i \in fits : \A j \in fits : Length(i) >= Length(j)}
             ELSE {i \in all : \A j \in all : Length(i) <= Length(j)})

\* __next__ with _record_source_prefix: of a document only prefixes are
\* kept, so the longest one so far is what is unique.
PackDocument ==
  /\ Packing /\ Len(packer.buffer) >= BpbBuffer
  /\ LET d == packer.buffer[Chosen]
         copied == Smaller(Length(Chosen), RoomLeft)
         cells == SubSeq(CellsOf(d), 1, copied - 1)
         fresh == {cells[i] : i \in packer.retained[d] + 1 .. copied - 1}
         row == packer.row \o <<BOS>> \o cells
     IN  packer' = [packer EXCEPT
           !.buffer = RemoveAt(@, Chosen),
           !.row  = IF Len(row) = Width THEN <<>> ELSE row,
           !.rows = IF Len(row) = Width
                    THEN Append(@, [cells |-> row, mask |-> 1 .. BpbContext]) ELSE @,
           !.retained = IF fresh = {} THEN @ ELSE [@ EXCEPT ![d] = copied - 1],
           !.counted = @ + Len(cells),
           !.countedBytes = @ + Sum(BytesIn, ToSet(cells)),
           !.unique = @ + Cardinality(fresh),
           !.uniqueBytes = @ + Sum(BytesIn, fresh)]
  /\ UNCHANGED <<bpbDocs, bpb, mood>>

CompatibilityBatch ==
  /\ bpb.at = "batches" /\ bpb.protocol = "nanochat" /\ Len(packer.rows) = BpbRows
  /\ Evaluating(packer.rows)
  /\ packer' = [packer EXCEPT !.rows = <<>>]
  /\ UNCHANGED bpbDocs

FinishCompatibility ==
  /\ bpb.at = "batches" /\ bpb.protocol = "nanochat" /\ bpb.batches = BpbSteps
  /\ EndBpb(IF /\ bpb.totals.bytes > 0
               /\ bpb.totals.processed = BpbSteps * BpbRows * BpbContext
               /\ bpb.totals.tokens = packer.counted
               /\ bpb.totals.bytes = packer.countedBytes
            THEN "result" ELSE "refused")

(***************************************************************************)
(* sft_assistant_bpb: a fresh finite loader, up to a budget of batches.    *)
(***************************************************************************)
WithinBudget == /\ bpb.batches < Len(bpb.feed)
                /\ bpb.budget = 0 \/ bpb.batches < bpb.budget

SftBatch ==
  /\ bpb.at = "batches" /\ bpb.protocol = "sft" /\ WithinBudget
  /\ LET batch == bpb.feed[bpb.batches + 1] IN
     bpb' = [bpb EXCEPT !.batches = @ + 1,
                        !.conversations = @ + batch.conversations,
                        !.totals.tokens = @ + batch.targets]
  /\ mood' \in [training : {FALSE}, random : {0, 1}]
  /\ UNCHANGED <<bpbDocs, packer>>

FinishSftValidation ==
  /\ bpb.at = "batches" /\ bpb.protocol = "sft" /\ ~WithinBudget
  /\ EndBpb(IF bpb.totals.tokens > 0 THEN "result" ELSE "refused")

BpbInit ==
  /\ bpbDocs \in BpbCorpora /\ SourceCells # {}
  /\ mood \in [training : BOOLEAN, random : {0}]
  /\ \E protocol \in {"full", "nanochat", "sft"}, feed \in SftValidation, budget \in SftBudgets :
       bpb = [at |-> "open", protocol |-> protocol, batches |-> 0, totals |-> NoTotals,
              feed |-> IF protocol = "sft" THEN feed ELSE <<>>,
              budget |-> IF protocol = "sft" THEN budget ELSE 0,
              conversations |-> 0, result |-> "none", saved |-> mood]
  /\ packer = NoPacker

StartBpb ==
  /\ bpb.at = "open"
  /\ bpb' = [bpb EXCEPT !.at = "batches"]
  /\ mood' = [mood EXCEPT !.training = FALSE]
  /\ UNCHANGED <<bpbDocs, packer>>

BpbNext ==
  \/ StartBpb \/ FullDocumentBatch \/ FinishFullDocuments
  \/ Refill \/ PackDocument \/ CompatibilityBatch \/ FinishCompatibility
  \/ SftBatch \/ FinishSftValidation \/ FailBpb

(***************************************************************************)
(* Properties.                                                             *)
(***************************************************************************)
CountedCells(totals) == {totals.seen[i][2] : i \in DOMAIN totals.seen}
Predecessor(cell) == IF cell[2] = 1 THEN BOS ELSE <<cell[1], cell[2] - 1>>

\* Whatever the rows, a counted token is predicted after the token before it
\* in its own document, or after BOS; a full-document evaluation counts every
\* source token once and never refuses its own result; a compatible one
\* reports the distinct tokens it really used, whole batches of it; an SFT
\* one the batches within its budget; and the caller finds its model's mode
\* and its generators as it left them, also after a failure.
BpbIsExact ==
  /\ \A i \in DOMAIN bpb.totals.seen :
       bpb.totals.seen[i][1] = Predecessor(bpb.totals.seen[i][2])
  /\ bpb.at = "done" => mood = bpb.saved
  /\ bpb.at = "done" /\ bpb.result # "error" =>
       CASE bpb.protocol = "full" ->
              /\ bpb.result = "result"
              /\ CountedCells(bpb.totals) = SourceCells
              /\ Len(bpb.totals.seen) = Cardinality(SourceCells)
         [] bpb.protocol = "nanochat" ->
              /\ bpb.result = "result" \/ CountedCells(bpb.totals) = {}
              /\ packer.unique = Cardinality(CountedCells(bpb.totals))
              /\ packer.uniqueBytes = Sum(BytesIn, CountedCells(bpb.totals))
         [] bpb.protocol = "sft" ->
              LET used == SubSeq(bpb.feed, 1, bpb.batches) IN
              /\ bpb.budget = 0 => used = bpb.feed
              /\ bpb.totals.tokens = FoldLeft(LAMBDA n, x : n + x.targets, 0, used)
              /\ bpb.conversations = FoldLeft(LAMBDA n, x : n + x.conversations, 0, used)
=============================================================================
